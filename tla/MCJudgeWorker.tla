---------------------------- MODULE MCJudgeWorker ----------------------------
(***************************************************************************)
(* Instances of JudgeWorker for TLC.  Threads are model values; those that *)
(* play the same part are interchangeable, and so are the submissions with *)
(* a supported language.                                                   *)
(* The liveness run uses no symmetry.                                      *)
(***************************************************************************)
EXTENDS JudgeWorker, TLC

Interchangeable ==
  Permutations(Posters \cap Pollers) \cup Permutations(Workers)
    \cup Permutations(Submissions \ Unsupported)
==============================================================================
