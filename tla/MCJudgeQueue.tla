---------------------------- MODULE MCJudgeQueue ----------------------------
(***************************************************************************)
(* Instances of JudgeQueue for TLC.  The threads are model values and are  *)
(* interchangeable: no definition compares or orders them.  The number of  *)
(* ids bounds how often the ring goes round.                               *)
(***************************************************************************)
EXTENDS JudgeQueue, TLC

CONSTANT LastId  \* the bound on the ids put in

MCIds == 0..LastId

Interchangeable == Permutations(Producers) \cup Permutations(Consumers)
=============================================================================
