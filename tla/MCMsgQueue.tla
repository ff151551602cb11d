----------------------------- MODULE MCMsgQueue -----------------------------
(***************************************************************************)
(* Instances of MsgQueue for TLC.  Threads and submissions are model       *)
(* values and are interchangeable.                                         *)
(***************************************************************************)
EXTENDS MsgQueue, TLC

Interchangeable == Permutations(Threads) \cup Permutations(Submissions)
=============================================================================
