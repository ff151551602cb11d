---------------------------- MODULE MCThreadPool ----------------------------
(* Instances of ThreadPool for TLC: the owner commits as many tasks as it  *)
(* has, in any order, and may destroy the pool at any moment.              *)
EXTENDS ThreadPool
=============================================================================
