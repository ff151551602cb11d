------------------------------ MODULE JobFifo ------------------------------
(***************************************************************************)
(* What the judge queue promises to JudgeWorker, whatever its layout in    *)
(* memory: the ids of the submissions waiting to be judged are handed out  *)
(* in the order they were put in, each of them exactly once.               *)
(***************************************************************************)
EXTENDS Naturals, Sequences

CONSTANT Ids      \* the ids of submissions

VARIABLES given,  \* the ids put in, in queue order
          taken   \* the ids handed out to the judge threads, in that order

fifoVars == <<given, taken>>

Init == given = <<>> /\ taken = <<>>

(* An id that is not yet in the queue's history is put at its end. *)
Give(id) ==
  /\ \A i \in 1..Len(given) : given[i] # id
  /\ given' = Append(given, id)
  /\ UNCHANGED taken

(* The oldest id not handed out yet is handed out. *)
Take ==
  /\ Len(taken) < Len(given)
  /\ taken' = Append(taken, given[Len(taken) + 1])
  /\ UNCHANGED given

Next == Take \/ \E id \in Ids : Give(id)

Spec == Init /\ [][Next]_fifoVars
=============================================================================
