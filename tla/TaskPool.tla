------------------------------ MODULE TaskPool ------------------------------
(***************************************************************************)
(* What threadpool of src/src/mythreadpool.hpp promises its owner, without *)
(* the lock and the condition variable: the tasks are started once each,   *)
(* in the order of commit, by any thread that runs none; from the moment   *)
(* the pool is closed a thread starts at most one more.                    *)
(***************************************************************************)
EXTENDS Naturals, Sequences

CONSTANTS Threads,  \* the threads of the pool
          Tasks,    \* what may be committed to it
          NoTask

VARIABLES open,     \* whether the pool takes tasks
          waiting,  \* the tasks committed and not started, in order
          running,  \* what each thread runs
          late      \* the threads that have started a task since the closing

poolVars == <<open, waiting, running, late>>

Init ==
  /\ open = TRUE
  /\ waiting = <<>>
  /\ running = [w \in Threads |-> NoTask]
  /\ late = {}

(* Not UNCHANGED: a pool that is never closed has a constant for open.    *)
Stays == open' = open /\ late' = late

Commit(t) ==
  /\ open
  /\ waiting' = Append(waiting, t)
  /\ UNCHANGED running /\ Stays

Take(w) ==
  /\ running[w] = NoTask
  /\ waiting # <<>>
  /\ w \notin late
  /\ running' = [running EXCEPT ![w] = Head(waiting)]
  /\ waiting' = Tail(waiting)
  /\ late' = IF open THEN late ELSE late \cup {w}
  /\ open' = open

Finish(w) ==
  /\ running[w] # NoTask
  /\ running' = [running EXCEPT ![w] = NoTask]
  /\ UNCHANGED waiting /\ Stays

Close ==
  /\ open
  /\ open' = FALSE
  /\ UNCHANGED <<waiting, running, late>>

Next ==
  \/ \E t \in Tasks : Commit(t)
  \/ \E w \in Threads : Take(w) \/ Finish(w)
  \/ Close

Spec == Init /\ [][Next]_poolVars
=============================================================================
