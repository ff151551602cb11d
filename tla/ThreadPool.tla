----------------------------- MODULE ThreadPool -----------------------------
(***************************************************************************)
(* threadpool of src/src/mythreadpool.hpp: one owner that commits tasks    *)
(* and at the end destroys the pool, and the threads of addThread, which   *)
(* share a queue, a mutex, a condition variable and the atomic _run.       *)
(*                                                                         *)
(* _lock has no variable: a thread holds it from the moment it has         *)
(* evaluated wait's predicate to the moment it is asleep, or to its pop.   *)
(* The predicate reads _run once and the queue under the lock, so its      *)
(* evaluation is one step.  A task does not commit tasks.  _idlThrNum is   *)
(* only read by idlCount, which nothing calls: it is left out.             *)
(* A definition marked "mutant" is a plausible mistake in the one that     *)
(* follows it, used to show that the properties notice it.                 *)
(***************************************************************************)
EXTENDS Naturals, Sequences, FiniteSets

CONSTANTS Threads,  \* the threads addThread creates, at most 16
          Tasks,    \* the tasks the owner commits, each once
          NoTask

ASSUME ThreadPoolAssumption == IsFiniteSet(Threads) /\ NoTask \notin Tasks

VARIABLES
  run,       \* _run
  tasks,     \* _tasks
  opc,       \* where the owner is in commit or in the destructor
  wpc,       \* where each thread is in its loop
  wtask,     \* its local task
  committed, \* history: the tasks committed, in order
  started,   \* history: the tasks taken off the queue, in order
  late,      \* history: the threads that took one after _run was cleared
  missed     \* history: the threads that were falling asleep, the lock held,
             \* when the destructor notified

vars == <<run, tasks, opc, wpc, wtask, committed, started, late, missed>>

Init ==
  /\ run = TRUE
  /\ tasks = <<>>
  /\ opc = "free"
  /\ wpc = [w \in Threads |-> "loop"]
  /\ wtask = [w \in Threads |-> NoTask]
  /\ committed = <<>>
  /\ started = <<>>
  /\ late = {}
  /\ missed = {}

Elements(s) == {s[i] : i \in 1..Len(s)}
At(w, from, to) == wpc[w] = from /\ wpc' = [wpc EXCEPT ![w] = to]

NotYetAsleep ==  \* mutant: wait gives the lock back before it blocks
  \A w \in Threads : wpc[w] \notin {"front", "pop"}
Unlocked == \A w \in Threads : wpc[w] \notin {"drowsy", "front", "pop"}

-----------------------------------------------------------------------------
(* The owner: commit, *)

Commit ==
  /\ opc = "free" /\ run
  /\ opc' = "push"
  /\ UNCHANGED <<run, tasks, wpc, wtask, committed, started, late, missed>>

Push(t) ==
  /\ opc = "push" /\ Unlocked
  /\ t \notin Elements(committed)
  /\ tasks' = Append(tasks, t)
  /\ committed' = Append(committed, t)
  /\ opc' = "notify"
  /\ UNCHANGED <<run, wpc, wtask, started, late, missed>>

Asleep == {w \in Threads : wpc[w] = "asleep"}

NotifyNobody ==  \* mutant: commit does not notify
  /\ opc = "notify"
  /\ opc' = "free"
  /\ UNCHANGED <<run, tasks, wpc, wtask, committed, started, late, missed>>

(* notify_one after the lock is released: one blocked thread, if any. *)
NotifyOne ==
  /\ opc = "notify"
  /\ opc' = "free"
  /\ \/ Asleep = {} /\ UNCHANGED wpc
     \/ \E w \in Asleep : wpc' = [wpc EXCEPT ![w] = "lock"]
  /\ UNCHANGED <<run, tasks, wtask, committed, started, late, missed>>

(* and the destructor, which takes no lock. *)

Stop ==
  /\ opc = "free"
  /\ run' = FALSE
  /\ opc' = "stop"
  /\ UNCHANGED <<tasks, wpc, wtask, committed, started, late, missed>>

NotifyOneOfAll ==  \* mutant: notify_one in place of notify_all
  /\ opc = "stop"
  /\ \/ Asleep = {} /\ UNCHANGED wpc
     \/ \E w \in Asleep : wpc' = [wpc EXCEPT ![w] = "lock"]
  /\ missed' = {w \in Threads : wpc[w] = "drowsy"}
  /\ opc' = "join"
  /\ UNCHANGED <<run, tasks, wtask, committed, started, late>>

NotifyAll ==
  /\ opc = "stop"
  /\ wpc' = [w \in Threads |-> IF w \in Asleep THEN "lock" ELSE wpc[w]]
  /\ missed' = {w \in Threads : wpc[w] = "drowsy"}
  /\ opc' = "join"
  /\ UNCHANGED <<run, tasks, wtask, committed, started, late>>

Joined ==
  /\ opc = "join"
  /\ \A w \in Threads : wpc[w] = "done"
  /\ opc' = "gone"
  /\ UNCHANGED <<run, tasks, wpc, wtask, committed, started, late, missed>>

OwnerStep == (\E t \in Tasks : Push(t)) \/ NotifyOne \/ NotifyAll \/ Joined

-----------------------------------------------------------------------------
(* A thread: while (_run), *)

LoopForever(w) ==  \* mutant: while (true)
  /\ At(w, "loop", "lock")
  /\ UNCHANGED <<run, tasks, opc, wtask, committed, started, late, missed>>

Loop(w) ==
  /\ \/ run /\ At(w, "loop", "lock")
     \/ ~run /\ At(w, "loop", "done")
  /\ UNCHANGED <<run, tasks, opc, wtask, committed, started, late, missed>>

(* take the lock and evaluate the predicate; the return of line 98; *)
Check(w) ==
  /\ Unlocked
  /\ \/ tasks # <<>> /\ At(w, "lock", "front")
     \/ tasks = <<>> /\ run /\ At(w, "lock", "drowsy")
     \/ tasks = <<>> /\ ~run /\ At(w, "lock", "done")
  /\ UNCHANGED <<run, tasks, opc, wtask, committed, started, late, missed>>

(* wait blocks and gives the lock back; *)
Sleep(w) ==
  /\ At(w, "drowsy", "asleep")
  /\ UNCHANGED <<run, tasks, opc, wtask, committed, started, late, missed>>

SpuriousWakeup(w) ==
  /\ At(w, "asleep", "lock")
  /\ UNCHANGED <<run, tasks, opc, wtask, committed, started, late, missed>>

FrontNothing(w) ==  \* mutant: the task is not copied
  /\ At(w, "front", "pop")
  /\ UNCHANGED <<run, tasks, opc, wtask, committed, started, late, missed>>

(* task = _tasks.front(), *)
Front(w) ==
  /\ At(w, "front", "pop")
  /\ wtask' = [wtask EXCEPT ![w] = Head(tasks)]
  /\ UNCHANGED <<run, tasks, opc, committed, started, late, missed>>

PopLast(w) ==  \* mutant: the queue is popped at its other end
  /\ At(w, "pop", "task")
  /\ tasks' = SubSeq(tasks, 1, Len(tasks) - 1)
  /\ started' = Append(started, wtask[w])
  /\ late' = IF run THEN late ELSE late \cup {w}
  /\ UNCHANGED <<run, opc, wtask, committed, missed>>

(* _tasks.pop(), unlock, *)
Pop(w) ==
  /\ At(w, "pop", "task")
  /\ tasks' = Tail(tasks)
  /\ started' = Append(started, wtask[w])
  /\ late' = IF run THEN late ELSE late \cup {w}
  /\ UNCHANGED <<run, opc, wtask, committed, missed>>

(* and the end of task(). *)
Return(w) ==
  /\ At(w, "task", "loop")
  /\ wtask' = [wtask EXCEPT ![w] = NoTask]
  /\ UNCHANGED <<run, tasks, opc, committed, started, late, missed>>

ThreadStep(w) ==
  \/ Loop(w) \/ Check(w) \/ Sleep(w) \/ Front(w) \/ Pop(w) \/ Return(w)

Next ==
  \/ Commit \/ Stop \/ OwnerStep
  \/ \E w \in Threads : ThreadStep(w) \/ SpuriousWakeup(w)

Spec == Init /\ [][Next]_vars

(* The scheduler runs every thread, a mutex that is free again and again   *)
(* is taken in the end by each thread that waits for it, and every task    *)
(* returns.  Nothing is assumed of spurious wakeups, nor that the owner    *)
(* commits or destroys.                                                    *)
FairSpec ==
  /\ Spec
  /\ SF_vars(OwnerStep)
  /\ \A w \in Threads : SF_vars(ThreadStep(w))

-----------------------------------------------------------------------------
ThreadPC == {"loop", "lock", "drowsy", "asleep", "front", "pop", "task", "done"}

(* Type correctness, with what each of the tasks a thread holds may be. *)
TypeOK ==
  /\ run \in BOOLEAN
  /\ tasks \in Seq(Tasks)
  /\ opc \in {"free", "push", "notify", "stop", "join", "gone"}
  /\ wpc \in [Threads -> ThreadPC]
  /\ wtask \in [Threads -> Tasks \cup {NoTask}]
  /\ committed \in Seq(Tasks)
  /\ started \in Seq(Tasks)
  /\ late \subseteq Threads
  /\ missed \subseteq Threads

(* Every task is started once and in the order of commit, although several *)
(* threads take from the queue and front and pop are two calls (lines      *)
(* 99-100 against 74-75).                                                  *)
StartedInOrder == started \o tasks = committed

(* The threads that will look at the queue again before they sleep. *)
OnTheirWay == {w \in Threads : wpc[w] \in {"loop", "lock", "front", "pop"}}

(* No wakeup is lost while the pool runs: commit notifies outside the      *)
(* lock, after the push (line 77), and yet as long as a thread sleeps or   *)
(* is about to, there are no more tasks waiting than threads on their way  *)
(* to them, the one about to be notified included; threads that run a      *)
(* task, for however long, do not count.                                   *)
NoLostWakeup ==
  run /\ (\E w \in Threads : wpc[w] \in {"drowsy", "asleep"}) =>
    Len(tasks) <= Cardinality(OnTheirWay)
                  + (IF opc = "notify" THEN 1 ELSE 0)

(* The pool is the abstract one: in particular a thread that is still      *)
(* waiting when the pool closes starts one task at most, because _run is   *)
(* read before each (line 89), and what is left is dropped.                *)
TP == INSTANCE TaskPool WITH
        open <- run, waiting <- tasks,
        running <- [w \in Threads |->
                      IF wpc[w] = "task" THEN wtask[w] ELSE NoTask]
ImplementsTaskPool == TP!Spec

(* Every task committed is started in the end, unless the pool is          *)
(* destroyed first: notify_one reaches a thread that looks at the queue.   *)
EveryTaskStarts ==
  \A t \in Tasks :
    t \in Elements(committed) ~> t \in Elements(started) \/ ~run

(* The destructor returns, provided that no thread was between its         *)
(* predicate and its sleep when notify_all was called (lines 54-55): such  *)
(* a thread is not blocked yet, sleeps afterwards and is never woken.      *)
DestructorReturns == opc = "join" /\ missed = {} ~> opc = "gone"
=============================================================================
