-------------------------- MODULE ThreadPoolProofs --------------------------
(***************************************************************************)
(* What holds of the thread pool for any number of threads and any tasks.  *)
(*                                                                         *)
(* The argument is the lock: at most one thread is between its predicate   *)
(* and the release of the lock (Alone), the owner pushes only when none    *)
(* is, and so what that thread has seen of the queue is still so when it   *)
(* acts on it (Seen).  That no wakeup is lost is a count of threads.       *)
(***************************************************************************)
EXTENDS ThreadPool, SequenceTheorems, FiniteSetTheorems, TLAPS

Holding == {"drowsy", "front", "pop"}

Alone ==
  \A v, w \in Threads : wpc[v] \in Holding /\ wpc[w] \in Holding => v = w

Seen ==
  \A w \in Threads :
    /\ wpc[w] = "drowsy" => tasks = <<>>
    /\ wpc[w] \in {"front", "pop"} => tasks # <<>>
    /\ wpc[w] = "pop" => wtask[w] = Head(tasks)
    /\ wpc[w] = "task" => wtask[w] \in Tasks

(* The owner is past commit once the pool is closed, and a thread that has *)
(* started a task since will not take another.                             *)
Closing ==
  /\ opc \in {"free", "push", "notify"} <=> run
  /\ \A w \in late : ~run /\ wpc[w] \in {"task", "loop", "done"}

(* The inductive invariant. *)
IInv == TypeOK /\ Alone /\ Seen /\ Closing /\ StartedInOrder

-----------------------------------------------------------------------------
(* A task moved from the head of one sequence to the end of another, or    *)
(* added at the end, leaves the two in order.                              *)
LEMMA MoveHead ==
  ASSUME NEW S, NEW s \in Seq(S), NEW t \in Seq(S), t # <<>>
  PROVE  /\ Head(t) \in S /\ Tail(t) \in Seq(S)
         /\ Append(s, Head(t)) \in Seq(S)
         /\ Append(s, Head(t)) \o Tail(t) = s \o t
<1>1. Head(t) \in S /\ Tail(t) \in Seq(S) /\ Append(s, Head(t)) \in Seq(S)
  BY HeadTailProperties, AppendProperties
<1>2. Append(s, Head(t)) \o Tail(t) \in Seq(S) /\ s \o t \in Seq(S)
  BY <1>1, ConcatProperties
<1>3. Len(Append(s, Head(t)) \o Tail(t)) = Len(s \o t)
  BY <1>1, ConcatProperties, HeadTailProperties, AppendProperties, LenProperties
<1>4. ASSUME NEW k \in 1..Len(s \o t)
      PROVE  (Append(s, Head(t)) \o Tail(t))[k] = (s \o t)[k]
  OBVIOUS
<1> QED
  BY <1>1, <1>2, <1>3, <1>4, SeqEqual

LEMMA AddLast ==
  ASSUME NEW S, NEW s \in Seq(S), NEW t \in Seq(S), NEW e \in S
  PROVE  s \o Append(t, e) = Append(s \o t, e)
  OBVIOUS

LEMMA IInvInit == Init => IInv
<1> SUFFICES ASSUME Init PROVE IInv
  OBVIOUS
<1>1. TypeOK
  BY DEF Init, TypeOK, ThreadPC
<1>2. Alone /\ Seen /\ Closing
  BY DEF Init, Alone, Seen, Closing, Holding
<1>3. StartedInOrder
  BY DEF Init, StartedInOrder
<1> QED
  BY <1>1, <1>2, <1>3 DEF IInv

(* The steps of the owner, *)
LEMMA OwnerKeeps ==
  ASSUME IInv, Commit \/ Stop \/ OwnerStep
  PROVE  IInv'
<1> USE DEF IInv, TypeOK, Alone, Seen, Closing, Holding, StartedInOrder
<1>1. CASE Commit
  BY <1>1 DEF Commit
<1>2. ASSUME NEW t \in Tasks, Push(t) PROVE IInv'
  <2>1. \A w \in Threads : wpc[w] \notin Holding
    BY <1>2 DEF Push, Unlocked
  <2>2. tasks' \in Seq(Tasks) /\ committed' \in Seq(Tasks)
    BY <1>2 DEF Push
  <2>3. started \o Append(tasks, t) = Append(started \o tasks, t)
    BY AddLast
  <2> QED
    BY <1>2, <2>1, <2>2, <2>3 DEF Push
<1>3. CASE NotifyOne
  BY <1>3 DEF NotifyOne, Asleep, ThreadPC
<1>4. CASE Stop
  BY <1>4 DEF Stop
<1>5. CASE NotifyAll
  BY <1>5 DEF NotifyAll, Asleep, ThreadPC
<1>6. CASE Joined
  BY <1>6 DEF Joined
<1> QED
  BY <1>1, <1>2, <1>3, <1>4, <1>5, <1>6 DEF OwnerStep

(* and those of a thread. *)
LEMMA ThreadKeeps ==
  ASSUME IInv, NEW w \in Threads, ThreadStep(w) \/ SpuriousWakeup(w)
  PROVE  IInv'
<1> USE DEF IInv, TypeOK, Alone, Seen, Closing, Holding, StartedInOrder, At,
            ThreadPC
<1>1. CASE Loop(w)
  BY <1>1 DEF Loop
<1>2. CASE Check(w)
  BY <1>2 DEF Check, Unlocked
<1>3. CASE Sleep(w)
  BY <1>3 DEF Sleep
<1>4. CASE SpuriousWakeup(w)
  BY <1>4 DEF SpuriousWakeup
<1>5. CASE Front(w)
  <2>1. tasks # <<>> /\ Head(tasks) \in Tasks
    BY <1>5, HeadTailProperties DEF Front
  <2> QED
    BY <1>5, <2>1 DEF Front
<1>6. CASE Pop(w)
  <2>1. tasks # <<>> /\ wtask[w] = Head(tasks)
    BY <1>6 DEF Pop
  <2>2. /\ Tail(tasks) \in Seq(Tasks) /\ Head(tasks) \in Tasks
        /\ Append(started, Head(tasks)) \in Seq(Tasks)
        /\ Append(started, Head(tasks)) \o Tail(tasks) = started \o tasks
    BY <2>1, MoveHead
  <2>3. \A v \in Threads : wpc[v] \in Holding => v = w
    BY <1>6 DEF Pop
  <2>4. TypeOK' /\ StartedInOrder'
    BY <1>6, <2>1, <2>2 DEF Pop
  <2>5. Alone' /\ Seen'
    BY <1>6, <2>1, <2>2, <2>3 DEF Pop
  <2>6. Closing'
    BY <1>6 DEF Pop
  <2> QED
    BY <2>4, <2>5, <2>6
<1>7. CASE Return(w)
  BY <1>7 DEF Return
<1> QED
  BY <1>1, <1>2, <1>3, <1>4, <1>5, <1>6, <1>7 DEF ThreadStep

LEMMA IInvStep == IInv /\ [Next]_vars => IInv'
<1>1. IInv /\ UNCHANGED vars => IInv'
  BY DEF vars, IInv, TypeOK, Alone, Seen, Closing, StartedInOrder
<1> QED
  BY <1>1, OwnerKeeps, ThreadKeeps DEF Next

LEMMA Inductive == Spec => []IInv
  BY IInvInit, IInvStep, PTL DEF Spec

(* Type correctness.                                                       *)
THEOREM TypeCorrect == Spec => []TypeOK
  BY Inductive, PTL DEF IInv

(* No task is lost, started twice or overtaken, whatever the interleaving  *)
(* of commit with the threads (lines 74-75 and 92-101).                    *)
THEOREM StartsInOrder == Spec => []StartedInOrder
  BY Inductive, PTL DEF IInv

-----------------------------------------------------------------------------
(* No wakeup is lost: how a step of one thread changes the number of the   *)
(* threads on their way.                                                   *)
Way == Cardinality(OnTheirWay)
OnWay == {"loop", "lock", "front", "pop"}

LEMMA WayType == IsFiniteSet(OnTheirWay) /\ Way \in Nat
<1>1. IsFiniteSet(OnTheirWay)
  BY ThreadPoolAssumption, FS_Subset DEF OnTheirWay
<1> QED
  BY <1>1, FS_CardinalityType DEF Way

LEMMA WayNat == Way' \in Nat
<1>1. IsFiniteSet(OnTheirWay')
  BY ThreadPoolAssumption, FS_Subset DEF OnTheirWay
<1> QED
  BY <1>1, FS_CardinalityType DEF Way

LEMMA WayGoto ==
  ASSUME TypeOK, NEW w \in Threads, NEW to, wpc' = [wpc EXCEPT ![w] = to]
  PROVE  /\ (to \in OnWay <=> wpc[w] \in OnWay) => Way' = Way
         /\ to \in OnWay /\ wpc[w] \notin OnWay => Way' = Way + 1
         /\ to \notin OnWay /\ wpc[w] \in OnWay => Way' = Way - 1
<1>0. IsFiniteSet(OnTheirWay) /\ Way \in Nat
  BY WayType
<1>1. CASE to \in OnWay <=> wpc[w] \in OnWay
  <2>1. OnTheirWay' = OnTheirWay
    BY <1>1 DEF TypeOK, OnTheirWay, OnWay
  <2> QED
    BY <1>1, <2>1 DEF Way
<1>2. CASE to \in OnWay /\ wpc[w] \notin OnWay
  <2>1. OnTheirWay' = OnTheirWay \cup {w} /\ w \notin OnTheirWay
    BY <1>2 DEF TypeOK, OnTheirWay, OnWay
  <2>2. Way' = Way + 1
    BY <1>0, <2>1, FS_AddElement DEF Way
  <2> QED
    BY <1>2, <2>2
<1>3. CASE to \notin OnWay /\ wpc[w] \in OnWay
  <2>1. OnTheirWay' = OnTheirWay \ {w} /\ w \in OnTheirWay
    BY <1>3 DEF TypeOK, OnTheirWay, OnWay
  <2>2. Way' = Way - 1
    BY <1>0, <2>1, FS_RemoveElement DEF Way
  <2> QED
    BY <1>3, <2>2
<1> QED
  BY <1>1, <1>2, <1>3

LEMMA WayStays == ASSUME wpc' = wpc PROVE Way' = Way
  BY DEF Way, OnTheirWay

LEMMA WakeupOwner ==
  ASSUME IInv, NoLostWakeup, Commit \/ Stop \/ OwnerStep
  PROVE  NoLostWakeup'
<1> USE DEF IInv, TypeOK, NoLostWakeup, Way
<1>1. Len(tasks) \in Nat /\ Way \in Nat
  BY WayType, LenProperties
<1>2. CASE Commit
  BY <1>1, <1>2, WayStays DEF Commit
<1>3. ASSUME NEW t \in Tasks, Push(t) PROVE NoLostWakeup'
  BY <1>1, <1>3, WayStays, AppendProperties DEF Push
<1>4. CASE NotifyOne
  <2>1. CASE Asleep = {} /\ UNCHANGED wpc
    <3>1. \A w \in Threads : wpc[w] \notin {"asleep"}
      BY <2>1 DEF Asleep
    <3>2. (\E w \in Threads : wpc[w] = "drowsy") => Len(tasks) = 0
      BY EmptySeq DEF Seen
    <3> QED
      BY <1>1, <1>4, <2>1, <3>1, <3>2, WayStays DEF NotifyOne
  <2>2. ASSUME NEW w \in Asleep, wpc' = [wpc EXCEPT ![w] = "lock"]
        PROVE  NoLostWakeup'
    <3>1. Way' = Way + 1
      BY <2>2, WayGoto DEF Asleep, OnWay
    <3>2. \E v \in Threads : wpc[v] \in {"drowsy", "asleep"}
      BY DEF Asleep
    <3> QED
      BY <1>1, <1>4, <3>1, <3>2 DEF NotifyOne
  <2> QED
    BY <1>4, <2>1, <2>2 DEF NotifyOne
<1>5. CASE Stop
  BY <1>5 DEF Stop
<1>6. CASE NotifyAll
  BY <1>6 DEF NotifyAll, Closing
<1>7. CASE Joined
  BY <1>7 DEF Joined, Closing
<1> QED
  BY <1>2, <1>3, <1>4, <1>5, <1>6, <1>7 DEF OwnerStep

LEMMA WakeupThread ==
  ASSUME IInv, NoLostWakeup, NEW w \in Threads,
         ThreadStep(w) \/ SpuriousWakeup(w)
  PROVE  NoLostWakeup'
<1>1. TypeOK /\ Seen
  BY DEF IInv
<1>2. Len(tasks) \in Nat /\ Way \in Nat
  BY <1>1, WayType, LenProperties DEF TypeOK
<1>3. CASE Loop(w)
  <2>1. run => Way' = Way
    BY <1>1, <1>3, WayGoto DEF Loop, At, OnWay
  <2> QED
    BY <1>1, <1>3, <2>1 DEF Loop, At, TypeOK, NoLostWakeup, Way
<1>4. CASE Check(w)
  <2>1. CASE tasks # <<>>
    <3>1. Way' = Way
      BY <1>1, <1>4, <2>1, WayGoto DEF Check, At, OnWay
    <3> QED
      BY <1>1, <1>4, <2>1, <3>1 DEF Check, At, TypeOK, NoLostWakeup, Way
  <2>2. CASE tasks = <<>>
    <3>1. Len(tasks') = 0
      BY <1>4, <2>2, EmptySeq DEF Check
    <3> QED
      BY <3>1, WayNat DEF NoLostWakeup, Way
  <2> QED
    BY <2>1, <2>2
<1>5. CASE Sleep(w)
  <2>1. /\ wpc[w] = "drowsy" /\ wpc' = [wpc EXCEPT ![w] = "asleep"]
        /\ run' = run /\ tasks' = tasks /\ opc' = opc
    BY <1>5 DEF Sleep, At
  <2>2. "asleep" \notin OnWay /\ wpc[w] \notin OnWay
    BY <2>1 DEF OnWay
  <2>3. Way' = Way
    BY <1>1, <2>1, <2>2, WayGoto
  <2> QED
    BY <2>1, <2>3 DEF NoLostWakeup, Way
<1>6. CASE SpuriousWakeup(w)
  <2>1. Way' = Way + 1
    BY <1>1, <1>6, WayGoto DEF SpuriousWakeup, At, OnWay
  <2> QED
    BY <1>1, <1>2, <1>6, <2>1 DEF SpuriousWakeup, At, TypeOK, NoLostWakeup, Way
<1>7. CASE Front(w)
  <2>1. Way' = Way
    BY <1>1, <1>7, WayGoto DEF Front, At, OnWay
  <2> QED
    BY <1>1, <1>7, <2>1 DEF Front, At, TypeOK, NoLostWakeup, Way
<1>8. CASE Pop(w)
  <2>1. /\ wpc[w] = "pop" /\ wpc' = [wpc EXCEPT ![w] = "task"]
        /\ run' = run /\ opc' = opc /\ tasks' = Tail(tasks)
    BY <1>8 DEF Pop, At
  <2>2. Way' = Way - 1
    <3>1. "task" \notin OnWay /\ wpc[w] \in OnWay
      BY <2>1 DEF OnWay
    <3> QED
      BY <1>1, <2>1, <3>1, WayGoto
  <2>3. Len(tasks') = Len(tasks) - 1
    BY <1>1, <2>1, HeadTailProperties DEF Seen, TypeOK
  <2>4. ASSUME NEW v \in Threads, wpc'[v] \in {"drowsy", "asleep"}
        PROVE  wpc[v] \in {"drowsy", "asleep"}
    BY <1>1, <2>1, <2>4 DEF TypeOK
  <2> QED
    BY <1>2, <2>1, <2>2, <2>3, <2>4 DEF NoLostWakeup, Way
<1>9. CASE Return(w)
  <2>1. Way' = Way + 1
    BY <1>1, <1>9, WayGoto DEF Return, At, OnWay
  <2> QED
    BY <1>1, <1>2, <1>9, <2>1 DEF Return, At, TypeOK, NoLostWakeup, Way
<1> QED
  BY <1>3, <1>4, <1>5, <1>6, <1>7, <1>8, <1>9 DEF ThreadStep

(* No wakeup is lost, although commit notifies without the lock and may    *)
(* notify while no thread sleeps.                                          *)
THEOREM WakeupsSuffice == Spec => []NoLostWakeup
<1>1. Init => NoLostWakeup
  BY DEF Init, NoLostWakeup
<1>2. IInv /\ NoLostWakeup /\ [Next]_vars => NoLostWakeup'
  <2>1. NoLostWakeup /\ UNCHANGED vars => NoLostWakeup'
    BY DEF vars, NoLostWakeup, OnTheirWay
  <2> QED
    BY <2>1, WakeupOwner, WakeupThread DEF Next
<1> QED
  BY Inductive, <1>1, <1>2, PTL DEF Spec

-----------------------------------------------------------------------------
(* The abstract pool.                                                      *)

Running == [w \in Threads |-> IF wpc[w] = "task" THEN wtask[w] ELSE NoTask]

LEMMA RefinesInit == Init => TP!Init
  BY DEF Init, TP!Init

LEMMA RefinesOwner ==
  ASSUME IInv, Commit \/ Stop \/ OwnerStep
  PROVE  TP!Next \/ UNCHANGED TP!poolVars
<1> USE DEF IInv, TypeOK, Closing
<1>1. CASE Commit
  BY <1>1 DEF Commit, TP!poolVars
<1>2. ASSUME NEW t \in Tasks, Push(t) PROVE TP!Next
  BY <1>2 DEF Push, TP!Next, TP!Commit, TP!Stays
<1>3. CASE NotifyOne
  BY <1>3 DEF NotifyOne, Asleep, TP!poolVars
<1>4. CASE Stop
  BY <1>4 DEF Stop, TP!Next, TP!Close
<1>5. CASE NotifyAll
  BY <1>5 DEF NotifyAll, Asleep, TP!poolVars
<1>6. CASE Joined
  BY <1>6 DEF Joined, TP!poolVars
<1> QED
  BY <1>1, <1>2, <1>3, <1>4, <1>5, <1>6 DEF OwnerStep

LEMMA RefinesThread ==
  ASSUME IInv, NEW w \in Threads, ThreadStep(w) \/ SpuriousWakeup(w)
  PROVE  TP!Next \/ UNCHANGED TP!poolVars
<1> USE DEF IInv, TypeOK, At
<1>1. CASE Loop(w)
  BY <1>1 DEF Loop, TP!poolVars
<1>2. CASE Check(w)
  BY <1>2 DEF Check, TP!poolVars
<1>3. CASE Sleep(w)
  BY <1>3 DEF Sleep, TP!poolVars
<1>4. CASE SpuriousWakeup(w)
  BY <1>4 DEF SpuriousWakeup, TP!poolVars
<1>5. CASE Front(w)
  BY <1>5 DEF Front, TP!poolVars
<1>6. CASE Pop(w)
  <2>1. tasks # <<>> /\ wtask[w] = Head(tasks) /\ w \notin late
    BY <1>6 DEF Pop, Seen, Closing
  <2>2. Running[w] = NoTask
    BY <1>6 DEF Pop, Running
  <2>3. Running' = [Running EXCEPT ![w] = Head(tasks)]
    BY <1>6, <2>1 DEF Pop, Running
  <2>4. TP!Take(w)
    BY <1>6, <2>1, <2>2, <2>3 DEF Pop, Running, TP!Take
  <2> QED
    BY <2>4 DEF TP!Next
<1>7. CASE Return(w)
  <2>1. Running[w] # NoTask
    BY <1>7, ThreadPoolAssumption DEF Return, Running, Seen
  <2>2. Running' = [Running EXCEPT ![w] = NoTask]
    BY <1>7 DEF Return, Running
  <2>3. TP!Finish(w)
    BY <1>7, <2>1, <2>2 DEF Return, Running, TP!Finish, TP!Stays
  <2> QED
    BY <2>3 DEF TP!Next
<1> QED
  BY <1>1, <1>2, <1>3, <1>4, <1>5, <1>6, <1>7 DEF ThreadStep

(* The pool with its lock and its condition variable implements the one    *)
(* without: each task once, in order, and at most one by each thread after *)
(* the destructor has been called.                                         *)
THEOREM RefinesTaskPool == Spec => ImplementsTaskPool
<1>1. IInv /\ [Next]_vars => [TP!Next]_(TP!poolVars)
  <2>1. UNCHANGED vars => UNCHANGED TP!poolVars
    BY DEF vars, TP!poolVars
  <2> QED
    BY <2>1, RefinesOwner, RefinesThread DEF Next
<1> QED
  BY RefinesInit, Inductive, <1>1, PTL DEF Spec, ImplementsTaskPool, TP!Spec
=============================================================================
