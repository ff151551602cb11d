-------------------------- MODULE JudgeQueueProofs --------------------------
(***************************************************************************)
(* What holds of the ring for every size and any number of threads.        *)
(*                                                                         *)
(* The argument is a count: each counter differs from the number of ids in *)
(* the ring by the threads that have moved it and not yet moved the other  *)
(* side, or not yet taken their move back.  Every step takes one thread    *)
(* from one step of the code to another, so it changes each count by at    *)
(* most one (CountGoto), and the equations follow action by action.        *)
(*                                                                         *)
(* The order in which ids come out is an argument about the array: until   *)
(* an id is published before the place of an earlier one is written, the   *)
(* ids given after an unwritten one are not published either               *)
(* (PublishedInOrder), so a consumer that has found an id to read finds it *)
(* written (IdWritten).                                                    *)
(***************************************************************************)
EXTENDS JudgeQueue, FiniteSetTheorems, TLAPS

(* 1 if x is one of S, 0 if not. *)
Unit(x, S) == IF x \in S THEN 1 ELSE 0

(* Each thread is only inside the call that its kind makes. *)
KindOK ==
  /\ \A p \in Producers : qpc[p] \in {"idle", "e_true", "e_false"} \cup EnqSteps
  /\ \A c \in Consumers : qpc[c] \in {"idle", "d_true", "d_false"} \cup DeqSteps

(* The threads that have moved one counter and not yet the ring, the ring  *)
(* and not yet the other counter, or a counter in vain.                    *)
Claiming   == {"e_undo", "e_wrap", "e_ticket"}
Releasing  == {"d_release"}
Publishing == {"e_write", "e_publish"}
Reading    == {"d_undo", "d_wrap", "d_ticket", "d_read"}
Refusing   == {"e_undo"}
Starving   == {"d_undo"}

(* A counter is negative only because of decrements about to be undone. *)
NoDebt ==
  /\ writeableCnt + N(Refusing) \in Nat
  /\ readableCnt + N(Starving) \in Nat

(* The inductive invariant. *)
IInv == TypeOK /\ KindOK /\ SemaphoresExact /\ NoDebt

-----------------------------------------------------------------------------
(* An index taken modulo the size is an index of the array. *)
LEMMA PlaceType == ASSUME NEW i \in Nat PROVE Place(i) \in Places
  BY QueueAssumption DEF Place, Places

LEMMA WrappedType == ASSUME NEW i \in Nat PROVE Wrapped(i) \in Nat
  BY DEF Wrapped

(* The initial states are type correct. *)
LEMMA TypeInit == Init => TypeOK
  BY QueueAssumption DEF Init, TypeOK, Places, Threads, PC

(* Every step keeps the types. *)
LEMMA TypeStep == TypeOK /\ [Next]_vars => TypeOK'
<1> SUFFICES ASSUME TypeOK, [Next]_vars PROVE TypeOK'
  OBVIOUS
<1> USE DEF TypeOK, Goto, ring, counters, locals, history, Threads, PC,
            EnqSteps, DeqSteps, Results
<1>1. ASSUME NEW p \in Producers, NEW id \in Ids, EnqCall(p, id) PROVE TypeOK'
  BY <1>1 DEF EnqCall, EnqReserve
<1>2. ASSUME NEW p \in Producers, EnqUndo(p) PROVE TypeOK'
  BY <1>2 DEF EnqUndo
<1>3. ASSUME NEW p \in Producers, EnqWrap(p) PROVE TypeOK'
  BY <1>3, WrappedType DEF EnqWrap
<1>4. ASSUME NEW p \in Producers, EnqTicket(p) PROVE TypeOK'
  BY <1>4, PlaceType DEF EnqTicket
<1>5. ASSUME NEW p \in Producers, EnqWrite(p) PROVE TypeOK'
  BY <1>5 DEF EnqWrite
<1>6. ASSUME NEW p \in Producers, EnqPublish(p) PROVE TypeOK'
  BY <1>6 DEF EnqPublish
<1>7. ASSUME NEW c \in Consumers, DeqCall(c) PROVE TypeOK'
  BY <1>7 DEF DeqCall, DeqReserve
<1>8. ASSUME NEW c \in Consumers, DeqUndo(c) PROVE TypeOK'
  BY <1>8 DEF DeqUndo
<1>9. ASSUME NEW c \in Consumers, DeqWrap(c) PROVE TypeOK'
  BY <1>9, WrappedType DEF DeqWrap
<1>10. ASSUME NEW c \in Consumers, DeqTicket(c) PROVE TypeOK'
  BY <1>10, PlaceType DEF DeqTicket
<1>11. ASSUME NEW c \in Consumers, DeqRead(c) PROVE TypeOK'
  BY <1>11 DEF DeqRead
<1>12. ASSUME NEW c \in Consumers, DeqRelease(c) PROVE TypeOK'
  BY <1>12 DEF DeqRelease
<1>13. ASSUME NEW t \in Threads, Return(t) PROVE TypeOK'
  BY <1>13, QueueAssumption DEF Return, Places
<1>14. CASE UNCHANGED vars
  BY <1>14 DEF vars
<1> QED
  BY <1>1, <1>2, <1>3, <1>4, <1>5, <1>6, <1>7, <1>8, <1>9, <1>10, <1>11,
     <1>12, <1>13, <1>14 DEF Next, EnqStep, DeqStep

(* Type correctness: whatever the interleaving, no call reads or writes    *)
(* outside the array (lines 33, 36, 49 and 50).                            *)
THEOREM TypeCorrect == Spec => []TypeOK
  BY TypeInit, TypeStep, PTL DEF Spec

-----------------------------------------------------------------------------
(* The counts of threads are natural numbers, *)
LEMMA CountType == ASSUME NEW S PROVE N(S) \in Nat
<1>1. IsFiniteSet(Threads)
  BY QueueAssumption, FS_Union DEF Threads
<1>2. IsFiniteSet({t \in Threads : qpc[t] \in S})
  BY <1>1, FS_Subset
<1> QED
  BY <1>2, FS_CardinalityType DEF N

(* they grow with the set of steps, *)
LEMMA CountMonotone == ASSUME NEW S, NEW T, S \subseteq T PROVE N(S) <= N(T)
<1>1. IsFiniteSet(Threads)
  BY QueueAssumption, FS_Union DEF Threads
<1>2. IsFiniteSet({t \in Threads : qpc[t] \in T})
  BY <1>1, FS_Subset
<1>3. {t \in Threads : qpc[t] \in S} \subseteq {t \in Threads : qpc[t] \in T}
  OBVIOUS
<1> QED
  BY <1>2, <1>3, FS_Subset DEF N

(* they are zero where no thread is, *)
LEMMA CountNone ==
  ASSUME NEW S, \A t \in Threads : qpc[t] \notin S
  PROVE  N(S) = 0
<1>1. {t \in Threads : qpc[t] \in S} = {}
  OBVIOUS
<1> QED
  BY <1>1, FS_EmptySet DEF N

(* they are unchanged where no thread moves, *)
LEMMA CountSame == ASSUME NEW S, qpc' = qpc PROVE N(S)' = N(S)
  BY DEF N

(* and a thread that goes from one step to another takes its unit along.   *)
LEMMA CountGoto ==
  ASSUME TypeOK, NEW t \in Threads, NEW to,
         qpc' = [qpc EXCEPT ![t] = to], NEW S
  PROVE  N(S)' = N(S) + Unit(to, S) - Unit(qpc[t], S)
<1> DEFINE A == {u \in Threads : qpc[u] \in S}
           B == {u \in Threads : qpc'[u] \in S}
<1>1. IsFiniteSet(Threads)
  BY QueueAssumption, FS_Union DEF Threads
<1>2. IsFiniteSet(A)
  BY <1>1, FS_Subset
<1>3. N(S) = Cardinality(A) /\ N(S)' = Cardinality(B)
  BY DEF N
<1>4. t \in A <=> qpc[t] \in S
  OBVIOUS
<1>5. Cardinality(A) \in Nat
  BY <1>2, FS_CardinalityType
<1>6. \A u \in Threads : qpc'[u] = IF u = t THEN to ELSE qpc[u]
  BY DEF TypeOK
<1> HIDE DEF A, B
<1>7. CASE to \in S
  <2>1. B = A \cup {t}
    BY <1>6, <1>7 DEF A, B
  <2>2. Cardinality(B) = IF t \in A THEN Cardinality(A) ELSE Cardinality(A) + 1
    BY <1>2, <2>1, FS_AddElement
  <2> QED
    BY <1>3, <1>4, <1>5, <1>7, <2>2 DEF Unit
<1>8. CASE to \notin S
  <2>1. B = A \ {t}
    BY <1>6, <1>8 DEF A, B
  <2>2. Cardinality(B) = IF t \in A THEN Cardinality(A) - 1 ELSE Cardinality(A)
    BY <1>2, <2>1, FS_RemoveElement
  <2> QED
    BY <1>3, <1>4, <1>5, <1>8, <2>2 DEF Unit
<1> QED
  BY <1>7, <1>8

-----------------------------------------------------------------------------
(* How a step changes the six counts the invariant speaks of. *)
Moves(claiming, releasing, publishing, reading, eUndo, dUndo) ==
  /\ N(Claiming)' = N(Claiming) + claiming
  /\ N(Releasing)' = N(Releasing) + releasing
  /\ N(Publishing)' = N(Publishing) + publishing
  /\ N(Reading)' = N(Reading) + reading
  /\ N(Refusing)' = N(Refusing) + eUndo
  /\ N(Starving)' = N(Starving) + dUndo

(* The change a thread makes that goes from one step to another. *)
Change(from, to, S) == Unit(to, S) - Unit(from, S)

LEMMA CountStep ==
  ASSUME TypeOK, NEW t \in Threads, NEW from, NEW to, Goto(t, from, to)
  PROVE  Moves(Change(from, to, Claiming), Change(from, to, Releasing),
               Change(from, to, Publishing), Change(from, to, Reading),
               Change(from, to, Refusing), Change(from, to, Starving))
<1>1. qpc[t] = from /\ qpc' = [qpc EXCEPT ![t] = to]
  BY DEF Goto
<1>2. ASSUME NEW S PROVE N(S)' = N(S) + Change(from, to, S)
  <2>1. N(S)' = N(S) + Unit(to, S) - Unit(from, S)
    BY <1>1, CountGoto
  <2>2. Unit(to, S) \in Int /\ Unit(from, S) \in Int /\ N(S) \in Int
    BY CountType DEF Unit
  <2> QED
    BY <2>1, <2>2 DEF Change
<1> QED
  BY <1>2 DEF Moves

(* No thread is inside a call at first, so every count is zero. *)
LEMMA CountInit == Init => IInv
<1> SUFFICES ASSUME Init PROVE IInv
  OBVIOUS
<1>1. TypeOK
  BY TypeInit
<1>2. KindOK
  BY DEF Init, KindOK, Threads
<1>3. /\ N(Claiming) = 0 /\ N(Releasing) = 0 /\ N(Publishing) = 0
      /\ N(Reading) = 0 /\ N(Refusing) = 0 /\ N(Starving) = 0
  <2>1. \A t \in Threads : qpc[t] = "idle"
    BY DEF Init
  <2> QED
    BY <2>1, CountNone DEF Claiming, Releasing, Publishing, Reading,
      Refusing, Starving
<1>4. Len(given) = 0 /\ Len(taken) = 0
  BY DEF Init
<1> QED
  BY <1>1, <1>2, <1>3, <1>4, QueueAssumption
  DEF Init, IInv, SemaphoresExact, WriteableExact, ReadableExact, Outstanding,
      NoDebt, Claiming, Releasing, Publishing, Reading,
      Refusing, Starving

(* Every step keeps the equations. *)
LEMMA KindStep == TypeOK /\ KindOK /\ [Next]_vars => KindOK'
<1> SUFFICES ASSUME TypeOK, KindOK, [Next]_vars PROVE KindOK'
  OBVIOUS
<1>1. CASE Next
  <2>1. Producers \cap Consumers = {}
    BY QueueAssumption
  <2> QED
    BY <1>1, <2>1 DEF Next, EnqCall, EnqReserve, EnqStep, EnqUndo, EnqWrap,
       EnqTicket, EnqWrite, EnqPublish, DeqCall, DeqReserve, DeqStep, DeqUndo,
       DeqWrap, DeqTicket, DeqRead, DeqRelease, Return, Goto, TypeOK, KindOK,
       Threads, EnqSteps, DeqSteps, Results
<1>2. CASE UNCHANGED vars
  BY <1>2 DEF vars, locals, KindOK
<1> QED
  BY <1>1, <1>2

LEMMA CountersStep ==
  IInv /\ [Next]_vars => (SemaphoresExact /\ NoDebt)'
<1> SUFFICES ASSUME IInv, [Next]_vars PROVE (SemaphoresExact /\ NoDebt)'
  OBVIOUS
<1> USE DEF ring, counters, locals, history
<1> DEFINE Goal == (SemaphoresExact /\ NoDebt)'
<1>t. TypeOK
  BY DEF IInv
<1>s. given \in Seq(Ids) /\ taken \in Seq(Ids)
  BY <1>t DEF TypeOK
<1>n. readableCnt \in Int /\ writeableCnt \in Int /\ Size \in Nat
  BY <1>t, QueueAssumption DEF TypeOK
<1>i. /\ writeableCnt = Size - Outstanding - N(Claiming) - N(Releasing)
      /\ readableCnt = Outstanding - N(Publishing) - N(Reading)
      /\ writeableCnt + N(Refusing) \in Nat
      /\ readableCnt + N(Starving) \in Nat
  BY DEF IInv, SemaphoresExact, WriteableExact, ReadableExact, NoDebt,
         Claiming, Releasing, Publishing, Reading,
      Refusing, Starving
<1>c. /\ N(Claiming) \in Nat /\ N(Releasing) \in Nat /\ N(Publishing) \in Nat
      /\ N(Reading) \in Nat /\ N(Refusing) \in Nat /\ N(Starving) \in Nat
  BY CountType
<1>o. Outstanding \in Int
  BY <1>s DEF Outstanding
(* The equations follow from how a step moves each of their terms. *)
<1>q. ASSUME (writeableCnt = Size - Outstanding - N(Claiming) - N(Releasing))',
             (readableCnt = Outstanding - N(Publishing) - N(Reading))',
             (writeableCnt + N(Refusing) \in Nat)',
             (readableCnt + N(Starving) \in Nat)'
      PROVE  Goal
  BY <1>q DEF SemaphoresExact, WriteableExact, ReadableExact, NoDebt,
              Claiming, Releasing, Publishing, Reading,
      Refusing, Starving
<1>u. ASSUME UNCHANGED <<given, taken>> PROVE Outstanding' = Outstanding
  BY <1>u DEF Outstanding
<1>1. ASSUME NEW p \in Producers, NEW id \in Ids, EnqCall(p, id) PROVE Goal
  <2>1. Outstanding' = Outstanding
    BY <1>1, <1>u DEF EnqCall, EnqReserve
  <2>2. CASE NoPlace
    <3>1. Goto(p, "idle", "e_undo") /\ p \in Threads
      BY <1>1, <2>2 DEF EnqCall, EnqReserve, Threads
    <3>2. Moves(1, 0, 0, 0, 1, 0)
      BY <1>t, <3>1, CountStep DEF Change, Unit, Claiming, Releasing, Publishing, Reading,
        Refusing, Starving
    <3> QED
      BY <1>1, <1>n, <1>i, <1>o, <1>q, <2>1, <2>2, <3>2, <1>c
      DEF EnqCall, EnqReserve, NoPlace, Moves
  <2>3. CASE ~NoPlace
    <3>1. Goto(p, "idle", "e_wrap") /\ p \in Threads
      BY <1>1, <2>3 DEF EnqCall, EnqReserve, Threads
    <3>2. Moves(1, 0, 0, 0, 0, 0)
      BY <1>t, <3>1, CountStep DEF Change, Unit, Claiming, Releasing, Publishing, Reading,
        Refusing, Starving
    <3> QED
      BY <1>1, <1>n, <1>i, <1>o, <1>q, <2>1, <2>3, <3>2, <1>c
      DEF EnqCall, EnqReserve, NoPlace, Moves
  <2> QED
    BY <2>2, <2>3
<1>2. ASSUME NEW c \in Consumers, DeqCall(c) PROVE Goal
  <2>1. Outstanding' = Outstanding
    BY <1>2, <1>u DEF DeqCall, DeqReserve
  <2>2. CASE NoId
    <3>1. Goto(c, "idle", "d_undo") /\ c \in Threads
      BY <1>2, <2>2 DEF DeqCall, DeqReserve, Threads
    <3>2. Moves(0, 0, 0, 1, 0, 1)
      BY <1>t, <3>1, CountStep DEF Change, Unit, Claiming, Releasing, Publishing, Reading,
        Refusing, Starving
    <3> QED
      BY <1>2, <1>n, <1>i, <1>o, <1>q, <2>1, <2>2, <3>2, <1>c
      DEF DeqCall, DeqReserve, NoId, Moves
  <2>3. CASE ~NoId
    <3>1. Goto(c, "idle", "d_wrap") /\ c \in Threads
      BY <1>2, <2>3 DEF DeqCall, DeqReserve, Threads
    <3>2. Moves(0, 0, 0, 1, 0, 0)
      BY <1>t, <3>1, CountStep DEF Change, Unit, Claiming, Releasing, Publishing, Reading,
        Refusing, Starving
    <3> QED
      BY <1>2, <1>n, <1>i, <1>o, <1>q, <2>1, <2>3, <3>2, <1>c
      DEF DeqCall, DeqReserve, NoId, Moves
  <2> QED
    BY <2>2, <2>3
<1>3. ASSUME NEW p \in Producers, EnqUndo(p) PROVE Goal
  <2>1. Outstanding' = Outstanding
    BY <1>3, <1>u DEF EnqUndo
  <2>2. Goto(p, "e_undo", "e_false") /\ p \in Threads
    BY <1>3 DEF EnqUndo, Threads
  <2>3. Moves(-1, 0, 0, 0, -1, 0)
    BY <1>t, <2>2, CountStep DEF Change, Unit, Claiming, Releasing, Publishing, Reading,
        Refusing, Starving
  <2> QED
    BY <1>3, <1>n, <1>i, <1>o, <1>q, <2>1, <2>3, <1>c DEF EnqUndo, Moves
<1>4. ASSUME NEW p \in Producers, EnqWrap(p) PROVE Goal
  <2>1. Outstanding' = Outstanding
    BY <1>4, <1>u DEF EnqWrap
  <2>2. Goto(p, "e_wrap", "e_ticket") /\ p \in Threads
    BY <1>4 DEF EnqWrap, Threads
  <2>3. Moves(0, 0, 0, 0, 0, 0)
    BY <1>t, <2>2, CountStep DEF Change, Unit, Claiming, Releasing, Publishing, Reading,
        Refusing, Starving
  <2> QED
    BY <1>4, <1>n, <1>i, <1>o, <1>q, <2>1, <2>3, <1>c DEF EnqWrap, Moves
<1>5. ASSUME NEW p \in Producers, EnqTicket(p) PROVE Goal
  <2>1. Outstanding' = Outstanding + 1
    BY <1>5, <1>s DEF EnqTicket, Outstanding
  <2>2. Goto(p, "e_ticket", "e_write") /\ p \in Threads
    BY <1>5 DEF EnqTicket, Threads
  <2>3. Moves(-1, 0, 1, 0, 0, 0)
    BY <1>t, <2>2, CountStep DEF Change, Unit, Claiming, Releasing, Publishing, Reading,
        Refusing, Starving
  <2>4. readableCnt' = readableCnt /\ writeableCnt' = writeableCnt
    BY <1>5 DEF EnqTicket
  <2> QED
    BY <1>n, <1>i, <1>o, <1>q, <2>1, <2>3, <2>4, <1>c DEF Moves
<1>6. ASSUME NEW p \in Producers, EnqWrite(p) PROVE Goal
  <2>1. Outstanding' = Outstanding
    BY <1>6, <1>u DEF EnqWrite
  <2>2. Goto(p, "e_write", "e_publish") /\ p \in Threads
    BY <1>6 DEF EnqWrite, Threads
  <2>3. Moves(0, 0, 0, 0, 0, 0)
    BY <1>t, <2>2, CountStep DEF Change, Unit, Claiming, Releasing, Publishing, Reading,
        Refusing, Starving
  <2> QED
    BY <1>6, <1>n, <1>i, <1>o, <1>q, <2>1, <2>3, <1>c DEF EnqWrite, Moves
<1>7. ASSUME NEW p \in Producers, EnqPublish(p) PROVE Goal
  <2>1. Outstanding' = Outstanding
    BY <1>7, <1>u DEF EnqPublish
  <2>2. Goto(p, "e_publish", "e_true") /\ p \in Threads
    BY <1>7 DEF EnqPublish, Threads
  <2>3. Moves(0, 0, -1, 0, 0, 0)
    BY <1>t, <2>2, CountStep DEF Change, Unit, Claiming, Releasing, Publishing, Reading,
        Refusing, Starving
  <2> QED
    BY <1>7, <1>n, <1>i, <1>o, <1>q, <2>1, <2>3, <1>c DEF EnqPublish, Moves
<1>8. ASSUME NEW c \in Consumers, DeqUndo(c) PROVE Goal
  <2>1. Outstanding' = Outstanding
    BY <1>8, <1>u DEF DeqUndo
  <2>2. Goto(c, "d_undo", "d_false") /\ c \in Threads
    BY <1>8 DEF DeqUndo, Threads
  <2>3. Moves(0, 0, 0, -1, 0, -1)
    BY <1>t, <2>2, CountStep DEF Change, Unit, Claiming, Releasing, Publishing, Reading,
        Refusing, Starving
  <2> QED
    BY <1>8, <1>n, <1>i, <1>o, <1>q, <2>1, <2>3, <1>c DEF DeqUndo, Moves
<1>9. ASSUME NEW c \in Consumers, DeqWrap(c) PROVE Goal
  <2>1. Outstanding' = Outstanding
    BY <1>9, <1>u DEF DeqWrap
  <2>2. Goto(c, "d_wrap", "d_ticket") /\ c \in Threads
    BY <1>9 DEF DeqWrap, Threads
  <2>3. Moves(0, 0, 0, 0, 0, 0)
    BY <1>t, <2>2, CountStep DEF Change, Unit, Claiming, Releasing, Publishing, Reading,
        Refusing, Starving
  <2> QED
    BY <1>9, <1>n, <1>i, <1>o, <1>q, <2>1, <2>3, <1>c DEF DeqWrap, Moves
<1>10. ASSUME NEW c \in Consumers, DeqTicket(c) PROVE Goal
  <2>1. Outstanding' = Outstanding
    BY <1>10, <1>u DEF DeqTicket
  <2>2. Goto(c, "d_ticket", "d_read") /\ c \in Threads
    BY <1>10 DEF DeqTicket, Threads
  <2>3. Moves(0, 0, 0, 0, 0, 0)
    BY <1>t, <2>2, CountStep DEF Change, Unit, Claiming, Releasing, Publishing, Reading,
        Refusing, Starving
  <2> QED
    BY <1>10, <1>n, <1>i, <1>o, <1>q, <2>1, <2>3, <1>c DEF DeqTicket, Moves
<1>11. ASSUME NEW c \in Consumers, DeqRead(c) PROVE Goal
  <2>1. Outstanding' = Outstanding - 1
    BY <1>11, <1>s DEF DeqRead, Outstanding
  <2>2. Goto(c, "d_read", "d_release") /\ c \in Threads
    BY <1>11 DEF DeqRead, Threads
  <2>3. Moves(0, 1, 0, -1, 0, 0)
    BY <1>t, <2>2, CountStep DEF Change, Unit, Claiming, Releasing, Publishing, Reading,
        Refusing, Starving
  <2>4. readableCnt' = readableCnt /\ writeableCnt' = writeableCnt
    BY <1>11 DEF DeqRead
  <2> QED
    BY <1>n, <1>i, <1>o, <1>q, <2>1, <2>3, <2>4, <1>c DEF Moves
<1>12. ASSUME NEW c \in Consumers, DeqRelease(c) PROVE Goal
  <2>1. Outstanding' = Outstanding
    BY <1>12, <1>u DEF DeqRelease
  <2>2. Goto(c, "d_release", "d_true") /\ c \in Threads
    BY <1>12 DEF DeqRelease, Threads
  <2>3. Moves(0, -1, 0, 0, 0, 0)
    BY <1>t, <2>2, CountStep DEF Change, Unit, Claiming, Releasing, Publishing, Reading,
        Refusing, Starving
  <2> QED
    BY <1>12, <1>n, <1>i, <1>o, <1>q, <2>1, <2>3, <1>c DEF DeqRelease, Moves
<1>13. ASSUME NEW t \in Threads, Return(t) PROVE Goal
  <2>1. Outstanding' = Outstanding
    BY <1>13, <1>u DEF Return
  <2>2. Goto(t, qpc[t], "idle") /\ qpc[t] \in Results
    BY <1>13 DEF Return, Goto
  <2>3. Moves(0, 0, 0, 0, 0, 0)
    BY <1>t, <2>2, CountStep DEF Results, Change, Unit, Claiming, Releasing, Publishing, Reading,
        Refusing, Starving
  <2> QED
    BY <1>13, <1>n, <1>i, <1>o, <1>q, <2>1, <2>3, <1>c DEF Return, Moves
<1>14. CASE UNCHANGED vars
  BY <1>14, <1>i, <1>q, <1>u, CountSame DEF vars
<1> QED
  BY <1>1, <1>2, <1>3, <1>4, <1>5, <1>6, <1>7, <1>8, <1>9,
     <1>10, <1>11, <1>12, <1>13, <1>14
  DEF Next, EnqStep, DeqStep

LEMMA InvariantStep == IInv /\ [Next]_vars => IInv'
  BY TypeStep, KindStep, CountersStep DEF IInv

LEMMA Inductive == Spec => []IInv
  BY CountInit, InvariantStep, PTL DEF Spec

-----------------------------------------------------------------------------
(* No permit is ever lost or invented: the two counters are exact at every *)
(* instant, for any number of threads on either side.                      *)
THEOREM CountersExact == Spec => []SemaphoresExact
  BY Inductive, PTL DEF IInv

LEMMA CapacityOfInv == IInv => CapacityRespected
<1> SUFFICES ASSUME IInv PROVE CapacityRespected
  OBVIOUS
<1>1. given \in Seq(Ids) /\ taken \in Seq(Ids)
  BY DEF IInv, TypeOK
<1>2. Outstanding \in Int
  BY <1>1 DEF Outstanding
<1>3. /\ N(Claiming) \in Nat /\ N(Releasing) \in Nat /\ N(Publishing) \in Nat
      /\ N(Reading) \in Nat /\ N(Refusing) \in Nat /\ N(Starving) \in Nat
  BY CountType
<1>4. N(Refusing) <= N(Claiming) /\ N(Starving) <= N(Reading)
  BY CountMonotone DEF Refusing, Claiming, Starving, Reading
<1>5. Size \in Nat /\ readableCnt \in Int /\ writeableCnt \in Int
  BY QueueAssumption DEF IInv, TypeOK
<1>6. Outstanding <= Size
  <2>1. writeableCnt = Size - Outstanding - N(Claiming) - N(Releasing)
    BY DEF IInv, SemaphoresExact, WriteableExact, Claiming, Releasing
  <2>2. writeableCnt + N(Refusing) \in Nat
    BY DEF IInv, NoDebt
  <2> QED
    BY <1>2, <1>3, <1>4, <1>5, <2>1, <2>2
<1>7. 0 <= Outstanding
  <2>1. readableCnt = Outstanding - N(Publishing) - N(Reading)
    BY DEF IInv, SemaphoresExact, ReadableExact, Publishing, Reading
  <2>2. readableCnt + N(Starving) \in Nat
    BY DEF IInv, NoDebt
  <2> QED
    BY <1>2, <1>3, <1>4, <1>5, <2>1, <2>2
<1> QED
  BY <1>2, <1>5, <1>6, <1>7 DEF CapacityRespected

(* The ring is never overfilled and never read when it is empty.           *)
THEOREM CapacityKept == Spec => []CapacityRespected
  BY Inductive, CapacityOfInv, PTL

(* A judge thread goes to sleep only when nothing published is left.       *)
LEMMA DrainedStep ==
  ASSUME IInv, [Next]_vars, NEW c \in Consumers,
         qpc[c] = "idle", qpc'[c] = "d_undo"
  PROVE  Outstanding = N(Publishing)
<1>1. DeqCall(c) /\ NoId
  BY QueueAssumption DEF IInv, TypeOK, Threads, Next, vars, locals, EnqCall,
     EnqReserve, EnqStep, EnqUndo, EnqWrap, EnqTicket, EnqWrite, EnqPublish,
     DeqCall, DeqReserve, DeqStep, DeqUndo, DeqWrap, DeqTicket, DeqRead,
     DeqRelease, Return, Goto
<1>2. \A t \in Threads : qpc[t] \notin Reading
  BY <1>1 DEF DeqCall, IInv, KindOK, EnqSteps, Threads, Reading
<1>3. N(Reading) = 0 /\ N(Starving) = 0
  BY <1>2, CountNone DEF Reading, Starving
<1>4. readableCnt + N(Starving) \in Nat
  BY DEF IInv, NoDebt
<1>5. readableCnt \in Int /\ readableCnt <= 0
  BY <1>1 DEF NoId, IInv, TypeOK
<1>6. readableCnt = 0
  BY <1>3, <1>4, <1>5
<1>7. readableCnt = Outstanding - N(Publishing) - N(Reading)
  BY DEF IInv, SemaphoresExact, ReadableExact, Publishing, Reading
<1>8. given \in Seq(Ids) /\ taken \in Seq(Ids)
  BY DEF IInv, TypeOK
<1>9. Outstanding \in Int
  BY <1>8 DEF Outstanding
<1>10. N(Publishing) \in Nat
  BY CountType
<1> QED
  BY <1>3, <1>6, <1>7, <1>9, <1>10

THEOREM SleepsOnlyWhenDrained == Spec => FalseMeansDrained
<1>1. IInv /\ [Next]_vars =>
        [\A c \in Consumers :
           (qpc[c] = "idle" /\ qpc'[c] = "d_undo")
              => Outstanding = N({"e_write", "e_publish"})]_vars
  BY DrainedStep DEF Publishing
<1> QED
  BY Inductive, <1>1, PTL DEF Spec, FalseMeansDrained

-----------------------------------------------------------------------------
(* enque refuses only when what is claimed makes up the whole ring.        *)
LEMMA FullStep ==
  ASSUME NEW p \in Producers, IInv, [Next]_vars,
         qpc[p] = "idle", qpc'[p] = "e_undo"
  PROVE  Outstanding + N(Releasing) + N(Claiming) >= Size
<1>1. NoPlace
  BY QueueAssumption DEF IInv, TypeOK, Threads, Next, vars, locals, EnqCall,
     EnqReserve, EnqStep, EnqUndo, EnqWrap, EnqTicket, EnqWrite, EnqPublish,
     DeqCall, DeqReserve, DeqStep, DeqUndo, DeqWrap, DeqTicket, DeqRead,
     DeqRelease, Return, Goto
<1>2. writeableCnt \in Int /\ writeableCnt <= 0
  BY <1>1 DEF NoPlace, IInv, TypeOK
<1>3. writeableCnt = Size - Outstanding - N(Claiming) - N(Releasing)
  BY DEF IInv, SemaphoresExact, WriteableExact, Claiming, Releasing
<1>4. Len(given) \in Nat /\ Len(taken) \in Nat
  BY DEF IInv, TypeOK
<1>5. Outstanding \in Int
  BY <1>4 DEF Outstanding
<1>6. N(Releasing) \in Nat /\ N(Claiming) \in Nat /\ Size \in Nat
  BY CountType, QueueAssumption
<1> QED
  BY <1>2, <1>3, <1>5, <1>6

(* For any number of producers and of consumers enque refuses an id only   *)
(* if the ids in the ring, the places about to be given back and the       *)
(* callers that have decremented writeableCnt without a ticket make up the *)
(* ring (line 27): with refused callers among them the refusal may be      *)
(* spurious, by at most one place for each of them.                        *)
THEOREM RefusesOnlyWhenFull == Spec => FalseMeansFull
<1>1. IInv /\ [Next]_vars =>
        [\A p \in Producers :
           (qpc[p] = "idle" /\ qpc'[p] = "e_undo")
              => Outstanding + N({"d_release"}) + N({"e_undo", "e_wrap", "e_ticket"})
                   >= Size]_vars
  BY FullStep DEF Releasing, Claiming
<1> QED
  BY Inductive, <1>1, PTL DEF Spec, FalseMeansFull

-----------------------------------------------------------------------------
(* Where ids come from: whatever is read, even from a place nobody has     *)
(* written, was offered, or is the 0 of an array that is not used yet, and *)
(* a call of deque that finds an id does so after some id was offered.     *)
Inside == {"d_wrap", "d_ticket", "d_read", "d_release", "d_true"}
Placed == {"e_write", "e_publish", "e_true"}

Origin ==
  /\ q \in [Places -> offered \cup {0}]
  /\ qid \in [Threads -> offered \cup {0}]
  /\ given \in Seq(offered)
  /\ \A p \in Producers : qpc[p] \in EnqSteps => qid[p] \in offered
  /\ \A p \in Producers : qpc[p] \in Placed =>
       \E k \in 1..Len(given) : given[k] = qid[p]
  /\ \A c \in Consumers : qpc[c] \in Inside => offered # {}

LEMMA OriginInit == Init => Origin
<1>1. Producers \cap Consumers = {}
  BY QueueAssumption
<1> QED
  BY <1>1 DEF Init, Origin, Threads, Places, EnqSteps, Placed, Inside

(* deque finds an id only if one has a place.                              *)
LEMMA FoundIsGiven == ASSUME IInv, ~NoId PROVE Len(given) > 0
<1>1. readableCnt = Len(given) - Len(taken) - N(Publishing) - N(Reading)
  BY DEF IInv, SemaphoresExact, ReadableExact, Outstanding, Publishing, Reading
<1>2. N(Publishing) \in Nat /\ N(Reading) \in Nat
  BY CountType
<1>3. Len(given) \in Nat /\ Len(taken) \in Nat /\ readableCnt \in Int
  BY DEF IInv, TypeOK
<1> QED
  BY <1>1, <1>2, <1>3 DEF NoId

LEMMA OriginStep == IInv /\ Origin /\ [Next]_vars => Origin'
<1> SUFFICES ASSUME IInv, Origin, [Next]_vars PROVE Origin'
  OBVIOUS
<1> USE DEF ring, counters, locals, history, Goto
<1>1. /\ TypeOK /\ KindOK
      /\ Producers \cap Consumers = {}
  BY QueueAssumption DEF IInv
<1>2. /\ \A p \in Producers : p \in Threads /\ p \notin Consumers
      /\ \A c \in Consumers : c \in Threads /\ c \notin Producers
  BY <1>1 DEF Threads
<1>3. /\ qpc \in [Threads -> PC] /\ qpos \in [Threads -> Places]
      /\ qid \in [Threads -> offered \cup {0}]
      /\ q \in [Places -> offered \cup {0}]
      /\ given \in Seq(offered)
  BY <1>1 DEF Origin, TypeOK
<1>4. ASSUME NEW p \in Producers, NEW id \in Ids, EnqCall(p, id) PROVE Origin'
  <2>1. offered \subseteq offered' /\ id \in offered'
    BY <1>4 DEF EnqCall, EnqReserve
  <2>2. given' = given /\ given \in Seq(offered')
    BY <1>3, <1>4, <2>1 DEF EnqCall, EnqReserve
  <2> QED
    BY <1>2, <1>3, <1>4, <2>1, <2>2
    DEF EnqCall, EnqReserve, Origin, EnqSteps, Placed, Inside
<1>5. ASSUME NEW p \in Producers, EnqUndo(p) \/ EnqWrap(p) \/ EnqPublish(p)
      PROVE  Origin'
  BY <1>2, <1>3, <1>5
  DEF EnqUndo, EnqWrap, EnqPublish, Origin, EnqSteps, Placed, Inside
<1>6. ASSUME NEW p \in Producers, EnqTicket(p) PROVE Origin'
  <2>1. qid[p] \in offered
    BY <1>6 DEF EnqTicket, Origin, EnqSteps
  <2>2. /\ given' = Append(given, qid[p]) /\ offered' = offered
        /\ given' \in Seq(offered)
        /\ Len(given') = Len(given) + 1 /\ Len(given) \in Nat
        /\ \A k \in 1..Len(given) : given'[k] = given[k]
        /\ given'[Len(given) + 1] = qid[p]
    BY <1>3, <1>6, <2>1 DEF EnqTicket
  <2>3. \A n : (\E k \in 1..Len(given) : given[k] = n)
                  => \E k \in 1..Len(given') : given'[k] = n
    BY <2>2
  <2>4. \E k \in 1..Len(given') : given'[k] = qid[p]
    BY <2>2
  <2>5. /\ qid' = qid /\ q' = q /\ qpc[p] = "e_ticket"
        /\ qpc' = [qpc EXCEPT ![p] = "e_write"]
    BY <1>6 DEF EnqTicket
  <2>6. \A r \in Producers : qpc'[r] \in Placed =>
          \E k \in 1..Len(given') : given'[k] = qid'[r]
    BY <1>2, <1>3, <2>3, <2>4, <2>5 DEF Origin
  <2> QED
    BY <1>2, <1>3, <2>1, <2>2, <2>5, <2>6 DEF Origin, EnqSteps, Inside
<1>7. ASSUME NEW p \in Producers, EnqWrite(p) PROVE Origin'
  BY <1>2, <1>3, <1>7 DEF EnqWrite, Origin, EnqSteps, Placed, Inside
<1>8. ASSUME NEW c \in Consumers, DeqCall(c) PROVE Origin'
  <2>1. ~NoId => offered # {}
    <3>1. ~NoId => given # <<>>
      BY <1>3, FoundIsGiven
    <3>2. given # <<>> => Head(given) \in offered
      BY <1>3
    <3> QED
      BY <3>1, <3>2
  <2> QED
    BY <1>2, <1>3, <1>8, <2>1
    DEF DeqCall, DeqReserve, Origin, EnqSteps, Placed, Inside
<1>9. ASSUME NEW c \in Consumers,
             DeqUndo(c) \/ DeqWrap(c) \/ DeqTicket(c) \/ DeqRelease(c)
      PROVE  Origin'
  BY <1>2, <1>3, <1>9
  DEF DeqUndo, DeqWrap, DeqTicket, DeqRelease, Origin, EnqSteps, Placed, Inside
<1>10. ASSUME NEW c \in Consumers, DeqRead(c) PROVE Origin'
  <2>1. q[qpos[c]] \in offered \cup {0}
    BY <1>2, <1>3
  <2> QED
    BY <1>2, <1>3, <1>10, <2>1 DEF DeqRead, Origin, EnqSteps, Placed, Inside
<1>11. ASSUME NEW t \in Threads, Return(t) PROVE Origin'
  BY <1>2, <1>3, <1>11 DEF Return, Origin, EnqSteps, Placed, Inside
<1>12. CASE UNCHANGED vars
  BY <1>12 DEF vars, Origin
<1> QED
  BY <1>4, <1>5, <1>6, <1>7, <1>8, <1>9, <1>10, <1>11, <1>12
  DEF Next, EnqStep, DeqStep

-----------------------------------------------------------------------------
(* A ring with a place for every id: the threads that look for a place     *)
(* have offered an id that has no place yet, so there always is one.       *)
Roomy == IsFiniteSet(Ids) /\ Cardinality(Ids) <= Size

Room ==
  /\ Len(given) + N(Claiming) <= Cardinality(offered)
  /\ N(Releasing) <= Len(taken)
  /\ \A p \in Producers : qpc[p] \notin {"e_undo", "e_false"}

LEMMA OfferedCount ==
  ASSUME IInv, Roomy
  PROVE  /\ IsFiniteSet(offered)
         /\ Cardinality(offered) \in Nat
         /\ \A id \in Ids \ offered :
              /\ Cardinality(offered \cup {id}) = Cardinality(offered) + 1
              /\ Cardinality(offered) + 1 <= Size
<1>1. offered \subseteq Ids
  BY DEF IInv, TypeOK
<1>2. IsFiniteSet(offered) /\ Cardinality(offered) \in Nat
  BY <1>1, FS_Subset, FS_CardinalityType DEF Roomy
<1>3. ASSUME NEW id \in Ids \ offered
      PROVE  /\ Cardinality(offered \cup {id}) = Cardinality(offered) + 1
             /\ Cardinality(offered) + 1 <= Size
  <2>1. Cardinality(offered \cup {id}) = Cardinality(offered) + 1
    BY <1>2, <1>3, FS_AddElement
  <2>2. offered \cup {id} \subseteq Ids
    BY <1>1, <1>3
  <2>3. Cardinality(offered \cup {id}) <= Cardinality(Ids)
    BY <2>2, FS_Subset DEF Roomy
  <2>4. Cardinality(Ids) \in Nat /\ Size \in Nat
    BY FS_CardinalityType, QueueAssumption DEF Roomy
  <2> QED
    BY <1>2, <2>1, <2>3, <2>4 DEF Roomy
<1> QED
  BY <1>2, <1>3

(* The next call of enque finds a place.                                   *)
LEMMA RoomFor ==
  ASSUME IInv, Room, Roomy, NEW id \in Ids \ offered
  PROVE  ~NoPlace
<1>1. writeableCnt = Size - (Len(given) - Len(taken)) - N(Claiming) - N(Releasing)
  BY DEF IInv, SemaphoresExact, WriteableExact, Outstanding, Claiming, Releasing
<1>2. /\ N(Claiming) \in Nat /\ N(Releasing) \in Nat /\ Size \in Nat
      /\ Len(given) \in Nat /\ Len(taken) \in Nat
  BY CountType, QueueAssumption DEF IInv, TypeOK
<1>3. Cardinality(offered) \in Nat /\ Cardinality(offered) + 1 <= Size
  BY OfferedCount
<1> QED
  BY <1>1, <1>2, <1>3 DEF Room, NoPlace

LEMMA RoomInit == Init => Room
<1> SUFFICES ASSUME Init PROVE Room
  OBVIOUS
<1>1. N(Claiming) = 0 /\ N(Releasing) = 0
  <2>1. \A t \in Threads : qpc[t] = "idle"
    BY DEF Init
  <2> QED
    BY <2>1, CountNone DEF Claiming, Releasing
<1>2. Cardinality(offered) = 0
  BY FS_EmptySet DEF Init
<1> QED
  BY <1>1, <1>2 DEF Init, Room, Threads

LEMMA RoomStep ==
  ASSUME Roomy
  PROVE  IInv /\ Room /\ [Next]_vars => Room'
<1> SUFFICES ASSUME IInv, Room, [Next]_vars PROVE Room'
  OBVIOUS
<1> USE DEF ring, counters, locals, history
<1>t. TypeOK
  BY DEF IInv
<1>p. \A p \in Producers : p \in Threads /\ p \notin Consumers
  BY QueueAssumption DEF Threads
<1>c. \A c \in Consumers : c \in Threads /\ c \notin Producers
  BY QueueAssumption DEF Threads
<1>q. qpc \in [Threads -> PC] /\ given \in Seq(Ids) /\ taken \in Seq(Ids)
  BY <1>t DEF TypeOK
<1>r. /\ Len(given) + N(Claiming) <= Cardinality(offered)
      /\ N(Releasing) <= Len(taken)
      /\ \A p \in Producers : qpc[p] \notin {"e_undo", "e_false"}
  BY DEF Room
<1>n. /\ N(Claiming) \in Nat /\ N(Releasing) \in Nat
      /\ Len(given) \in Nat /\ Len(taken) \in Nat
      /\ Cardinality(offered) \in Nat
  BY CountType, OfferedCount, <1>q
(* What a step does to each count decides.                                 *)
<1>g. ASSUME NEW t \in Threads, NEW from, NEW to, Goto(t, from, to),
             to \notin {"e_undo", "e_false"},
             Len(given') + Change(from, to, Claiming) - Len(given)
               <= Cardinality(offered') - Cardinality(offered),
             Change(from, to, Releasing) <= Len(taken') - Len(taken),
             Len(given') \in Nat, Len(taken') \in Nat,
             Cardinality(offered') \in Nat
      PROVE  Room'
  <2>1. /\ N(Claiming)' = N(Claiming) + Change(from, to, Claiming)
        /\ N(Releasing)' = N(Releasing) + Change(from, to, Releasing)
    BY <1>t, <1>g, CountStep DEF Moves
  <2>2. Change(from, to, Claiming) \in Int /\ Change(from, to, Releasing) \in Int
    BY DEF Change, Unit
  <2>3. \A p \in Producers : qpc'[p] \notin {"e_undo", "e_false"}
    BY <1>g, <1>p, <1>q, <1>r DEF Goto
  <2> QED
    BY <1>g, <1>n, <1>r, <2>1, <2>2, <2>3 DEF Room
<1>1. ASSUME NEW p \in Producers, NEW id \in Ids, EnqCall(p, id) PROVE Room'
  <2>1. /\ Goto(p, "idle", "e_wrap")
        /\ offered' = offered \cup {id} /\ id \in Ids \ offered
        /\ UNCHANGED <<given, taken>>
    BY <1>1, RoomFor DEF EnqCall, EnqReserve
  <2>2. Cardinality(offered') = Cardinality(offered) + 1
    BY <2>1, OfferedCount
  <2>3. Change("idle", "e_wrap", Claiming) = 1 /\ Change("idle", "e_wrap", Releasing) = 0
    BY DEF Change, Unit, Claiming, Releasing
  <2> QED
    BY <1>g, <1>n, <1>p, <2>1, <2>2, <2>3
<1>2. ASSUME NEW p \in Producers, EnqUndo(p) PROVE Room'
  BY <1>2, <1>r DEF EnqUndo, Goto
<1>3. ASSUME NEW p \in Producers, EnqWrap(p) \/ EnqWrite(p) \/ EnqPublish(p)
      PROVE  Room'
  <2>1. PICK from \in {"e_wrap", "e_write", "e_publish"},
             to \in {"e_ticket", "e_publish", "e_true"} :
          /\ Goto(p, from, to) /\ (from = "e_wrap" <=> to = "e_ticket")
          /\ UNCHANGED <<offered, given, taken>>
    BY <1>3 DEF EnqWrap, EnqWrite, EnqPublish
  <2>2. Change(from, to, Claiming) = 0 /\ Change(from, to, Releasing) = 0
    BY <2>1 DEF Change, Unit, Claiming, Releasing
  <2> QED
    BY <1>g, <1>n, <1>p, <2>1, <2>2
<1>4. ASSUME NEW p \in Producers, EnqTicket(p) PROVE Room'
  <2>1. /\ Goto(p, "e_ticket", "e_write") /\ UNCHANGED <<offered, taken>>
        /\ given' = Append(given, qid[p])
    BY <1>4 DEF EnqTicket
  <2>2. Len(given') = Len(given) + 1
    BY <1>p, <1>q, <1>t, <2>1 DEF TypeOK
  <2>3. Change("e_ticket", "e_write", Claiming) = -1
        /\ Change("e_ticket", "e_write", Releasing) = 0
    BY DEF Change, Unit, Claiming, Releasing
  <2> QED
    BY <1>g, <1>n, <1>p, <2>1, <2>2, <2>3
<1>5. ASSUME NEW c \in Consumers, DeqCall(c) \/ DeqUndo(c) \/ DeqWrap(c) \/ DeqTicket(c)
      PROVE  Room'
  <2>1. PICK from \in {"idle", "d_undo", "d_wrap", "d_ticket"},
             to \in {"d_undo", "d_wrap", "d_false", "d_ticket", "d_read"} :
          Goto(c, from, to) /\ UNCHANGED <<offered, given, taken>>
    BY <1>5 DEF DeqCall, DeqReserve, DeqUndo, DeqWrap, DeqTicket
  <2>2. Change(from, to, Claiming) = 0 /\ Change(from, to, Releasing) = 0
    BY <2>1 DEF Change, Unit, Claiming, Releasing
  <2> QED
    BY <1>g, <1>n, <1>c, <2>1, <2>2
<1>6. ASSUME NEW c \in Consumers, DeqRead(c) PROVE Room'
  <2>1. /\ Goto(c, "d_read", "d_release") /\ UNCHANGED <<offered, given>>
        /\ taken' = Append(taken, q[qpos[c]])
    BY <1>6 DEF DeqRead
  <2>2. Len(taken') = Len(taken) + 1
    BY <1>c, <1>q, <1>t, <2>1 DEF TypeOK
  <2>3. Change("d_read", "d_release", Claiming) = 0
        /\ Change("d_read", "d_release", Releasing) = 1
    BY DEF Change, Unit, Claiming, Releasing
  <2> QED
    BY <1>g, <1>n, <1>c, <2>1, <2>2, <2>3
<1>7. ASSUME NEW c \in Consumers, DeqRelease(c) PROVE Room'
  <2>1. Goto(c, "d_release", "d_true") /\ UNCHANGED <<offered, given, taken>>
    BY <1>7 DEF DeqRelease
  <2>2. Change("d_release", "d_true", Claiming) = 0
        /\ Change("d_release", "d_true", Releasing) = -1
    BY DEF Change, Unit, Claiming, Releasing
  <2> QED
    BY <1>g, <1>n, <1>c, <2>1, <2>2
<1>8. ASSUME NEW t \in Threads, Return(t) PROVE Room'
  <2>1. /\ Goto(t, qpc[t], "idle") /\ qpc[t] \in Results
        /\ UNCHANGED <<offered, given, taken>>
    BY <1>8 DEF Return, Goto
  <2>2. Change(qpc[t], "idle", Claiming) = 0 /\ Change(qpc[t], "idle", Releasing) = 0
    BY <2>1 DEF Change, Unit, Claiming, Releasing, Results
  <2> QED
    BY <1>g, <1>n, <2>1, <2>2
<1>9. CASE UNCHANGED vars
  BY <1>9, CountSame DEF vars, Room
<1> QED
  BY <1>1, <1>2, <1>3, <1>4, <1>5, <1>6, <1>7, <1>8, <1>9
  DEF Next, EnqStep, DeqStep

(* The first n numbers are n ids.                                          *)
LEMMA RoomyWhen ==
  ASSUME NEW n \in Nat \ {0}, Ids = 0..(n - 1), n <= Size
  PROVE  Roomy
<1>1. IsFiniteSet(0..(n - 1)) /\ Cardinality(0..(n - 1)) = n
  BY FS_Interval
<1> QED
  BY <1>1 DEF Roomy

(* However many threads put ids in, a ring with a place for every id never *)
(* refuses one (line 27): JudgeWorker, whose ring is as large as its store *)
(* (main.cpp, line 11), may ignore what enque returns.                     *)
THEOREM NeverRefuses ==
  ASSUME Roomy
  PROVE  Spec => [](\A p \in Producers : qpc[p] \notin {"e_undo", "e_false"})
<1>1. Room => \A p \in Producers : qpc[p] \notin {"e_undo", "e_false"}
  BY DEF Room
<1> QED
  BY Inductive, RoomInit, RoomStep, <1>1, PTL DEF Spec

-----------------------------------------------------------------------------
(* What a caller of the ring relies on: an id that has a place keeps it,   *)
LEMMA GivenKept ==
  ASSUME TypeOK, [Next]_vars, NEW n, \E k \in 1..Len(given) : given[k] = n
  PROVE  \E k \in 1..Len(given') : given'[k] = n
<1> USE DEF ring, counters, locals, history
<1>1. given' = given \/ \E p \in Producers : given' = Append(given, qid[p])
  BY DEF Next, EnqCall, EnqReserve, EnqStep, EnqUndo, EnqWrap,
     EnqTicket, EnqWrite, EnqPublish, DeqCall, DeqReserve, DeqStep, DeqUndo,
     DeqWrap, DeqTicket, DeqRead, DeqRelease, Return, vars
<1>2. CASE given' = given
  BY <1>2
<1>3. CASE \E p \in Producers : given' = Append(given, qid[p])
  <2>1. PICK p \in Producers : given' = Append(given, qid[p])
    BY <1>3
  <2>2. given \in Seq(Ids) /\ qid[p] \in Ids
    BY DEF TypeOK, Threads
  <2>3. /\ Len(given') = Len(given) + 1 /\ Len(given) \in Nat
        /\ \A k \in 1..Len(given) : given'[k] = given[k]
    BY <2>1, <2>2
  <2> QED
    BY <2>3
<1> QED
  BY <1>1, <1>2, <1>3

(* and the steps of a call move only their thread and keep what is offered.*)
Moved(t) == \A u \in Threads : u # t => qpc'[u] = qpc[u] /\ qid'[u] = qid[u]

LEMMA ReserveFrame ==
  ASSUME TypeOK, NEW p \in Producers, NEW id, EnqReserve(p, id)
  PROVE  /\ Moved(p) /\ qpc[p] = "idle" /\ qid'[p] = id
         /\ offered' = offered \cup {id}
  BY DEF TypeOK, EnqReserve, Goto, Moved, Threads

LEMMA EnqFrame ==
  ASSUME TypeOK, NEW p \in Producers, EnqStep(p)
  PROVE  Moved(p) /\ qpc[p] # "idle" /\ qid' = qid /\ offered' = offered
  BY DEF TypeOK, EnqStep, EnqUndo, EnqWrap, EnqTicket, EnqWrite, EnqPublish,
         Goto, Moved, Threads, history

LEMMA DeqFrame ==
  ASSUME TypeOK, NEW c \in Consumers, DeqReserve(c) \/ DeqStep(c)
  PROVE  Moved(c) /\ offered' = offered
  BY DEF TypeOK, DeqReserve, DeqStep, DeqUndo, DeqWrap, DeqTicket, DeqRead,
         DeqRelease, Goto, Moved, Threads, history

LEMMA DeqStepFrame ==
  ASSUME NEW c \in Consumers, DeqStep(c)
  PROVE  qpc[c] # "idle"
  BY DEF DeqStep, DeqUndo, DeqWrap, DeqTicket, DeqRead, DeqRelease, Goto

LEMMA ReturnFrame ==
  ASSUME TypeOK, NEW t \in Threads, Return(t)
  PROVE  /\ Moved(t) /\ qpc[t] \in Results /\ qpc'[t] = "idle"
         /\ offered' = offered /\ given' = given
  BY DEF TypeOK, Return, Moved, history

-----------------------------------------------------------------------------
(* As long as no producer overtakes another the unsynchronised array is    *)
(* read as it was written, whatever the number of producers.  head and     *)
(* tail may run past the end of the array, so only their remainders say    *)
(* something of a place: Back(n) is the place n places before the next     *)
(* one to write, and At brings it back into the array.                     *)
At(i) == IF i < 0 THEN i + Size ELSE i
Back(n) == At(Place(tail) - n)

(* The place of the k-th id given, while it is in the ring.                *)
PlaceOf(k) == Back(Len(given) - k + 1)

OneConsumer ==
  \A c, d \in Consumers : qpc[c] # "idle" /\ qpc[d] # "idle" => c = d

(* The ids that are in the ring and whose reading has no ticket yet.       *)
Unclaimed ==
  Outstanding - IF \E c \in Consumers : qpc[c] = "d_read" THEN 1 ELSE 0

(* head and tail agree with the number of ids between them, up to a round. *)
IndicesOK == Place(tail) - Place(head) - Unclaimed \in {-Size, 0}

(* A writer is at its place in the ring, the reader at the first not taken.*)
TicketsOK ==
  /\ \A p \in Producers : qpc[p] = "e_write" =>
       \E k \in (Len(taken) + 1)..Len(given) :
         qid[p] = given[k] /\ qpos[p] = PlaceOf(k)
  /\ \A c \in Consumers : qpc[c] = "d_read" => qpos[c] = PlaceOf(Len(taken) + 1)

Unwritten(k)   == \E p \in Producers : qpc[p] = "e_write" /\ qid[p] = given[k]
Unpublished(k) == \E p \in Producers : qpc[p] \in Publishing /\ qid[p] = given[k]

ArrayOK ==
  \A k \in (Len(taken) + 1)..Len(given) : ~Unwritten(k) => q[PlaceOf(k)] = given[k]

(* Nothing given after an id that is not written yet has been published.   *)
PublishedInOrder ==
  \A k \in 1..Len(given) : Unwritten(k) =>
    \A j \in k..Len(given) : Unpublished(j)

(* What has been read is what was given, in the same order.                *)
InOrder == \A k \in 1..Len(taken) : k <= Len(given) /\ taken[k] = given[k]

Linear ==
  OneConsumer /\ IndicesOK /\ TicketsOK /\ ArrayOK /\ PublishedInOrder /\ InOrder

(* Each id is given a place once, whatever the number of producers.        *)
Fresh ==
  /\ \A p \in Producers : qpc[p] \in Claiming =>
       \A k \in 1..Len(given) : given[k] # qid[p]
  /\ \A p, r \in Producers :
       qpc[p] \in Claiming /\ qpc[r] \in Claiming /\ qid[p] = qid[r] => p = r
  /\ \A j, k \in 1..Len(given) : given[j] = given[k] => j = k

LEMMA CountSome ==
  ASSUME NEW S, NEW t \in Threads, qpc[t] \in S
  PROVE  N(S) \in Nat /\ N(S) >= 1
<1>1. IsFiniteSet(Threads)
  BY QueueAssumption, FS_Union DEF Threads
<1>2. IsFiniteSet({u \in Threads : qpc[u] \in S})
  BY <1>1, FS_Subset
<1>3. {u \in Threads : qpc[u] \in S} # {}
  OBVIOUS
<1>4. N(S) # 0
  BY <1>2, <1>3, FS_EmptySet DEF N
<1> QED
  BY <1>4, CountType

-----------------------------------------------------------------------------
(* Each id gets at most one place: JudgeWorker passes an id to enque once, *)
(* and a caller that still looks for a place has none yet.                 *)
LEMMA FreshInit == Init => Fresh
  BY DEF Init, Fresh, Threads, Claiming

LEMMA FreshStep ==
  ASSUME IInv, Origin, Fresh, [Next]_vars
  PROVE  Fresh'
<1> USE DEF Goto, ring, counters, locals, history
<1>p. /\ Producers \cap Consumers = {}
      /\ Producers \subseteq Threads /\ Consumers \subseteq Threads
      /\ qpc \in [Threads -> PC] /\ qid \in [Threads -> Ids]
      /\ given \in Seq(Ids) /\ KindOK
  BY QueueAssumption DEF IInv, TypeOK, Threads
<1>o. /\ \A k \in 1..Len(given) : given[k] \in offered
      /\ \A p \in Producers : qpc[p] \in Claiming => qid[p] \in offered
  BY DEF Origin, Claiming, EnqSteps
<1>f. /\ \A p \in Producers : qpc[p] \in Claiming =>
           \A k \in 1..Len(given) : given[k] # qid[p]
      /\ \A p, r \in Producers :
           qpc[p] \in Claiming /\ qpc[r] \in Claiming /\ qid[p] = qid[r] => p = r
      /\ \A j, k \in 1..Len(given) : given[j] = given[k] => j = k
  BY DEF Fresh
(* No step but a call makes a thread look for a place.                     *)
<1>q. ASSUME given' = given,
             \A p \in Producers : qpc'[p] \in Claiming =>
               qpc[p] \in Claiming /\ qid'[p] = qid[p]
      PROVE  Fresh'
  BY <1>f, <1>q DEF Fresh
<1>1. ASSUME NEW p \in Producers, NEW id \in Ids, EnqCall(p, id) PROVE Fresh'
  <2>1. /\ id \notin offered /\ given' = given
        /\ qid'[p] = id
        /\ \A r \in Producers : r # p => qpc'[r] = qpc[r] /\ qid'[r] = qid[r]
    BY <1>1, <1>p DEF EnqCall, EnqReserve
  <2> QED
    BY <1>f, <1>o, <2>1 DEF Fresh
<1>2. ASSUME NEW p \in Producers,
             EnqUndo(p) \/ EnqWrap(p) \/ EnqWrite(p) \/ EnqPublish(p)
      PROVE  Fresh'
  <2>1. /\ given' = given /\ qid' = qid
        /\ \A r \in Producers : qpc'[r] \in Claiming => qpc[r] \in Claiming
    BY <1>2, <1>p DEF EnqUndo, EnqWrap, EnqWrite, EnqPublish, Claiming
  <2> QED
    BY <1>q, <2>1
<1>3. ASSUME NEW p \in Producers, EnqTicket(p) PROVE Fresh'
  <2>1. /\ qpc[p] \in Claiming /\ qpc'[p] \notin Claiming /\ qid' = qid
        /\ \A r \in Producers : r # p => qpc'[r] = qpc[r]
    BY <1>3, <1>p DEF EnqTicket, Claiming
  <2>2. /\ Len(given') = Len(given) + 1 /\ Len(given) \in Nat
        /\ \A k \in 1..Len(given) : given'[k] = given[k]
        /\ given'[Len(given) + 1] = qid[p]
    BY <1>3, <1>p DEF EnqTicket
  <2>3. \A k \in 1..Len(given') : k \in 1..Len(given) \/ k = Len(given) + 1
    BY <2>2
  <2>4. \A j, k \in 1..Len(given') : given'[j] = given'[k] => j = k
    BY <1>f, <2>1, <2>2, <2>3
  <2>5. \A r \in Producers : qpc'[r] \in Claiming =>
          \A k \in 1..Len(given') : given'[k] # qid'[r]
    BY <1>f, <2>1, <2>2, <2>3
  <2>6. \A r, s \in Producers :
          qpc'[r] \in Claiming /\ qpc'[s] \in Claiming /\ qid'[r] = qid'[s] => r = s
    BY <1>f, <2>1
  <2> QED
    BY <2>4, <2>5, <2>6 DEF Fresh
<1>4. ASSUME NEW c \in Consumers, DeqCall(c) \/ DeqStep(c) PROVE Fresh'
  <2>1. /\ given' = given
        /\ \A p \in Producers : qpc'[p] = qpc[p] /\ qid'[p] = qid[p]
    BY <1>4, <1>p DEF DeqCall, DeqReserve, DeqStep, DeqUndo, DeqWrap, DeqTicket,
       DeqRead, DeqRelease
  <2> QED
    BY <1>q, <2>1
<1>5. ASSUME NEW t \in Threads, Return(t) PROVE Fresh'
  <2>1. /\ given' = given
        /\ \A p \in Producers : p # t => qpc'[p] = qpc[p] /\ qid'[p] = qid[p]
        /\ qpc'[t] \notin Claiming
    BY <1>5, <1>p DEF Return, Claiming
  <2> QED
    BY <1>q, <2>1
<1>6. CASE UNCHANGED vars
  BY <1>6, <1>q DEF vars
<1> QED
  BY <1>1, <1>2, <1>3, <1>4, <1>5, <1>6 DEF Next, EnqStep

-----------------------------------------------------------------------------
(* Each id given but not published is held by a producer of its own.       *)
LEMMA UnpublishedCount ==
  ASSUME TypeOK, Fresh, NEW k \in 1..Len(given),
         \A j \in k..Len(given) : Unpublished(j)
  PROVE  N(Publishing) >= Len(given) - k + 1
<1> DEFINE S == k..Len(given)
           T == {t \in Threads : qpc[t] \in Publishing}
           f == [j \in S |-> CHOOSE p \in Producers :
                               qpc[p] \in Publishing /\ qid[p] = given[j]]
<1>1. Len(given) \in Nat /\ k \in Nat /\ k >= 1 /\ k <= Len(given)
  BY DEF TypeOK
<1>2. \A j \in S : f[j] \in T /\ qid[f[j]] = given[j]
  BY DEF Unpublished, Threads
<1>3. \A i, j \in S : f[i] = f[j] => i = j
  <2> SUFFICES ASSUME NEW i \in S, NEW j \in S, f[i] = f[j] PROVE i = j
    OBVIOUS
  <2>1. given[i] = given[j]
    BY <1>2
  <2>2. i \in 1..Len(given) /\ j \in 1..Len(given)
    BY <1>1
  <2> QED
    BY <2>1, <2>2 DEF Fresh
<1>4. f \in Injection(S, T)
  BY <1>2, <1>3 DEF Injection, IsInjective
<1>5. IsFiniteSet(T)
  <2>1. IsFiniteSet(Threads)
    BY QueueAssumption, FS_Union DEF Threads
  <2> QED
    BY <2>1, FS_Subset
<1>6. Cardinality(S) <= Cardinality(T)
  BY <1>4, <1>5, FS_Injection
<1>7. Cardinality(S) = Len(given) - k + 1
  BY <1>1, FS_Interval
<1>8. Cardinality(T) \in Nat /\ N(Publishing) = Cardinality(T)
  BY <1>5, FS_CardinalityType DEF N
<1> QED
  BY <1>1, <1>6, <1>7, <1>8

(* Whoever has found that there is an id to read has one that is written.  *)
LEMMA IdWritten ==
  ASSUME IInv, Fresh, OneConsumer, PublishedInOrder, NEW c \in Consumers,
         qpc[c] \in {"d_wrap", "d_ticket", "d_read"}
  PROVE  Len(taken) + 1 <= Len(given) /\ ~Unwritten(Len(taken) + 1)
<1>1. c \in Threads /\ Producers \cap Consumers = {}
  BY QueueAssumption DEF Threads
<1>2. \A t \in Threads : qpc[t] \notin Starving
  BY DEF IInv, KindOK, OneConsumer, Threads, Starving, EnqSteps
<1>3. N(Starving) = 0
  BY <1>2, CountNone
<1>4. N(Reading) \in Nat /\ N(Reading) >= 1
  BY <1>1, CountSome DEF Reading
<1>5. readableCnt = Outstanding - N(Publishing) - N(Reading)
  BY DEF IInv, SemaphoresExact, ReadableExact, Publishing, Reading
<1>6. readableCnt + N(Starving) \in Nat
  BY DEF IInv, NoDebt
<1>7. /\ Len(given) \in Nat /\ Len(taken) \in Nat /\ readableCnt \in Int
      /\ N(Publishing) \in Nat
  BY CountType DEF IInv, TypeOK
<1>8. Len(given) - Len(taken) >= N(Publishing) + 1
  BY <1>3, <1>4, <1>5, <1>6, <1>7 DEF Outstanding
<1>9. Len(taken) + 1 \in 1..Len(given)
  BY <1>7, <1>8
<1>10. ASSUME Unwritten(Len(taken) + 1) PROVE FALSE
  <2>1. \A j \in (Len(taken) + 1)..Len(given) : Unpublished(j)
    BY <1>9, <1>10 DEF PublishedInOrder
  <2>2. N(Publishing) >= Len(given) - (Len(taken) + 1) + 1
    BY <1>9, <2>1, UnpublishedCount DEF IInv
  <2> QED
    BY <1>7, <1>8, <2>2
<1> QED
  BY <1>7, <1>9, <1>10

-----------------------------------------------------------------------------
(* The next place after a place: the remainder goes up by one, or to 0.    *)
LEMMA Quotient ==
  ASSUME NEW a \in Int, NEW b \in Int,
         NEW r \in 0..(Size - 1), NEW s \in 0..(Size - 1),
         Size * a + r = Size * b + s
  PROVE  a = b
<1>1. Size * (a - b) = s - r
  BY QueueAssumption
<1>2. a - b >= 1 => Size * (a - b) >= Size
  BY QueueAssumption
<1>3. a - b <= -1 => Size * (a - b) <= -Size
  BY QueueAssumption
<1> QED
  BY <1>1, <1>2, <1>3, QueueAssumption

LEMMA PlaceNext ==
  ASSUME NEW n \in Nat
  PROVE  Place(n + 1) = IF Place(n) = Size - 1 THEN 0 ELSE Place(n) + 1
<1> DEFINE a == n \div Size
           r == n % Size
           b == (n + 1) \div Size
           s == (n + 1) % Size
<1>1. n = Size * a + r /\ a \in Int /\ r \in 0..(Size - 1)
  BY QueueAssumption
<1>2. n + 1 = Size * b + s /\ b \in Int /\ s \in 0..(Size - 1)
  BY QueueAssumption
<1>p. Place(n) = r /\ Place(n + 1) = s
  BY DEF Place
<1> HIDE DEF a, b, r, s
<1>3. CASE r = Size - 1
  <2>1. Size * (a + 1) = Size * a + Size
    BY <1>1, QueueAssumption
  <2>2. Size * (a + 1) + 0 = Size * b + s
    BY <1>1, <1>2, <1>3, <2>1, QueueAssumption
  <2>3. a + 1 = b
    BY <1>1, <1>2, <2>2, Quotient, QueueAssumption
  <2>4. s = 0
    BY <1>1, <1>2, <2>2, <2>3, QueueAssumption
  <2> QED
    BY <1>p, <1>3, <2>4
<1>4. CASE r # Size - 1
  <2>1. Size * a + (r + 1) = Size * b + s /\ r + 1 \in 0..(Size - 1)
    BY <1>1, <1>2, <1>4, QueueAssumption
  <2>2. a = b
    BY <1>1, <1>2, <2>1, Quotient
  <2>3. s = r + 1
    BY <1>1, <1>2, <2>1, <2>2, QueueAssumption
  <2> QED
    BY <1>p, <1>4, <2>3
<1> QED
  BY <1>3, <1>4

(* The reset of an index at the end of the array keeps its place.          *)
LEMMA PlaceWrapped == ASSUME NEW n \in Nat PROVE Place(Wrapped(n)) = Place(n)
  BY QueueAssumption DEF Place, Wrapped

(* Going back by 1 to Size places reaches each place once.                 *)
LEMMA BackPlaces ==
  ASSUME tail \in Nat
  PROVE  /\ \A n \in 1..Size : Back(n) \in Places
         /\ \A m, n \in 1..Size : Back(m) = Back(n) => m = n
<1> DEFINE t == Place(tail)
<1>1. t \in 0..(Size - 1)
  BY PlaceType DEF Places
<1> HIDE DEF t
<1> QED
  BY <1>1, QueueAssumption DEF Back, At, Places, t

(* One place further, one more back is the same place.                     *)
LEMMA BackNext ==
  ASSUME tail \in Nat, tail' = tail + 1
  PROVE  /\ Back(1)' = Place(tail)
         /\ \A n \in 1..(Size - 1) : Back(n + 1)' = Back(n)
<1> DEFINE t == Place(tail)
           u == Place(tail + 1)
<1>1. t \in 0..(Size - 1) /\ u = IF t = Size - 1 THEN 0 ELSE t + 1
  BY PlaceType, PlaceNext DEF Places
<1>2. \A n : Back(n)' = IF u - n < 0 THEN (u - n) + Size ELSE u - n
  BY DEF Back, At, Place
<1>3. \A n : Back(n) = IF t - n < 0 THEN (t - n) + Size ELSE t - n
  BY DEF Back, At
<1> HIDE DEF t, u
<1>4. Back(1)' = t
  BY <1>1, <1>2, QueueAssumption
<1>5. \A n \in 1..(Size - 1) : Back(n + 1)' = Back(n)
  BY <1>1, <1>2, <1>3, QueueAssumption
<1> QED
  BY <1>4, <1>5 DEF t

LEMMA LinearInit == Init => Linear
<1> SUFFICES ASSUME Init PROVE Linear
  OBVIOUS
<1>1. \A t \in Threads : qpc[t] = "idle"
  BY DEF Init
<1>2. given = <<>> /\ taken = <<>> /\ head = 0 /\ tail = 0
  BY DEF Init
<1>3. Len(given) = 0 /\ Len(taken) = 0
  BY <1>2
<1>4. Unclaimed = 0
  <2>1. (IF \E c \in Consumers : qpc[c] = "d_read" THEN 1 ELSE 0) = 0
    BY <1>1 DEF Threads
  <2>2. Outstanding = 0
    BY <1>3 DEF Outstanding
  <2>3. 0 - 0 = 0
    OBVIOUS
  <2> QED
    BY <2>1, <2>2, <2>3, Zenon DEF Unclaimed
<1>5. OneConsumer /\ TicketsOK
  BY <1>1 DEF OneConsumer, TicketsOK, Threads
<1>6. IndicesOK
  <2>1. Place(0) \in 0..(Size - 1)
    BY PlaceType DEF Places
  <2>2. Place(0) - Place(0) - 0 = 0
    BY <2>1
  <2> QED
    BY <1>2, <1>4, <2>2 DEF IndicesOK
<1>7. ArrayOK /\ PublishedInOrder /\ InOrder
  BY <1>3 DEF ArrayOK, PublishedInOrder, InOrder
<1> QED
  BY <1>5, <1>6, <1>7 DEF Linear

(* What a step on the ring may rely on: the ids in it are as many as it    *)
(* has places at most, and the one being read is one of them.              *)
LEMMA UnclaimedRange ==
  ASSUME IInv, Fresh, OneConsumer, PublishedInOrder
  PROVE  /\ Len(given) \in Nat /\ Len(taken) \in Nat
         /\ Len(given) - Len(taken) \in 0..Size
         /\ Unclaimed \in 0..Size
         /\ \A c \in Consumers : qpc[c] \in {"d_wrap", "d_ticket", "d_read"} =>
              Len(given) - Len(taken) \in 1..Size
<1>1. Len(given) \in Nat /\ Len(taken) \in Nat
  BY DEF IInv, TypeOK
<1>2. Len(given) - Len(taken) \in 0..Size
  BY CapacityOfInv DEF CapacityRespected, Outstanding
<1>3. \A c \in Consumers : qpc[c] \in {"d_wrap", "d_ticket", "d_read"} =>
        Len(given) - Len(taken) \in 1..Size
  BY <1>1, <1>2, IdWritten, QueueAssumption
<1> QED
  BY <1>1, <1>2, <1>3, QueueAssumption DEF Unclaimed, Outstanding

(* A step that keeps the places and the history, and neither takes, uses   *)
(* nor gives back a ticket, leaves everything in its place.                *)
LEMMA QuietStep ==
  ASSUME TypeOK, Linear, NEW t \in Threads, NEW to,
         qpc' = [qpc EXCEPT ![t] = to],
         qpc[t] \notin {"e_write", "e_publish", "d_read"},
         to \notin Publishing \cup {"d_read"},
         \A u \in Threads : u # t => qid'[u] = qid[u] /\ qpos'[u] = qpos[u],
         Place(tail') = Place(tail), Place(head') = Place(head),
         UNCHANGED <<q, given, taken>>, OneConsumer'
  PROVE  Linear'
<1>1. \A u \in Threads : qpc'[u] = IF u = t THEN to ELSE qpc[u]
  BY DEF TypeOK
<1>2. \A k : PlaceOf(k)' = PlaceOf(k)
  BY DEF PlaceOf, Back, At, Place
<1>3. \A k : /\ Unwritten(k)' <=> Unwritten(k)
             /\ Unpublished(k)' <=> Unpublished(k)
  BY <1>1 DEF Unwritten, Unpublished, Threads, Publishing
<1>4. Unclaimed' = Unclaimed
  BY <1>1 DEF Unclaimed, Outstanding, Threads
<1>5. IndicesOK'
  BY <1>4 DEF Linear, IndicesOK, Place
<1>6. TicketsOK'
  BY <1>1, <1>2 DEF Linear, TicketsOK, Threads, Publishing
<1>7. ArrayOK'
  BY <1>2, <1>3 DEF Linear, ArrayOK
<1>8. PublishedInOrder' /\ InOrder'
  BY <1>3 DEF Linear, PublishedInOrder, InOrder
<1> QED
  BY <1>5, <1>6, <1>7, <1>8 DEF Linear

(* deque is called under a lock, so its calls do not overlap.              *)
LEMMA OneConsumerStep ==
  ASSUME IInv, OneConsumer, [Next]_vars
  PROVE  OneConsumer'
<1> USE DEF Goto, ring, counters, locals, history
<1>p. Producers \cap Consumers = {} /\ qpc \in [Threads -> PC] /\ KindOK
  BY QueueAssumption DEF IInv, TypeOK
<1>1. ASSUME NEW p \in Producers, (\E id \in Ids : EnqCall(p, id)) \/ EnqStep(p)
      PROVE  OneConsumer'
  <2>1. \A c \in Consumers : qpc'[c] = qpc[c]
    BY <1>1, <1>p DEF EnqCall, EnqReserve, EnqStep, EnqUndo, EnqWrap,
       EnqTicket, EnqWrite, EnqPublish, Threads
  <2> QED
    BY <2>1 DEF OneConsumer
<1>2. ASSUME NEW c \in Consumers, DeqCall(c) PROVE OneConsumer'
  BY <1>2, <1>p DEF DeqCall, DeqReserve, OneConsumer, Threads
<1>3. ASSUME NEW c \in Consumers, DeqStep(c) PROVE OneConsumer'
  <2>1. /\ qpc[c] # "idle"
        /\ \A d \in Consumers : d # c => qpc'[d] = qpc[d]
    BY <1>3, <1>p DEF DeqStep, DeqUndo, DeqWrap, DeqTicket, DeqRead,
       DeqRelease, Threads
  <2> QED
    BY <2>1 DEF OneConsumer
<1>4. ASSUME NEW t \in Threads, Return(t) PROVE OneConsumer'
  BY <1>4, <1>p DEF Return, OneConsumer, Threads
<1>5. CASE UNCHANGED vars
  BY <1>5 DEF vars, OneConsumer
<1> QED
  BY <1>1, <1>2, <1>3, <1>4, <1>5 DEF Next

(* The k-th of n ids in a row, counted from the end of the row.            *)
LEMMA Consecutive ==
  ASSUME NEW a \in Nat, NEW b \in Nat, NEW s \in Nat, b - a \in 0..s
  PROVE  /\ b - (a + 1) + 1 = b - a
         /\ \A k \in (a + 1)..b : b - k + 1 \in 1..s
  OBVIOUS

(* What deque reads is the oldest id in the ring.                          *)
LEMMA OldestRead ==
  ASSUME IInv, Fresh, Linear, NEW c \in Consumers, DeqRead(c)
  PROVE  /\ Len(taken) < Len(given)
         /\ q[qpos[c]] = given[Len(taken) + 1]
         /\ taken' = Append(taken, given[Len(taken) + 1])
<1>1. qpc[c] = "d_read" /\ taken' = Append(taken, q[qpos[c]])
  BY DEF DeqRead, Goto
<1>2. Len(taken) \in Nat /\ Len(given) \in Nat
  BY DEF IInv, TypeOK
<1>3. Len(taken) + 1 <= Len(given) /\ ~Unwritten(Len(taken) + 1)
  BY <1>1, IdWritten DEF Linear
<1>4. qpos[c] = PlaceOf(Len(taken) + 1)
  BY <1>1 DEF Linear, TicketsOK
<1>5. q[PlaceOf(Len(taken) + 1)] = given[Len(taken) + 1]
  BY <1>2, <1>3 DEF Linear, ArrayOK
<1> QED
  BY <1>1, <1>2, <1>3, <1>4, <1>5

(* The steps that draw, use and give back a ticket, one by one.            *)
LEMMA LinearTicket ==
  ASSUME IInv, CapacityRespected', Fresh, Linear, OneConsumer',
         NEW p \in Producers, EnqTicket(p)
  PROVE  Linear'
<1> USE DEF Goto
<1>t. TypeOK /\ OneConsumer /\ PublishedInOrder
  BY DEF IInv, Linear
<1>p. /\ Producers \cap Consumers = {} /\ p \in Threads
      /\ Producers \subseteq Threads /\ Consumers \subseteq Threads
      /\ qpc \in [Threads -> PC] /\ qpos \in [Threads -> Places]
      /\ qid \in [Threads -> Ids] /\ given \in Seq(Ids)
      /\ tail \in Nat /\ head \in Nat /\ Size \in Nat \ {0}
  BY <1>t, QueueAssumption DEF TypeOK, Threads
<1>r. /\ Len(given) \in Nat /\ Len(taken) \in Nat
      /\ Unclaimed \in 0..Size
      /\ \A c \in Consumers : qpc[c] = "d_read" =>
           Len(given) - Len(taken) \in 1..Size
  BY <1>t, UnclaimedRange
<1>l. PICK l \in Nat, m \in Nat : l = Len(given) /\ m = Len(taken)
  BY <1>r
<1>1. /\ qpc[p] = "e_ticket" /\ qpc' = [qpc EXCEPT ![p] = "e_write"]
      /\ qpos' = [qpos EXCEPT ![p] = Place(tail)]
      /\ tail' = tail + 1 /\ given' = Append(given, qid[p])
      /\ UNCHANGED <<q, head, qid, taken>>
  BY DEF EnqTicket
<1>2. /\ \A t \in Threads : t # p => qpc'[t] = qpc[t] /\ qpos'[t] = qpos[t]
      /\ qpc'[p] = "e_write" /\ qpos'[p] = Place(tail)
      /\ \A c \in Consumers : qpc'[c] = qpc[c] /\ qpos'[c] = qpos[c]
  BY <1>p, <1>1
<1>3. /\ Len(given') = l + 1
      /\ \A k \in 1..l : given'[k] = given[k]
      /\ given'[l + 1] = qid[p]
  BY <1>l, <1>p, <1>1
<1>4. l - m \in 0..(Size - 1)
  <2>1. Len(given') - Len(taken') \in 0..Size
    BY <1>l DEF CapacityRespected, Outstanding
  <2>2. l - m \in 0..Size
    BY <1>l, CapacityOfInv DEF CapacityRespected, Outstanding
  <2> QED
    BY <1>p, <1>r, <1>l, <1>1, <1>3, <2>1, <2>2
<1>5. \A k \in (m + 1)..l :
        k \in 1..l /\ PlaceOf(k)' = PlaceOf(k)
  <2> SUFFICES ASSUME NEW k \in (m + 1)..l
               PROVE  k \in 1..l /\ PlaceOf(k)' = PlaceOf(k)
    OBVIOUS
  <2> DEFINE n == l - k + 1
  <2>1. n \in 1..(Size - 1) /\ k \in 1..l
    BY <1>p, <1>r, <1>l, <1>4
  <2>2. Len(given') - k + 1 = n + 1
    BY <1>r, <1>l, <1>3
  <2>3. PlaceOf(k)' = Back(n + 1)'
    BY <1>l, <2>2 DEF PlaceOf, Back
  <2>4. PlaceOf(k) = Back(n)
    BY <1>l DEF PlaceOf
  <2> HIDE DEF n
  <2>5. Back(n + 1)' = Back(n)
    BY <1>l, <1>p, <1>1, <2>1, BackNext
  <2> QED
    BY <1>l, <2>1, <2>3, <2>4, <2>5
<1>6. PlaceOf(l + 1)' = Place(tail)
  <2>1. Len(given') - (l + 1) + 1 = 1
    BY <1>r, <1>l, <1>3
  <2>2. PlaceOf(l + 1)' = Back(1)'
    BY <1>l, <1>1, <2>1 DEF PlaceOf, Back
  <2> QED
    BY <1>l, <1>p, <1>1, <2>2, BackNext
<1>7. IndicesOK'
  <2>1. Unclaimed' = Unclaimed + 1 /\ Unclaimed <= Size - 1
    BY <1>p, <1>r, <1>l, <1>1, <1>2, <1>3, <1>4 DEF Unclaimed, Outstanding
  <2>2. /\ Place(tail) \in 0..(Size - 1) /\ Place(head) \in 0..(Size - 1)
        /\ Place(tail') = IF Place(tail) = Size - 1 THEN 0 ELSE Place(tail) + 1
    BY <1>l, <1>p, <1>1, PlaceType, PlaceNext DEF Places
  <2>3. Place(tail) - Place(head) - Unclaimed \in {-Size, 0}
    BY <1>l DEF Linear, IndicesOK
  <2>4. Place(tail') - Place(head) - (Unclaimed + 1) \in {-Size, 0}
    <3>1. ASSUME NEW t \in 0..(Size - 1), NEW h \in 0..(Size - 1),
                 NEW u \in 0..(Size - 1), t - h - u \in {-Size, 0}
          PROVE  (IF t = Size - 1 THEN 0 ELSE t + 1) - h - (u + 1) \in {-Size, 0}
      BY <1>p, <3>1
    <3>2. Unclaimed \in 0..(Size - 1)
      BY <1>p, <1>r, <2>1
    <3> QED
      BY <2>2, <2>3, <3>1, <3>2
  <2>5. Place(head') = Place(head)
    BY <1>l, <1>1
  <2> QED
    BY <1>l, <2>1, <2>4, <2>5 DEF IndicesOK, Place
<1>8. TicketsOK'
  <2>1. ASSUME NEW c \in Consumers, qpc'[c] = "d_read"
        PROVE  qpos'[c] = PlaceOf(m + 1)'
    <3>1. qpc[c] = "d_read" /\ m + 1 \in (m + 1)..l
      BY <1>p, <1>r, <1>l, <1>2, <2>1
    <3>2. qpos[c] = PlaceOf(m + 1)
      BY <1>l, <3>1 DEF Linear, TicketsOK
    <3> QED
      BY <1>l, <1>2, <1>5, <3>1, <3>2
  <2>2. ASSUME NEW r \in Producers, qpc'[r] = "e_write"
        PROVE  \E k \in (m + 1)..(l + 1) :
                 qid[r] = given'[k] /\ qpos'[r] = PlaceOf(k)'
    <3>1. CASE r = p
      <4>1. l + 1 \in (m + 1)..(l + 1)
        BY <1>p, <1>r, <1>l, <1>4
      <4> QED
        BY <1>l, <1>2, <1>3, <1>6, <3>1, <4>1
    <3>2. CASE r # p
      <4>1. qpc[r] = "e_write" /\ qpos'[r] = qpos[r]
        BY <1>l, <1>p, <1>2, <2>2, <3>2
      <4>2. PICK k \in (m + 1)..l :
              qid[r] = given[k] /\ qpos[r] = PlaceOf(k)
        BY <1>l, <4>1 DEF Linear, TicketsOK
      <4>3. k \in (m + 1)..(l + 1)
        BY <1>r, <1>l
      <4> QED
        BY <1>l, <1>3, <1>5, <4>1, <4>2, <4>3
    <3> QED
      BY <1>l, <3>1, <3>2
  <2> QED
    BY <1>l, <1>1, <1>3, <2>1, <2>2 DEF TicketsOK
<1>9. /\ Unwritten(l + 1)' /\ Unpublished(l + 1)'
      /\ \A k \in 1..l : Unwritten(k)' <=> Unwritten(k)
      /\ \A k \in 1..l : Unpublished(k) => Unpublished(k)'
  <2>1. Unwritten(l + 1)' /\ Unpublished(l + 1)'
    BY <1>l, <1>1, <1>2, <1>3 DEF Unwritten, Unpublished, Publishing
  <2>2. \A k \in 1..l : qid[p] # given[k]
    BY <1>l, <1>1 DEF Fresh, Claiming
  <2>3. qpc[p] \notin Publishing
    BY <1>l, <1>1 DEF Publishing
  <2>4. ASSUME NEW k \in 1..l PROVE Unwritten(k)' <=> Unwritten(k)
    BY <1>l, <1>p, <1>1, <1>2, <1>3, <2>2 DEF Unwritten
  <2>5. ASSUME NEW k \in 1..l, Unpublished(k) PROVE Unpublished(k)'
    BY <1>l, <1>p, <1>1, <1>2, <1>3, <2>3, <2>5 DEF Unpublished
  <2> QED
    BY <1>l, <2>1, <2>4, <2>5
<1>10. ArrayOK'
  <2> SUFFICES ASSUME NEW k \in (m + 1)..Len(given'), ~Unwritten(k)'
               PROVE  q[PlaceOf(k)'] = given'[k]
    BY <1>l, <1>1 DEF ArrayOK
  <2>1. k # l + 1
    BY <1>l, <1>9
  <2>2. k \in (m + 1)..l /\ k \in 1..l
    BY <1>r, <1>l, <1>3, <2>1
  <2>3. q[PlaceOf(k)] = given[k]
    BY <1>l, <1>9, <2>2 DEF Linear, ArrayOK
  <2> QED
    BY <1>l, <1>3, <1>5, <2>2, <2>3
<1>11. PublishedInOrder'
  <2> SUFFICES ASSUME NEW k \in 1..Len(given'), Unwritten(k)',
                      NEW j \in k..Len(given')
               PROVE  Unpublished(j)'
    BY <1>l DEF PublishedInOrder
  <2>1. CASE j = l + 1
    BY <1>l, <1>9, <2>1
  <2>2. CASE j # l + 1
    <3>1. j \in k..l /\ j \in 1..l /\ k \in 1..l
      BY <1>r, <1>l, <1>3, <2>2
    <3> QED
      BY <1>l, <1>9, <3>1 DEF Linear, PublishedInOrder
  <2> QED
    BY <1>l, <2>1, <2>2
<1>12. InOrder'
  BY <1>r, <1>l, <1>1, <1>3 DEF Linear, InOrder
<1> QED
  BY <1>l, <1>7, <1>8, <1>10, <1>11, <1>12 DEF Linear

LEMMA LinearWrite ==
  ASSUME IInv, Fresh, Linear, OneConsumer', NEW p \in Producers, EnqWrite(p)
  PROVE  Linear'
<1> USE DEF Goto
<1>t. TypeOK /\ OneConsumer /\ PublishedInOrder
  BY DEF IInv, Linear
<1>p. /\ Producers \cap Consumers = {} /\ p \in Threads
      /\ Producers \subseteq Threads /\ Consumers \subseteq Threads
      /\ qpc \in [Threads -> PC] /\ q \in [Places -> Ids]
      /\ tail \in Nat /\ Size \in Nat \ {0}
  BY <1>t, QueueAssumption DEF TypeOK, Threads
<1>r. /\ Len(given) \in Nat /\ Len(taken) \in Nat
      /\ Len(given) - Len(taken) \in 0..Size
  BY <1>t, UnclaimedRange
<1>1. /\ qpc[p] = "e_write" /\ qpc' = [qpc EXCEPT ![p] = "e_publish"]
      /\ q' = [q EXCEPT ![qpos[p]] = qid[p]]
      /\ UNCHANGED <<head, tail, qid, qpos, given, taken>>
  BY DEF EnqWrite, counters, history
<1>2. \A t \in Threads : qpc'[t] = IF t = p THEN "e_publish" ELSE qpc[t]
  BY <1>p, <1>1
<1>3. \A k : PlaceOf(k)' = PlaceOf(k)
  BY <1>1 DEF PlaceOf, Back, At, Place
<1>4. IndicesOK'
  <2>1. Unclaimed' = Unclaimed
    BY <1>p, <1>1, <1>2 DEF Unclaimed, Outstanding
  <2> QED
    BY <1>1, <2>1 DEF Linear, IndicesOK, Place
<1>5. TicketsOK'
  BY <1>p, <1>1, <1>2, <1>3 DEF Linear, TicketsOK
<1>6. PICK own \in (Len(taken) + 1)..Len(given) :
        qid[p] = given[own] /\ qpos[p] = PlaceOf(own)
  BY <1>1 DEF Linear, TicketsOK
<1>7. ASSUME NEW k \in (Len(taken) + 1)..Len(given)
      PROVE  k \in 1..Len(given) /\ Len(given) - k + 1 \in 1..Size
  BY <1>p, <1>r, Consecutive
<1>8. ASSUME NEW k \in (Len(taken) + 1)..Len(given)
      PROVE  PlaceOf(k) \in Places /\ (PlaceOf(k) = PlaceOf(own) => k = own)
  <2>1. /\ Len(given) - k + 1 \in 1..Size
        /\ Len(given) - own + 1 \in 1..Size
    BY <1>7
  <2>2. /\ PlaceOf(k) \in Places
        /\ PlaceOf(k) = PlaceOf(own) => Len(given) - k + 1 = Len(given) - own + 1
    BY <1>p, <2>1, BackPlaces DEF PlaceOf
  <2> QED
    BY <1>r, <2>2
<1>9. ArrayOK'
  <2> SUFFICES ASSUME NEW k \in (Len(taken) + 1)..Len(given), ~Unwritten(k)'
               PROVE  q'[PlaceOf(k)] = given[k]
    BY <1>1, <1>3 DEF ArrayOK
  <2>1. CASE k = own
    BY <1>p, <1>1, <1>6, <1>8, <2>1
  <2>2. CASE k # own
    <3>1. given[k] # given[own]
      BY <1>7, <2>2 DEF Fresh
    <3>2. ~Unwritten(k)
      BY <1>p, <1>1, <1>2, <1>6, <3>1 DEF Unwritten
    <3>3. q[PlaceOf(k)] = given[k]
      BY <3>2 DEF Linear, ArrayOK
    <3> QED
      BY <1>p, <1>1, <1>6, <1>8, <2>2, <3>3
  <2> QED
    BY <2>1, <2>2
<1>10. PublishedInOrder'
  <2>1. \A k : Unwritten(k)' => Unwritten(k)
    BY <1>p, <1>1, <1>2 DEF Unwritten
  <2>2. \A k : Unpublished(k) => Unpublished(k)'
    BY <1>p, <1>1, <1>2 DEF Unpublished, Publishing
  <2> QED
    BY <1>1, <2>1, <2>2 DEF Linear, PublishedInOrder
<1>11. InOrder'
  BY <1>1 DEF Linear, InOrder
<1> QED
  BY <1>4, <1>5, <1>9, <1>10, <1>11 DEF Linear

(* Publishing an id keeps the order unless it overtakes another.           *)
LEMMA LinearPublish ==
  ASSUME IInv, Fresh, Linear, OneConsumer', NEW p \in Producers, EnqPublish(p),
         ~overtaken'
  PROVE  Linear'
<1> USE DEF Goto
<1>t. TypeOK
  BY DEF IInv
<1>p. /\ Producers \cap Consumers = {} /\ p \in Threads
      /\ Producers \subseteq Threads /\ Consumers \subseteq Threads
      /\ qpc \in [Threads -> PC] /\ Len(given) \in Nat
  BY <1>t, QueueAssumption DEF TypeOK, Threads
<1>1. /\ qpc[p] = "e_publish" /\ qpc' = [qpc EXCEPT ![p] = "e_true"]
      /\ ~Overtakes(p)
      /\ UNCHANGED <<q, head, tail, qid, qpos, given, taken>>
  BY DEF EnqPublish, ring
<1>2. \A t \in Threads : qpc'[t] = IF t = p THEN "e_true" ELSE qpc[t]
  BY <1>p, <1>1
<1>3. \A k : /\ PlaceOf(k)' = PlaceOf(k)
             /\ Unwritten(k)' <=> Unwritten(k)
  BY <1>p, <1>1, <1>2 DEF PlaceOf, Back, At, Place, Unwritten
<1>4. IndicesOK'
  <2>1. Unclaimed' = Unclaimed
    BY <1>p, <1>1, <1>2 DEF Unclaimed, Outstanding
  <2> QED
    BY <1>1, <2>1 DEF Linear, IndicesOK, Place
<1>5. TicketsOK'
  BY <1>p, <1>1, <1>2, <1>3 DEF Linear, TicketsOK
<1>6. ArrayOK' /\ InOrder'
  BY <1>1, <1>3 DEF Linear, ArrayOK, InOrder
<1>7. PublishedInOrder'
  <2> SUFFICES ASSUME NEW k \in 1..Len(given), Unwritten(k),
                      NEW j \in k..Len(given)
               PROVE  Unpublished(j)'
    BY <1>1, <1>3 DEF PublishedInOrder
  <2>1. PICK r \in Producers : qpc[r] = "e_write" /\ qid[r] = given[k]
    BY DEF Unwritten
  <2>2. PICK s \in Producers : qpc[s] \in Publishing /\ qid[s] = given[j]
    BY DEF Linear, PublishedInOrder, Unpublished
  <2>3. CASE s # p
    BY <1>p, <1>1, <1>2, <2>2, <2>3 DEF Unpublished
  <2>4. CASE s = p /\ j = k
    <3>1. r # p /\ qpc'[r] = "e_write" /\ qid'[r] = given'[j]
      BY <1>p, <1>1, <1>2, <2>1, <2>4
    <3> QED
      BY <3>1 DEF Unpublished, Publishing
  <2>5. CASE s = p /\ j # k
    <3>1. k < j /\ k \in 1..Len(given) /\ j \in 1..Len(given)
      BY <1>p, <2>5
    <3>2. Overtakes(p)
      BY <2>1, <2>2, <2>5, <3>1 DEF Overtakes, Before
    <3> QED
      BY <1>1, <3>2
  <2> QED
    BY <2>3, <2>4, <2>5
<1> QED
  BY <1>4, <1>5, <1>6, <1>7 DEF Linear

LEMMA LinearClaim ==
  ASSUME IInv, Fresh, Linear, OneConsumer', NEW c \in Consumers, DeqTicket(c)
  PROVE  Linear'
<1> USE DEF Goto
<1>t. TypeOK /\ OneConsumer /\ PublishedInOrder
  BY DEF IInv, Linear
<1>p. /\ Producers \cap Consumers = {} /\ c \in Threads
      /\ Producers \subseteq Threads /\ Consumers \subseteq Threads
      /\ qpc \in [Threads -> PC] /\ qpos \in [Threads -> Places]
      /\ tail \in Nat /\ head \in Nat /\ Size \in Nat \ {0}
  BY <1>t, QueueAssumption DEF TypeOK, Threads
<1>1. /\ qpc[c] = "d_ticket" /\ qpc' = [qpc EXCEPT ![c] = "d_read"]
      /\ qpos' = [qpos EXCEPT ![c] = Place(head)]
      /\ head' = head + 1
      /\ UNCHANGED <<q, tail, qid, given, taken>>
  BY DEF DeqTicket, counters, history
<1>r. /\ Len(given) \in Nat /\ Len(taken) \in Nat
      /\ Len(given) - Len(taken) \in 1..Size
      /\ Unclaimed \in 0..Size
  BY <1>t, <1>1, UnclaimedRange
<1>2. /\ \A p \in Producers : qpc'[p] = qpc[p] /\ qpos'[p] = qpos[p]
      /\ \A d \in Consumers : qpc[d] # "d_read"
      /\ \A d \in Consumers : qpc'[d] = "d_read" => d = c
      /\ qpc'[c] = "d_read" /\ qpos'[c] = Place(head)
  BY <1>p, <1>t, <1>1 DEF OneConsumer
<1>3. \A k : /\ PlaceOf(k)' = PlaceOf(k)
             /\ Unwritten(k)' <=> Unwritten(k)
             /\ Unpublished(k)' <=> Unpublished(k)
  BY <1>1, <1>2 DEF PlaceOf, Back, At, Place, Unwritten, Unpublished
<1>4. Unclaimed = Len(given) - Len(taken) /\ Unclaimed' = Unclaimed - 1
  BY <1>r, <1>1, <1>2 DEF Unclaimed, Outstanding
<1>5. /\ Place(tail) \in 0..(Size - 1) /\ Place(head) \in 0..(Size - 1)
      /\ Place(head') = IF Place(head) = Size - 1 THEN 0 ELSE Place(head) + 1
  BY <1>p, <1>1, PlaceType, PlaceNext DEF Places
<1>6. Place(tail) - Place(head) - Unclaimed \in {-Size, 0}
  BY DEF Linear, IndicesOK
<1>7. IndicesOK'
  <2>1. Place(tail) - Place(head') - (Unclaimed - 1) \in {-Size, 0}
    BY <1>p, <1>r, <1>4, <1>5, <1>6
  <2> QED
    BY <1>1, <1>4, <2>1 DEF IndicesOK, Place
<1>8. PlaceOf(Len(taken) + 1) = Place(head)
  <2>1. PlaceOf(Len(taken) + 1) = At(Place(tail) - Unclaimed)
    BY <1>r, <1>4, Consecutive DEF PlaceOf, Back
  <2>2. ASSUME NEW t \in 0..(Size - 1), NEW h \in 0..(Size - 1), NEW u \in 1..Size,
               t - h - u \in {-Size, 0}
        PROVE  At(t - u) = h
    BY <1>p, <2>2 DEF At
  <2> QED
    BY <1>r, <1>4, <1>5, <1>6, <2>1, <2>2
<1>9. TicketsOK'
  BY <1>1, <1>2, <1>3, <1>8 DEF Linear, TicketsOK
<1>10. ArrayOK' /\ PublishedInOrder' /\ InOrder'
  BY <1>1, <1>3 DEF Linear, ArrayOK, PublishedInOrder, InOrder
<1> QED
  BY <1>7, <1>9, <1>10 DEF Linear

LEMMA LinearRead ==
  ASSUME IInv, Fresh, Linear, OneConsumer', NEW c \in Consumers, DeqRead(c)
  PROVE  Linear'
<1> USE DEF Goto
<1>t. TypeOK /\ OneConsumer /\ PublishedInOrder
  BY DEF IInv, Linear
<1>p. /\ Producers \cap Consumers = {} /\ c \in Threads
      /\ Producers \subseteq Threads /\ Consumers \subseteq Threads
      /\ qpc \in [Threads -> PC] /\ given \in Seq(Ids) /\ taken \in Seq(Ids)
      /\ Size \in Nat \ {0}
  BY <1>t, QueueAssumption DEF TypeOK, Threads
<1>1. /\ qpc[c] = "d_read" /\ qpc' = [qpc EXCEPT ![c] = "d_release"]
      /\ qid' = [qid EXCEPT ![c] = q[qpos[c]]]
      /\ taken' = Append(taken, given[Len(taken) + 1])
      /\ UNCHANGED <<q, head, tail, qpos, given>>
  BY OldestRead DEF DeqRead, ring
<1>r. /\ Len(given) \in Nat /\ Len(taken) \in Nat
      /\ Len(given) - Len(taken) \in 1..Size
  BY <1>t, <1>1, UnclaimedRange
<1>w. ~Unwritten(Len(taken) + 1)
  BY <1>t, <1>1, IdWritten
<1>2. /\ \A p \in Producers : qpc'[p] = qpc[p] /\ qid'[p] = qid[p]
      /\ \A d \in Consumers : qpc'[d] # "d_read"
  BY <1>p, <1>t, <1>1 DEF OneConsumer
<1>3. \A k : /\ PlaceOf(k)' = PlaceOf(k)
             /\ Unwritten(k)' <=> Unwritten(k)
             /\ Unpublished(k)' <=> Unpublished(k)
  BY <1>1, <1>2 DEF PlaceOf, Back, At, Place, Unwritten, Unpublished
<1>4. given[Len(taken) + 1] \in Ids
  BY <1>p, <1>r
<1>5. /\ Len(taken') = Len(taken) + 1
      /\ \A k \in 1..Len(taken) : taken'[k] = taken[k]
      /\ taken'[Len(taken) + 1] = given[Len(taken) + 1]
  BY <1>p, <1>1, <1>4
<1>6. IndicesOK'
  <2>1. Unclaimed' = Unclaimed
    BY <1>r, <1>1, <1>2, <1>5 DEF Unclaimed, Outstanding
  <2> QED
    BY <1>1, <2>1 DEF Linear, IndicesOK, Place
<1>7. \A k \in (Len(taken') + 1)..Len(given) :
        k \in (Len(taken) + 1)..Len(given)
  BY <1>r, <1>5
<1>8. TicketsOK'
  <2> SUFFICES ASSUME NEW p \in Producers, qpc'[p] = "e_write"
               PROVE  \E k \in (Len(taken') + 1)..Len(given) :
                        qid'[p] = given[k] /\ qpos'[p] = PlaceOf(k)'
    BY <1>1, <1>2 DEF TicketsOK
  <2>1. qpc[p] = "e_write" /\ qid'[p] = qid[p]
    BY <1>2
  <2>2. PICK k \in (Len(taken) + 1)..Len(given) :
          qid[p] = given[k] /\ qpos[p] = PlaceOf(k)
    BY <2>1 DEF Linear, TicketsOK
  <2>3. k # Len(taken) + 1
    BY <1>w, <2>1, <2>2 DEF Unwritten
  <2>4. k \in (Len(taken') + 1)..Len(given)
    BY <1>r, <1>5, <2>3
  <2> QED
    BY <1>1, <1>3, <2>1, <2>2, <2>4
<1>9. ArrayOK'
  BY <1>1, <1>3, <1>7 DEF Linear, ArrayOK
<1>10. PublishedInOrder'
  BY <1>1, <1>3 DEF Linear, PublishedInOrder
<1>11. InOrder'
  BY <1>r, <1>1, <1>5 DEF Linear, InOrder
<1> QED
  BY <1>6, <1>8, <1>9, <1>10, <1>11 DEF Linear

LEMMA LinearStep ==
  ASSUME IInv, Fresh, Linear, [Next]_vars, ~overtaken'
  PROVE  Linear'
<1> USE DEF Goto, ring, counters, locals, history
<1>t. TypeOK /\ OneConsumer' /\ Linear /\ tail \in Nat /\ head \in Nat
  BY OneConsumerStep DEF IInv, Linear, TypeOK
<1>p. Producers \subseteq Threads /\ Consumers \subseteq Threads
  BY DEF Threads
<1>c. CapacityRespected'
  BY InvariantStep, CapacityOfInv, PTL
<1>w. Place(Wrapped(tail)) = Place(tail) /\ Place(Wrapped(head)) = Place(head)
  BY <1>t, PlaceWrapped
<1>1. ASSUME NEW p \in Producers,
             (\E id \in Ids : EnqCall(p, id)) \/ EnqUndo(p) \/ EnqWrap(p)
      PROVE  Linear'
  <2>1. PICK to \in {"e_undo", "e_wrap", "e_false", "e_ticket"} :
          /\ qpc' = [qpc EXCEPT ![p] = to]
          /\ qpc[p] \in {"idle", "e_undo", "e_wrap"}
          /\ \A u \in Threads : u # p => qid'[u] = qid[u] /\ qpos'[u] = qpos[u]
          /\ tail' \in {tail, Wrapped(tail)}
          /\ UNCHANGED <<q, head, given, taken>>
    BY <1>1, <1>t DEF EnqCall, EnqReserve, EnqUndo, EnqWrap, TypeOK
  <2> QED
    BY <1>t, <1>p, <1>w, <2>1, QuietStep DEF Publishing
<1>2. ASSUME NEW c \in Consumers,
             DeqCall(c) \/ DeqUndo(c) \/ DeqWrap(c) \/ DeqRelease(c)
      PROVE  Linear'
  <2>1. PICK to \in {"d_undo", "d_wrap", "d_false", "d_ticket", "d_true"} :
          /\ qpc' = [qpc EXCEPT ![c] = to]
          /\ qpc[c] \in {"idle", "d_undo", "d_wrap", "d_release"}
          /\ \A u \in Threads : u # c => qid'[u] = qid[u] /\ qpos'[u] = qpos[u]
          /\ head' \in {head, Wrapped(head)}
          /\ UNCHANGED <<q, tail, given, taken>>
    BY <1>2 DEF DeqCall, DeqReserve, DeqUndo, DeqWrap, DeqRelease
  <2> QED
    BY <1>t, <1>p, <1>w, <2>1, QuietStep DEF Publishing
<1>3. ASSUME NEW t \in Threads, Return(t) PROVE Linear'
  <2>1. /\ qpc' = [qpc EXCEPT ![t] = "idle"]
        /\ qpc[t] \in Results
        /\ \A u \in Threads : u # t => qid'[u] = qid[u] /\ qpos'[u] = qpos[u]
        /\ UNCHANGED <<q, head, tail, given, taken>>
    BY <1>3, <1>t DEF Return, TypeOK
  <2> QED
    BY <1>t, <1>p, <2>1, QuietStep DEF Publishing, Results
<1>4. ASSUME NEW p \in Producers, EnqTicket(p) \/ EnqWrite(p) \/ EnqPublish(p)
      PROVE  Linear'
  BY <1>4, <1>c, <1>t, LinearTicket, LinearWrite, LinearPublish
<1>5. ASSUME NEW c \in Consumers, DeqTicket(c) \/ DeqRead(c) PROVE Linear'
  BY <1>5, <1>t, LinearClaim, LinearRead
<1>6. CASE UNCHANGED vars
  <2>1. \A k : /\ PlaceOf(k)' = PlaceOf(k)
               /\ Unwritten(k)' <=> Unwritten(k)
               /\ Unpublished(k)' <=> Unpublished(k)
    BY <1>6 DEF vars, PlaceOf, Back, At, Place, Unwritten, Unpublished
  <2>2. Unclaimed' = Unclaimed
    BY <1>6 DEF vars, Unclaimed, Outstanding
  <2> QED
    BY <1>t, <1>6, <2>1, <2>2 DEF vars, Linear, IndicesOK, Place, TicketsOK,
      ArrayOK, PublishedInOrder, InOrder
<1> QED
  BY <1>1, <1>2, <1>3, <1>4, <1>5, <1>6 DEF Next, EnqStep, DeqStep

-----------------------------------------------------------------------------
(* What has been overtaken stays so, and until then all of this holds.     *)
LEMMA OvertakenStays == TypeOK /\ [Next]_vars /\ overtaken => overtaken'
  BY DEF TypeOK, Next, EnqCall, EnqReserve, EnqStep, EnqUndo, EnqWrap, EnqTicket,
     EnqWrite, EnqPublish, DeqCall, DeqReserve, DeqStep, DeqUndo, DeqWrap,
     DeqTicket, DeqRead, DeqRelease, Return, vars, history

OrderInv == IInv /\ Origin /\ Fresh /\ (overtaken \/ Linear)

LEMMA OrderInductive == Spec => []OrderInv
<1>1. Init => OrderInv
  BY CountInit, OriginInit, LinearInit, FreshInit DEF OrderInv
<1>2. OrderInv /\ [Next]_vars => OrderInv'
  <2> SUFFICES ASSUME OrderInv, [Next]_vars PROVE OrderInv'
    OBVIOUS
  <2>1. IInv'
    BY InvariantStep DEF OrderInv
  <2>2. Origin' /\ Fresh'
    BY OriginStep, FreshStep DEF OrderInv
  <2>3. overtaken' \/ Linear'
    BY LinearStep, OvertakenStays DEF OrderInv, IInv
  <2> QED
    BY <2>1, <2>2, <2>3 DEF OrderInv
<1> QED
  BY <1>1, <1>2, PTL DEF Spec

(* What deque has handed out was put in, and came out once (line 20), as   *)
(* the comment promises, for any number of producers until one publishes   *)
(* its id before the place of an earlier one is written.                   *)
THEOREM HandedOutOnce == Spec => [](overtaken \/ EachJobHandedOutOnce)
<1>1. OrderInv => overtaken \/ EachJobHandedOutOnce
  <2> SUFFICES ASSUME OrderInv, Linear PROVE EachJobHandedOutOnce
    BY DEF OrderInv
  <2>1. Len(taken) \in Nat /\ Len(given) \in Nat
    BY DEF OrderInv, IInv, TypeOK
  <2>2. \A i \in 1..Len(taken) : i \in 1..Len(given) /\ taken[i] = given[i]
    BY <2>1 DEF Linear, InOrder
  <2>3. \A i, j \in 1..Len(given) : given[i] = given[j] => i = j
    BY DEF OrderInv, Fresh
  <2> QED
    BY <2>2, <2>3 DEF EachJobHandedOutOnce
<1> QED
  BY <1>1, OrderInductive, PTL

(* A step of the ring is a step of the queue it implements: drawing the    *)
(* ticket of enque puts the id in, the read of deque takes the oldest out. *)
LEMMA FifoStep ==
  ASSUME OrderInv, [Next]_vars
  PROVE  [overtaken \/ Fifo!Next]_(Fifo!fifoVars)
<1> USE DEF ring, counters, locals, history
<1>1. ASSUME NEW p \in Producers, EnqTicket(p) PROVE Fifo!Next
  <2>1. /\ qpc[p] \in Claiming /\ given' = Append(given, qid[p])
        /\ taken' = taken /\ qid[p] \in Ids
    BY <1>1 DEF EnqTicket, Goto, Claiming, OrderInv, IInv, TypeOK, Threads
  <2>2. \A k \in 1..Len(given) : given[k] # qid[p]
    BY <2>1 DEF OrderInv, Fresh
  <2>3. Fifo!Give(qid[p])
    BY <2>1, <2>2 DEF Fifo!Give
  <2> QED
    BY <2>1, <2>3 DEF Fifo!Next
<1>2. ASSUME NEW c \in Consumers, DeqRead(c) PROVE overtaken \/ Fifo!Next
  <2> SUFFICES ASSUME Linear PROVE Fifo!Next
    BY DEF OrderInv
  <2>1. /\ Len(taken) < Len(given)
        /\ taken' = Append(taken, given[Len(taken) + 1])
        /\ given' = given
    BY <1>2, OldestRead DEF OrderInv, DeqRead
  <2> QED
    BY <2>1 DEF Fifo!Next, Fifo!Take
<1>3. CASE UNCHANGED <<given, taken>>
  BY <1>3 DEF Fifo!fifoVars
<1>4. \/ \E p \in Producers : EnqTicket(p)
      \/ \E c \in Consumers : DeqRead(c)
      \/ UNCHANGED <<given, taken>>
  BY DEF Next, EnqCall, EnqReserve, EnqStep, EnqUndo, EnqWrap, EnqWrite,
     EnqPublish, DeqCall, DeqReserve, DeqStep, DeqUndo, DeqWrap, DeqTicket,
     DeqRelease, Return, vars
<1> QED
  BY <1>1, <1>2, <1>3, <1>4

(* The ring is a first-in first-out queue, for every size and any number   *)
(* of producers and of judge threads, until a producer publishes its id    *)
(* before the place of an earlier one is written: the plain reads and      *)
(* writes of the array (lines 36 and 50) never meet in one place, and the  *)
(* % size and the resets (lines 31-33 and 46-49) only go round it, however *)
(* far head and tail have run past the end.                                *)
THEOREM ImplementsJobFifo == Spec => FifoUntilOvertaken
<1>1. Init => Fifo!Init
  BY DEF Init, Fifo!Init
<1>2. OrderInv /\ [Next]_vars => [overtaken \/ Fifo!Next]_(Fifo!fifoVars)
  BY FifoStep
<1> QED
  BY <1>1, <1>2, OrderInductive, PTL DEF Spec, FifoUntilOvertaken
=============================================================================
