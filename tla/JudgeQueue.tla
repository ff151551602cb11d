----------------------------- MODULE JudgeQueue -----------------------------
(***************************************************************************)
(* judge_queue<size> of src/src/judge/exec_judge.hpp: the lock-free ring   *)
(* of submission ids between the HTTP threads, which enque, and the judge  *)
(* threads, which deque.  Every access to an atomic, and the plain access  *)
(* to the array, is a step of its own, so that two calls interleave the    *)
(* way two threads do.                                                     *)
(*                                                                         *)
(* Two counters act as semaphores: writeableCnt counts the places a        *)
(* producer may still claim and readableCnt the ids a consumer may claim.  *)
(* head and tail only say which place a claim gets.                        *)
(*                                                                         *)
(* The variables offered, given, taken and overtaken are history: only     *)
(* EnqCall reads one of them.  A definition marked "mutant" is a plausible *)
(* mistake in the one that follows it, used to show that the properties    *)
(* notice it.                                                              *)
(***************************************************************************)
EXTENDS Integers, Sequences, FiniteSets

CONSTANTS Size,       \* the template parameter of judge_queue
          Producers,  \* the threads that call enque
          Consumers,  \* the threads that call deque
          Ids         \* the ids a caller may put in

(* The array is part of an object of static storage duration, so its       *)
(* elements are 0 before the first write: 0 must be an id.                 *)
ASSUME QueueAssumption ==
  /\ Size \in Nat \ {0}
  /\ IsFiniteSet(Producers)
  /\ IsFiniteSet(Consumers)
  /\ Producers \cap Consumers = {}
  /\ Ids \subseteq Nat
  /\ 0 \in Ids

VARIABLES
  q,             \* the array
  head, tail,    \* the next place to read and the next place to write
  readableCnt,
  writeableCnt,
  qpc,           \* where each thread is inside enque or deque
  qid,           \* the parameter id of enque, and the *id of deque
  qpos,          \* the local pos of the call
  offered,       \* the ids passed to enque so far
  given,         \* the ids that got a place, in the order of the tickets
  taken,         \* the values deque has read, in order
  overtaken      \* whether an id was published while the place of one
                 \* given earlier was not written yet

ring     == <<q, head, tail>>
counters == <<readableCnt, writeableCnt>>
locals   == <<qpc, qid, qpos>>
history  == <<offered, given, taken, overtaken>>
vars     == <<ring, counters, locals, history>>

Threads == Producers \cup Consumers
Places  == 0..(Size - 1)

EnqSteps == {"e_undo", "e_wrap", "e_ticket", "e_write", "e_publish"}
DeqSteps == {"d_undo", "d_wrap", "d_ticket", "d_read", "d_release"}
Results  == {"e_true", "e_false", "d_true", "d_false"}
PC       == {"idle"} \cup EnqSteps \cup DeqSteps \cup Results

(* The number of threads whose next step is one of the steps S. *)
N(S) == Cardinality({t \in Threads : qpc[t] \in S})

Goto(t, from, to) ==
  /\ qpc[t] = from
  /\ qpc' = [qpc EXCEPT ![t] = to]

Init ==
  /\ q = [i \in Places |-> 0]
  /\ head = 0
  /\ tail = 0
  /\ readableCnt = 0
  /\ writeableCnt = Size
  /\ qpc = [t \in Threads |-> "idle"]
  /\ qid = [t \in Threads |-> 0]
  /\ qpos = [t \in Threads |-> 0]
  /\ offered = {}
  /\ given = <<>>
  /\ taken = <<>>
  /\ overtaken = FALSE

-----------------------------------------------------------------------------
(* enque(id) *)

(* writeableCnt.fetch_sub(1) <= 0 decides whether there is a place; the    *)
(* counter is decremented in both cases.                                   *)
NoPlaceLate  == writeableCnt < 0   \* mutant: one place too many
NoPlaceEarly == writeableCnt <= 1  \* mutant: the last place is never used
NoPlace      == writeableCnt <= 0

EnqReserve(p, id) ==
  /\ Goto(p, "idle", IF NoPlace THEN "e_undo" ELSE "e_wrap")
  /\ writeableCnt' = writeableCnt - 1
  /\ qid' = [qid EXCEPT ![p] = id]
  /\ offered' = offered \cup {id}
  /\ UNCHANGED <<ring, readableCnt, qpos, given, taken, overtaken>>

(* Mutant: the failing path forgets to take the decrement back. *)
EnqUndoLeaks(p) ==
  /\ Goto(p, "e_undo", "e_false")
  /\ UNCHANGED <<ring, counters, qid, qpos, history>>

(* No place: the decrement is taken back and enque returns false. *)
EnqUndo(p) ==
  /\ Goto(p, "e_undo", "e_false")
  /\ writeableCnt' = writeableCnt + 1
  /\ UNCHANGED <<ring, readableCnt, qid, qpos, history>>

(* compare_exchange_strong(m, 0) with m = size: an index that has run off  *)
(* the end of the array goes back to its start, any other is left alone.   *)
WrappedEarly(index) == IF index = Size - 1 THEN 0 ELSE index  \* mutant
Wrapped(index) == IF index = Size THEN 0 ELSE index

EnqWrap(p) ==
  /\ Goto(p, "e_wrap", "e_ticket")
  /\ tail' = Wrapped(tail)
  /\ UNCHANGED <<q, head, counters, qid, qpos, history>>

(* The % size of both calls: two producers may push tail past the end. *)
UnreducedPlace(index) == index  \* mutant: the reset is trusted
Place(index) == index % Size

(* pos = tail.fetch_add(1) % size *)
EnqTicket(p) ==
  /\ Goto(p, "e_ticket", "e_write")
  /\ qpos' = [qpos EXCEPT ![p] = Place(tail)]
  /\ tail' = tail + 1
  /\ given' = Append(given, qid[p])
  /\ UNCHANGED <<q, head, counters, qid, offered, taken, overtaken>>

(* q[pos] = id, a plain write *)
EnqWrite(p) ==
  /\ Goto(p, "e_write", "e_publish")
  /\ q' = [q EXCEPT ![qpos[p]] = qid[p]]
  /\ UNCHANGED <<head, tail, counters, qid, qpos, history>>

(* Another producer has an earlier ticket and has not written its id.      *)
Before(a, b) ==
  \E j, k \in 1..Len(given) : j < k /\ given[j] = a /\ given[k] = b

Overtakes(p) ==
  \E r \in Producers : qpc[r] = "e_write" /\ Before(qid[r], qid[p])

(* readableCnt.fetch_add(1): one more id may be read, the oldest one and   *)
(* not the one this call has written; enque returns true.                  *)
EnqPublish(p) ==
  /\ Goto(p, "e_publish", "e_true")
  /\ readableCnt' = readableCnt + 1
  /\ overtaken' = (overtaken \/ Overtakes(p))
  /\ UNCHANGED <<ring, writeableCnt, qid, qpos, offered, given, taken>>

-----------------------------------------------------------------------------
(* deque(&id) *)

(* readableCnt.fetch_sub(1) <= 0 decides whether there is an id. *)
NoIdLate  == readableCnt < 0   \* mutant: one id too many
NoIdEarly == readableCnt <= 1  \* mutant: the last id is left behind
NoId      == readableCnt <= 0

DeqReserve(c) ==
  /\ Goto(c, "idle", IF NoId THEN "d_undo" ELSE "d_wrap")
  /\ readableCnt' = readableCnt - 1
  /\ UNCHANGED <<ring, writeableCnt, qid, qpos, history>>

(* Nothing to read: the decrement is taken back and deque returns false. *)
DeqUndo(c) ==
  /\ Goto(c, "d_undo", "d_false")
  /\ readableCnt' = readableCnt + 1
  /\ UNCHANGED <<ring, writeableCnt, qid, qpos, history>>

DeqWrap(c) ==
  /\ Goto(c, "d_wrap", "d_ticket")
  /\ head' = Wrapped(head)
  /\ UNCHANGED <<q, tail, counters, qid, qpos, history>>

(* pos = head.fetch_add(1) % size *)
DeqTicket(c) ==
  /\ Goto(c, "d_ticket", "d_read")
  /\ qpos' = [qpos EXCEPT ![c] = Place(head)]
  /\ head' = head + 1
  /\ UNCHANGED <<q, tail, counters, qid, history>>

(* *id = q[pos], a plain read *)
DeqRead(c) ==
  /\ Goto(c, "d_read", "d_release")
  /\ qid' = [qid EXCEPT ![c] = q[qpos[c]]]
  /\ taken' = Append(taken, q[qpos[c]])
  /\ UNCHANGED <<ring, counters, qpos, offered, given, overtaken>>

(* writeableCnt.fetch_add(1): the place may be reused; deque returns true. *)
DeqRelease(c) ==
  /\ Goto(c, "d_release", "d_true")
  /\ writeableCnt' = writeableCnt + 1
  /\ UNCHANGED <<ring, readableCnt, qid, qpos, history>>

-----------------------------------------------------------------------------
(* The call returns and its locals are gone. *)
Return(t) ==
  /\ qpc[t] \in Results
  /\ qpc' = [qpc EXCEPT ![t] = "idle"]
  /\ qid' = [qid EXCEPT ![t] = 0]
  /\ qpos' = [qpos EXCEPT ![t] = 0]
  /\ UNCHANGED <<ring, counters, history>>

(* JudgeWorker passes each id to enque once, when it has just been issued. *)
EnqCall(p, id) ==
  /\ id \notin offered
  /\ EnqReserve(p, id)

(* deque is only called from the wait predicate, under JudgeWorker::_lock. *)
DeqCall(c) ==
  /\ \A d \in Consumers : qpc[d] = "idle"
  /\ DeqReserve(c)

EnqStep(p) ==
  \/ EnqUndo(p)
  \/ EnqWrap(p)
  \/ EnqTicket(p)
  \/ EnqWrite(p)
  \/ EnqPublish(p)

DeqStep(c) ==
  \/ DeqUndo(c)
  \/ DeqWrap(c)
  \/ DeqTicket(c)
  \/ DeqRead(c)
  \/ DeqRelease(c)

Next ==
  \/ \E p \in Producers : EnqStep(p) \/ \E id \in Ids : EnqCall(p, id)
  \/ \E c \in Consumers : DeqStep(c) \/ DeqCall(c)
  \/ \E t \in Threads : Return(t)

Spec == Init /\ [][Next]_vars

-----------------------------------------------------------------------------
(* Type correctness: an index computed from head or tail is inside the     *)
(* array, the counters are integers and every id in the ring is an id.     *)
TypeOK ==
  /\ q \in [Places -> Ids]
  /\ head \in Nat
  /\ tail \in Nat
  /\ readableCnt \in Int
  /\ writeableCnt \in Int
  /\ qpc \in [Threads -> PC]
  /\ qid \in [Threads -> Ids]
  /\ qpos \in [Threads -> Places]
  /\ offered \subseteq Ids
  /\ given \in Seq(Ids)
  /\ taken \in Seq(Ids)
  /\ overtaken \in BOOLEAN

(* The ids that have a place and whose place has not been given back.      *)
Outstanding == Len(given) - Len(taken)

(* The two counters are exact at every instant: what they differ from the  *)
(* number of ids in the ring is accounted for by the threads inside a      *)
(* call, so a failed or a finished call leaves no permit lost or invented, *)
(* whatever the interleaving (lines 27-28, 38, 42-43 and 52).              *)
WriteableExact ==
  writeableCnt = Size - Outstanding - N({"e_undo", "e_wrap", "e_ticket"})
                                    - N({"d_release"})

ReadableExact ==
  readableCnt = Outstanding - N({"e_write", "e_publish"})
                            - N({"d_undo", "d_wrap", "d_ticket", "d_read"})

SemaphoresExact == WriteableExact /\ ReadableExact

(* The ring never holds more ids than it has places and deque never hands  *)
(* out more ids than enque has taken in, although every caller decrements  *)
(* the counter before it looks at it (lines 27 and 42).                    *)
CapacityRespected == Outstanding \in 0..Size

(* deque returns false, and its caller goes to sleep, only if every id     *)
(* that was published had already been handed out (line 42).               *)
FalseMeansDrained ==
  [][\A c \in Consumers :
       (qpc[c] = "idle" /\ qpc'[c] = "d_undo")
          => Outstanding = N({"e_write", "e_publish"})]_vars

(* enque returns false, and JudgeWorker::enque then drops the job, only if *)
(* the ids in the ring, the places that consumers are about to give back   *)
(* and the callers of enque that have decremented writeableCnt, but have   *)
(* no ticket, make up the whole ring (line 27).  A refused caller that has *)
(* not taken its decrement back is one of these: only it, and for two      *)
(* steps, makes enque refuse the next caller while a place is free.        *)
FalseMeansFull ==
  [][\A p \in Producers :
       (qpc[p] = "idle" /\ qpc'[p] = "e_undo")
          => Outstanding + N({"d_release"}) + N({"e_undo", "e_wrap", "e_ticket"})
               >= Size]_vars

(* The ring is a first-in first-out queue for any number of producers      *)
(* until one of them publishes its id before the place of an earlier one   *)
(* is written: until then the unsynchronised array (lines 36 and 50) never *)
(* shows deque a place that has not been written yet or that has been      *)
(* overwritten already.                                                    *)
Fifo == INSTANCE JobFifo
FifoUntilOvertaken ==
  Fifo!Init /\ [][overtaken \/ Fifo!Next]_(Fifo!fifoVars)

(* "The judge queue, in and out, holds the code waiting to be judged"      *)
(* (line 20): what deque hands out was put in, and comes out once.         *)
EachJobHandedOutOnce ==
  \A i \in 1..Len(taken) :
    /\ \E k \in 1..Len(given) : taken[i] = given[k]
    /\ \A j \in 1..Len(taken) : taken[i] = taken[j] => i = j
=============================================================================
