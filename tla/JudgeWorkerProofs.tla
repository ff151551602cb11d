------------------------- MODULE JudgeWorkerProofs -------------------------
(***************************************************************************)
(* What holds of JudgeWorker with its ring and its store, for any number   *)
(* of threads, submissions and slots.                                      *)
(*                                                                         *)
(* The two components are used as they are proved: JQP and MQP are their   *)
(* proof modules with the constants and variables JudgeWorker gives them,  *)
(* and every step of JudgeWorker is a step or a stutter of each            *)
(* (RingStep, StoreStep), so their invariants hold here.  What is added is *)
(* how a slot moves: from the store to the thread that was issued it, from *)
(* there to the ring, from the ring to a judge thread.                     *)
(***************************************************************************)
EXTENDS JudgeWorker, TLAPS

JQP == INSTANCE JudgeQueueProofs WITH
         Size <- JqSize, Producers <- HttpThreads, Consumers <- Workers,
         Ids <- 0..(JsqSize - 1), head <- qhead, tail <- qtail

MQP == INSTANCE MsgQueueProofs WITH
         Size <- JsqSize, Threads <- HttpThreads, head <- mhead

-----------------------------------------------------------------------------
(* The proof modules speak of the components JudgeWorker has: the same     *)
(* definitions with the same substitutions.                                *)
LEMMA RingAssumed == JQP!QueueAssumption
<1>1. 0..(JsqSize - 1) \subseteq Nat /\ 0 \in 0..(JsqSize - 1)
  BY JudgeWorkerAssumption
<1> QED
  BY <1>1, JudgeWorkerAssumption
  DEF JQP!QueueAssumption, JQP!IsFiniteSet, IsFiniteSet

LEMMA StoreAssumed == MQP!MsgQueueAssumption
  BY JudgeWorkerAssumption
  DEF MQP!MsgQueueAssumption, MQP!IsFiniteSet, IsFiniteSet

LEMMA RingInit == JQ!Init <=> JQP!Init
  BY DEF JQ!Init, JQP!Init, JQ!Threads, JQP!Threads, JQ!Places, JQP!Places

LEMMA RingActions ==
  ASSUME NEW t, NEW id
  PROVE  /\ JQ!EnqReserve(t, id) <=> JQP!EnqReserve(t, id)
         /\ JQ!EnqStep(t) <=> JQP!EnqStep(t)
         /\ JQ!DeqReserve(t) <=> JQP!DeqReserve(t)
         /\ JQ!DeqStep(t) <=> JQP!DeqStep(t)
         /\ JQ!Return(t) <=> JQP!Return(t)
<1> USE DEF JQ!Goto, JQP!Goto, JQ!ring, JQP!ring, JQ!counters, JQP!counters,
            JQ!locals, JQP!locals, JQ!history, JQP!history
<1>1. JQ!EnqReserve(t, id) <=> JQP!EnqReserve(t, id)
  BY DEF JQ!EnqReserve, JQP!EnqReserve, JQ!NoPlace, JQP!NoPlace
<1>2. JQ!EnqStep(t) <=> JQP!EnqStep(t)
  BY DEF JQ!EnqStep, JQP!EnqStep, JQ!EnqUndo, JQP!EnqUndo, JQ!EnqWrap,
         JQP!EnqWrap, JQ!EnqTicket, JQP!EnqTicket, JQ!EnqWrite, JQP!EnqWrite,
         JQ!EnqPublish, JQP!EnqPublish, JQ!Wrapped, JQP!Wrapped, JQ!Place,
         JQP!Place, JQ!Overtakes, JQP!Overtakes, JQ!Before, JQP!Before
<1>3. JQ!DeqReserve(t) <=> JQP!DeqReserve(t)
  BY DEF JQ!DeqReserve, JQP!DeqReserve, JQ!NoId, JQP!NoId
<1>4. JQ!DeqStep(t) <=> JQP!DeqStep(t)
  BY DEF JQ!DeqStep, JQP!DeqStep, JQ!DeqUndo, JQP!DeqUndo, JQ!DeqWrap,
         JQP!DeqWrap, JQ!DeqTicket, JQP!DeqTicket, JQ!DeqRead, JQP!DeqRead,
         JQ!DeqRelease, JQP!DeqRelease, JQ!Wrapped, JQP!Wrapped, JQ!Place,
         JQP!Place
<1>5. JQ!Return(t) <=> JQP!Return(t)
  BY DEF JQ!Return, JQP!Return, JQ!Results, JQP!Results
<1> QED
  BY <1>1, <1>2, <1>3, <1>4, <1>5

LEMMA RingNext == [JQ!Next]_(JQ!vars) <=> [JQP!Next]_(JQP!vars)
<1>1. JQ!Next <=> JQP!Next
  BY RingActions DEF JQ!Next, JQP!Next, JQ!EnqCall, JQP!EnqCall, JQ!DeqCall,
     JQP!DeqCall, JQ!Threads, JQP!Threads
<1>2. JQ!vars = JQP!vars /\ JQ!vars' = JQP!vars'
  BY DEF JQ!vars, JQP!vars, JQ!ring, JQP!ring, JQ!counters, JQP!counters,
         JQ!locals, JQP!locals, JQ!history, JQP!history
<1> QED
  BY <1>1, <1>2

LEMMA StoreInit == MQ!Init <=> MQP!Init
  BY DEF MQ!Init, MQP!Init, MQ!Slots, MQP!Slots

LEMMA StoreActions ==
  ASSUME NEW t, NEW s, NEW id, NEW st
  PROVE  /\ MQ!Claim(t, s) <=> MQP!Claim(t, s)
         /\ MQ!Step(t) <=> MQP!Step(t)
         /\ MQ!Return(t) <=> MQP!Return(t)
         /\ MQ!SetStatus(id, st) <=> MQP!SetStatus(id, st)
         /\ MQ!GetMsg(id) <=> MQP!GetMsg(id)
<1> USE DEF MQ!Goto, MQP!Goto, MQ!slots, MQP!slots, MQ!locals, MQP!locals
<1>1. MQ!Claim(t, s) <=> MQP!Claim(t, s)
  BY DEF MQ!Claim, MQP!Claim, MQ!Full, MQP!Full
<1>2. MQ!Step(t) <=> MQP!Step(t)
  BY DEF MQ!Step, MQP!Step, MQ!Undo, MQP!Undo, MQ!FillRequest,
         MQP!FillRequest, MQ!FillStatus, MQP!FillStatus, MQ!FillPath,
         MQP!FillPath
<1>3. MQ!Return(t) <=> MQP!Return(t)
  BY DEF MQ!Return, MQP!Return
<1>4. MQ!SetStatus(id, st) <=> MQP!SetStatus(id, st)
  BY DEF MQ!SetStatus, MQP!SetStatus
<1>5. MQ!GetMsg(id) <=> MQP!GetMsg(id)
  BY DEF MQ!GetMsg, MQP!GetMsg
<1> QED
  BY <1>1, <1>2, <1>3, <1>4, <1>5

LEMMA Names == /\ MQP!Slots = Slots /\ MQP!STATUS = MQ!STATUS
               /\ JQP!Threads = HttpThreads \cup Workers
  BY DEF MQP!Slots, Slots, MQP!STATUS, MQ!STATUS, JQP!Threads

-----------------------------------------------------------------------------
(* The invariant.  A thread is inside a call of a component only at the    *)
(* step of its own loop that makes it.                                     *)
Calls ==
  /\ \A h \in HttpThreads : hpc[h] # "issue" => mpc[h] = "idle"
  /\ \A h \in HttpThreads : hpc[h] # "queue" => qpc[h] = "idle"
  /\ \A w \in Workers : wpc[w] # "deque" => qpc[w] = "idle"

(* The slot a thread has been issued, until it is put on the ring: nobody  *)
(* else has it, and it was never on the ring.                              *)
Owns(h, i) == \/ MQP!Holds(h) /\ mpos[h] = i
              \/ hpc[h] \in {"save", "enque"} /\ hid[h] = i

Owners ==
  /\ \A h \in HttpThreads, i \in Slots : Owns(h, i) => i \notin offered
  /\ \A g, h \in HttpThreads, i \in Slots : Owns(g, i) /\ Owns(h, i) => g = h

(* It holds the submission of the thread, and what is on the ring has been *)
(* issued.                                                                 *)
Submitting == {"issue", "save", "enque", "queue", "notify"}
Contents ==
  /\ \A h \in HttpThreads : hpc[h] \in Submitting => hwho[h] \in Submissions
  /\ \A h \in HttpThreads : hpc[h] = "issue" => mwho[h] = hwho[h]
  /\ \A h \in HttpThreads : hpc[h] \in Submitting \ {"issue"} =>
       msgPath[hid[h]] = hwho[h]
  /\ \A i \in offered : i \in Slots /\ msgPath[i] # None

(* A judge thread works on an id that was offered, or on 0 when it reads a *)
(* place that is not written yet.                                          *)
Handed ==
  \A w \in Workers : wpc[w] \in Judging =>
    wid[w] \in offered \cup {0} /\ offered # {}

Parts == /\ MQP!IInv /\ MQP!IssuedOwn
         /\ JQP!IInv /\ JQP!Origin
Inv == Parts /\ TypeOK /\ Calls /\ Owners /\ Contents /\ Handed

LEMMA HandedReadable == Inv => HandedIdReadable
<1> SUFFICES ASSUME Inv, NEW w \in Workers, wpc[w] \in Judging
             PROVE  MQ!GetMsg(wid[w])
  BY DEF HandedIdReadable
<1>1. wid[w] \in offered \cup {0} /\ offered # {}
  BY DEF Inv, Handed
<1>2. \A i \in offered : MQP!GetMsg(i) /\ MQP!GetMsg(0)
  BY StoreAssumed, Names, MQP!PathBelow DEF Inv, Parts, Contents
<1> QED
  BY <1>1, <1>2, StoreActions

(* Every step is a step of the store or leaves it alone.                   *)
LEMMA StoreStep == Inv /\ [Next]_vars => [MQP!Next]_(MQP!vars)
<1> SUFFICES ASSUME Inv, [Next]_vars PROVE [MQP!Next]_(MQP!vars)
  OBVIOUS
<1>1. ASSUME UNCHANGED jsqVars PROVE UNCHANGED MQP!vars
  BY <1>1 DEF jsqVars, MQP!vars, MQP!slots, MQP!locals
<1>2. ASSUME NEW h \in HttpThreads, HttpStep(h)
      PROVE  UNCHANGED jsqVars \/ MQP!Step(h) \/ MQP!Return(h)
  BY <1>2, StoreActions DEF HttpStep, IssueStep, Issued, IssueFull, SaveFile,
     SaveFileThrows, Enque, QueueStep, Queued, Notify, PrintStatus, PrintText,
     PrintShort, CheckEnd, PrintResults, PrintTorn, Polled, Die
<1>3. ASSUME NEW h \in HttpThreads, NEW s \in Submissions,
             PostJudge(h, s) \/ PostUnsupported(h, s)
      PROVE  UNCHANGED jsqVars \/ MQP!Claim(h, s)
  BY <1>3, StoreActions DEF PostJudge, PostUnsupported
<1>4. ASSUME NEW h, NEW id, Poll(h, id) \/ PollUndefined(h, id)
      PROVE  UNCHANGED jsqVars
  BY <1>4 DEF Poll, PollUndefined, Die
<1>5. ASSUME NEW w \in Workers, WorkStep(w) \/ SpuriousWakeup(w)
      PROVE  UNCHANGED jsqVars \/ StoreStatus(w)
  BY <1>5 DEF WorkStep, Lock, DequeStep, Dequed, Sleep, Run, RunDies,
     StoreText, StoreResults, PrintVerdict, PrintNothing, SpuriousWakeup, Die
<1>6. ASSUME NEW w \in Workers, StoreStatus(w)
      PROVE  \E id \in MQP!Slots, st \in MQP!STATUS :
               MQP!GetMsg(id) /\ MQP!SetStatus(id, st)
  <2>1. wpc[w] = "status" /\ MQ!SetStatus(wid[w], wres[w].status)
    BY <1>6 DEF StoreStatus, WorkAt
  <2>2. wid[w] \in Slots /\ wres[w] \in Verdicts
    BY DEF Inv, TypeOK
  <2>3. wres[w].status \in MQ!STATUS
    BY <2>2 DEF Verdicts
  <2>4. MQ!GetMsg(wid[w])
    BY <2>1, HandedReadable DEF HandedIdReadable, Judging, WorkPC
  <2> QED
    BY <2>1, <2>2, <2>3, <2>4, StoreActions, Names
<1>7. CASE UNCHANGED vars
  BY <1>1, <1>7 DEF vars
<1> QED
  BY <1>1, <1>2, <1>3, <1>4, <1>5, <1>6, <1>7 DEF Next, MQP!Next, HttpThreads

(* The same of the ring: an id is offered once, because its thread owns    *)
(* it, and deque is called under the lock.                                 *)
LEMMA RingStep == Inv /\ [Next]_vars => [JQP!Next]_(JQP!vars)
<1> SUFFICES ASSUME Inv, [Next]_vars PROVE [JQP!Next]_(JQP!vars)
  OBVIOUS
<1>1. ASSUME UNCHANGED jqVars PROVE UNCHANGED JQP!vars
  BY <1>1 DEF jqVars, JQP!vars, JQP!ring, JQP!counters, JQP!locals, JQP!history
<1>2. ASSUME NEW h \in HttpThreads, HttpStep(h)
      PROVE  \/ UNCHANGED jqVars \/ JQP!EnqStep(h) \/ JQP!Return(h)
             \/ Enque(h)
  BY <1>2, RingActions DEF HttpStep, IssueStep, Issued, IssueFull, SaveFile,
     SaveFileThrows, QueueStep, Queued, Notify, PrintStatus, PrintText,
     PrintShort, CheckEnd, PrintResults, PrintTorn, Polled, Die
<1>3. ASSUME NEW h \in HttpThreads, Enque(h)
      PROVE  \E id \in 0..(JsqSize - 1) : JQP!EnqCall(h, id)
  <2>1. hpc[h] = "enque" /\ JQP!EnqReserve(h, hid[h])
    BY <1>3, RingActions DEF Enque, HttpAt
  <2>2. hid[h] \in Slots
    BY DEF Inv, TypeOK
  <2>3. hid[h] \notin offered
    BY <2>1, <2>2 DEF Inv, Owners, Owns
  <2> QED
    BY <2>1, <2>2, <2>3 DEF JQP!EnqCall, Slots
<1>4. ASSUME NEW h, NEW s,
             PostJudge(h, s) \/ PostUnsupported(h, s)
      PROVE  UNCHANGED jqVars
  BY <1>4 DEF PostJudge, PostUnsupported
<1>5. ASSUME NEW h, NEW id, Poll(h, id) \/ PollUndefined(h, id)
      PROVE  UNCHANGED jqVars
  BY <1>5 DEF Poll, PollUndefined, Die
<1>6. ASSUME NEW w \in Workers, WorkStep(w) \/ SpuriousWakeup(w)
      PROVE  \/ UNCHANGED jqVars \/ JQP!DeqStep(w) \/ JQP!Return(w)
             \/ JQP!DeqCall(w)
  <2>1. CASE Lock(w)
    <3>1. \A v \in Workers : qpc[v] = "idle"
      BY <2>1 DEF Lock, Unlocked, Inv, Calls
    <3> QED
      BY <2>1, <3>1, RingActions DEF Lock, JQP!DeqCall
  <2>2. CASE ~Lock(w)
    BY <1>6, <2>2, RingActions DEF WorkStep, DequeStep, Dequed, Sleep, Run,
       RunDies, StoreText, StoreResults, StoreStatus, PrintVerdict,
       PrintNothing, SpuriousWakeup, Die
  <2> QED
    BY <2>1, <2>2
<1>7. CASE UNCHANGED vars
  BY <1>1, <1>7 DEF vars
<1> QED
  BY <1>1, <1>2, <1>3, <1>4, <1>5, <1>6, <1>7
  DEF Next, JQP!Next, JQP!Threads, HttpThreads

-----------------------------------------------------------------------------
LEMMA InvInit == Init => Inv
<1> SUFFICES ASSUME Init PROVE Inv
  OBVIOUS
<1>1. JQP!Init /\ MQP!Init
  BY RingInit, StoreInit DEF Init
<1>2. Parts
  BY <1>1, RingAssumed, StoreAssumed, JQP!CountInit, JQP!OriginInit,
     MQP!InvInit, MQP!IssuedOwnInit DEF Parts
<1>3. /\ qpc = [t \in HttpThreads \cup Workers |-> "idle"] /\ offered = {}
      /\ mpc = [h \in HttpThreads |-> "idle"]
  BY <1>1, Names DEF JQP!Init, MQP!Init
<1>4. 0 \in Slots /\ NoResult \in Verdicts /\ "WAITING" \in MQ!STATUS
  BY JudgeWorkerAssumption
  DEF Slots, NoResult, Verdicts, MQ!STATUS, Texts, Results
<1>5. TypeOK
  BY <1>4 DEF Init, TypeOK, HttpPC, WorkPC, Texts, Results
<1>6. Calls /\ Contents /\ Handed
  BY <1>3 DEF Init, Calls, Contents, Handed, Submitting, Judging
<1>7. \A h \in HttpThreads : \A i : ~Owns(h, i)
  BY <1>3 DEF Init, Owns, MQP!Holds, MQP!Fills
<1> QED
  BY <1>2, <1>5, <1>6, <1>7 DEF Inv, Owners

LEMMA PartsStep == Inv /\ [Next]_vars => Parts'
<1> SUFFICES ASSUME Inv, [Next]_vars PROVE Parts'
  OBVIOUS
<1>1. [JQP!Next]_(JQP!vars) /\ [MQP!Next]_(MQP!vars)
  BY RingStep, StoreStep
<1>2. JQP!IInv' /\ JQP!Origin'
  BY <1>1, RingAssumed, JQP!TypeStep, JQP!KindStep, JQP!CountersStep,
     JQP!OriginStep DEF Inv, Parts, JQP!IInv
<1>3. MQP!IInv' /\ MQP!IssuedOwn'
  BY <1>1, StoreAssumed, MQP!InvStep, MQP!IssuedOwnStep DEF Inv, Parts
<1> QED
  BY <1>2, <1>3 DEF Parts

(* What JudgeWorker needs of the types of the two components.              *)
LEMMA PartTypes ==
  ASSUME Inv
  PROVE  /\ JQP!TypeOK /\ MQP!Types
         /\ qpc \in [HttpThreads \cup Workers -> JQP!PC]
         /\ qid \in [HttpThreads \cup Workers -> Slots]
         /\ msgStatus \in [Slots -> MQ!STATUS]
         /\ offered \subseteq Slots
         /\ \A h \in HttpThreads : MQP!Holds(h) => mpos[h] \in Slots
<1>1. JQP!TypeOK /\ MQP!IInv
  BY DEF Inv, Parts, JQP!IInv
<1>2. MQP!Types /\ \A h \in HttpThreads : MQP!Holds(h) => mpos[h] \in MQP!Slots
  BY <1>1, StoreAssumed, MQP!FillsInside DEF MQP!IInv
<1> QED
  BY <1>1, <1>2, Names DEF JQP!TypeOK, MQP!Types, Slots

LEMMA DieTypes == ASSUME TypeOK, Die PROVE TypeOK'
<1>1. alive' \in BOOLEAN
  BY DEF Die
<1> QED
  BY <1>1 DEF Die, TypeOK, msgVars, httpVars, workVars

LEMMA TypesStep == Inv /\ [Next]_vars => TypeOK'
<1> SUFFICES ASSUME Inv, [Next]_vars PROVE TypeOK'
  OBVIOUS
<1> USE DEF TypeOK, HttpAt, WorkAt, HttpPC, WorkPC, msgVars, httpVars, workVars
<1>1. TypeOK
  BY DEF Inv
<1>2. /\ 0 \in Slots /\ NoResult \in Verdicts /\ "WAITING" \in MQ!STATUS
      /\ "" \in Texts
  BY JudgeWorkerAssumption
  DEF Slots, NoResult, Verdicts, MQ!STATUS, Texts, Results
<1>3. ASSUME NEW h \in HttpThreads, HttpStep(h) PROVE TypeOK'
  <2>1. CASE IssueStep(h) \/ QueueStep(h)
    BY <1>1, <2>1 DEF IssueStep, QueueStep
  <2>2. CASE Issued(h)
    <3>1. mpos[h] \in Slots
      BY <2>2, PartTypes DEF Issued, HasId, MQP!Holds
    <3> QED
      BY <1>1, <2>2, <3>1 DEF Issued
  <2>3. CASE IssueFull(h) \/ SaveFileThrows(h)
    <3>1. hpc' = [hpc EXCEPT ![h] = "idle"] /\ Reply(h, "500")
      BY <2>3 DEF IssueFull, SaveFileThrows
    <3>2. answer' \in [Submissions -> {"none", "id", "500", "not_support_lang"}]
      BY <1>1, <3>1 DEF Reply
    <3>3. hwho' \in [HttpThreads -> Submissions \cup {None}]
      BY <1>1, <3>1 DEF Reply
    <3>4. UNCHANGED <<msgVars, workVars, alive, hstatus, htext>>
      BY <2>3 DEF IssueFull, SaveFileThrows, Reply
    <3>5. hid' \in [HttpThreads -> Slots] /\ hpc' \in [HttpThreads -> HttpPC]
      BY <1>1, <1>2, <3>1 DEF Reply
    <3> QED
      BY <1>1, <3>2, <3>3, <3>4, <3>5
  <2>4. CASE SaveFile(h)
    <3>1. /\ hpc' = [hpc EXCEPT ![h] = "enque"]
          /\ UNCHANGED <<msgText, msgResults, workVars, alive,
                         hwho, hid, hstatus, htext, answer>>
      BY <2>4 DEF SaveFile
    <3>2. msgFile' \in [Slots -> {"none", "written", "unwritten"}]
      <4>1. PICK how \in {"written", "unwritten"} : msgFile' = [msgFile EXCEPT ![hid[h]] = how]
        BY <2>4, JudgeWorkerAssumption DEF SaveFile
      <4> QED
        BY <1>1, <4>1
    <3> QED
      BY <1>1, <3>1, <3>2
  <2>11. CASE Enque(h) \/ Queued(h)
    BY <1>1, <2>11 DEF Enque, Queued
  <2>5. CASE Notify(h)
    <3>1. wpc' \in [Workers -> WorkPC]
      <4>1. wpc' = wpc \/ \E w \in Workers : wpc' = [wpc EXCEPT ![w] = "lock"]
        BY <2>5 DEF Notify, NotifyOne, Sleepers
      <4> QED
        BY <1>1, <4>1
    <3> QED
      BY <1>1, <1>2, <2>5, <3>1 DEF Notify, Reply
  <2>6. CASE PrintStatus(h)
    <3>1. msgStatus[hid[h]] \in MQ!STATUS
      BY <1>1, PartTypes
    <3> QED
      BY <1>1, <2>6, <3>1 DEF PrintStatus
  <2>9. CASE PrintText(h)
    <3>1. msgText[hid[h]] \in Texts \cup {"torn"}
      BY <1>1
    <3> QED
      BY <1>1, <2>9, <3>1 DEF PrintText
  <2>7. CASE PrintShort(h) \/ PrintResults(h)
    <3>1. hpc' = [hpc EXCEPT ![h] = "idle"] /\ Polled(h)
      BY <2>7 DEF PrintShort, PrintResults
    <3> QED
      BY <1>1, <1>2, <3>1 DEF Polled
  <2>8. CASE CheckEnd(h)
    BY <1>1, <2>8 DEF CheckEnd
  <2>10. CASE PrintTorn(h)
    BY <1>1, <2>10, DieTypes DEF PrintTorn
  <2> QED
    BY <1>3, <2>1, <2>2, <2>3, <2>4, <2>5, <2>6, <2>7, <2>8, <2>9,
       <2>10, <2>11 DEF HttpStep
<1>4. ASSUME NEW h \in HttpThreads, NEW s \in Submissions,
             PostJudge(h, s) \/ PostUnsupported(h, s)
      PROVE  TypeOK'
  <2>1. CASE PostJudge(h, s)
    BY <1>1, <2>1 DEF PostJudge
  <2>2. CASE PostUnsupported(h, s)
    BY <1>1, <2>2 DEF PostUnsupported
  <2> QED
    BY <1>4, <2>1, <2>2
<1>5. ASSUME NEW h \in HttpThreads, NEW id, Poll(h, id) \/ PollUndefined(h, id)
      PROVE  TypeOK'
  <2>1. CASE Poll(h, id)
    BY <1>1, <2>1 DEF Poll
  <2>2. CASE PollUndefined(h, id)
    BY <1>1, <2>2, DieTypes DEF PollUndefined
  <2> QED
    BY <1>5, <2>1, <2>2
<1>6. ASSUME NEW w \in Workers, WorkStep(w) \/ SpuriousWakeup(w) PROVE TypeOK'
  <2>1. CASE Lock(w) \/ DequeStep(w) \/ Sleep(w) \/ SpuriousWakeup(w) \/ StoreStatus(w)
    BY <1>1, <2>1 DEF Lock, DequeStep, Sleep, SpuriousWakeup, StoreStatus
  <2>2. CASE Dequed(w)
    <3>1. qid[w] \in Slots
      BY PartTypes
    <3> QED
      BY <1>1, <2>2, <3>1 DEF Dequed
  <2>3. CASE Run(w)
    <3>1. \A o \in OutcomesOf(wid[w]) : VerdictsOf(o) \subseteq Verdicts
      <4>1. OutcomesOf(wid[w]) \subseteq {"tests", "no_tests", "compile_error",
                                          "compile_throws", "undefined"}
        BY JudgeWorkerAssumption DEF OutcomesOf
      <4>2. {"END", "COMPILE_ERROR"} \subseteq MQ!STATUS
        BY DEF MQ!STATUS
      <4>3. VerdictsOf("tests") \subseteq Verdicts
        BY <4>2 DEF VerdictsOf, Verdicts, Texts, Results
      <4>4. VerdictsOf("no_tests") \subseteq Verdicts
        BY <4>2 DEF VerdictsOf, Verdicts, Texts, Results
      <4>5. VerdictsOf("compile_error") \subseteq Verdicts
        BY <4>2 DEF VerdictsOf, Verdicts, Texts, Results
      <4>6. VerdictsOf("undefined") = Verdicts
        BY DEF VerdictsOf
      <4>7. VerdictsOf("compile_throws") = {}
        BY DEF VerdictsOf
      <4> QED
        BY <4>1, <4>3, <4>4, <4>5, <4>6, <4>7
    <3> QED
      BY <1>1, <2>3, <3>1 DEF Run
  <2>4. CASE RunDies(w) \/ PrintNothing(w)
    BY <1>1, <2>4, DieTypes DEF RunDies, PrintNothing
  <2>5. CASE StoreText(w) \/ StoreResults(w)
    <3>1. wres[w].text \in Texts /\ wres[w].results \in Results
      BY <1>1 DEF Verdicts
    <3>2. CASE StoreText(w)
      BY <1>1, <3>1, <3>2 DEF StoreText
    <3>3. CASE StoreResults(w)
      BY <1>1, <3>1, <3>3 DEF StoreResults
    <3> QED
      BY <2>5, <3>2, <3>3
  <2>6. CASE PrintVerdict(w)
    BY <1>1, <1>2, <2>6 DEF PrintVerdict
  <2> QED
    BY <1>6, <2>1, <2>2, <2>3, <2>4, <2>5, <2>6 DEF WorkStep
<1>7. CASE UNCHANGED vars
  BY <1>1, <1>7 DEF vars
<1> QED
  BY <1>3, <1>4, <1>5, <1>6, <1>7 DEF Next, HttpThreads

-----------------------------------------------------------------------------
(* A step of a thread leaves what the others do alone; notify_one and a    *)
(* spurious wakeup move a judge thread that is asleep.                     *)
SameHttp(g) == /\ hpc'[g] = hpc[g] /\ hwho'[g] = hwho[g] /\ hid'[g] = hid[g]
               /\ mpc'[g] = mpc[g] /\ mpos'[g] = mpos[g] /\ mwho'[g] = mwho[g]
               /\ qpc'[g] = qpc[g] /\ qid'[g] = qid[g]
               /\ hstatus'[g] = hstatus[g] /\ htext'[g] = htext[g]
SameWork(w) == /\ qpc'[w] = qpc[w] /\ qid'[w] = qid[w]
               /\ wid'[w] = wid[w] /\ wres'[w] = wres[w]
               /\ (wpc'[w] = wpc[w] \/ (wpc[w] = "asleep" /\ wpc'[w] = "lock"))

Begins(h) == \/ \E s \in Submissions : PostJudge(h, s) \/ PostUnsupported(h, s)
             \/ \E id \in PollIds : Poll(h, id) \/ PollUndefined(h, id)

LEMMA HttpFrame ==
  ASSUME Inv, NEW h \in HttpThreads, HttpStep(h) \/ Begins(h)
  PROVE  /\ \A g \in HttpThreads : g # h => SameHttp(g)
         /\ \A w \in Workers : SameWork(w)
<1>1. TypeOK /\ JQP!TypeOK /\ MQP!IInv
  BY PartTypes DEF Inv, Parts
<1>2. h \notin Workers
  BY JudgeWorkerAssumption
<1>0. HttpStep(h) \/ Begins(h)
  OBVIOUS
<1>3. /\ \A g \in HttpThreads : g # h =>
           /\ hpc'[g] = hpc[g] /\ hwho'[g] = hwho[g] /\ hid'[g] = hid[g]
           /\ hstatus'[g] = hstatus[g] /\ htext'[g] = htext[g]
      /\ wid' = wid /\ wres' = wres
  <2>1. CASE HttpStep(h)
    BY <1>1, <2>1 DEF TypeOK, HttpStep, IssueStep, Issued, IssueFull, SaveFile,
       SaveFileThrows, Enque, QueueStep, Queued, Notify, PrintStatus, PrintText,
       PrintShort, CheckEnd, PrintResults, PrintTorn, Polled, Die, Reply, HttpAt,
       httpVars, workVars
  <2>2. CASE Begins(h)
    BY <1>1, <2>2 DEF TypeOK, Begins, PostJudge, PostUnsupported, Poll,
       PollUndefined, Die, HttpAt, httpVars, workVars
  <2> QED
    BY <1>0, <2>1, <2>2
<1>4. \A g \in HttpThreads : g # h =>
        mpc'[g] = mpc[g] /\ mpos'[g] = mpos[g] /\ mwho'[g] = mwho[g]
  <2>1. \/ UNCHANGED jsqVars \/ MQP!Step(h) \/ MQP!Return(h)
        \/ \E s \in Submissions : MQP!Claim(h, s)
    BY <1>0, StoreActions DEF HttpStep, IssueStep, Issued, IssueFull, SaveFile,
       SaveFileThrows, Enque, QueueStep, Queued, Notify, PrintStatus, PrintText,
       PrintShort, CheckEnd, PrintResults, PrintTorn, Polled, Die,
       Begins, PostJudge, PostUnsupported, Poll, PollUndefined
  <2>2. CASE UNCHANGED jsqVars
    BY <2>2 DEF jsqVars
  <2>3. CASE MQP!Step(h)
    BY <1>1, <2>3, StoreAssumed, MQP!StepFrame
  <2>4. CASE MQP!Return(h)
    BY <1>1, <2>4, StoreAssumed, MQP!ReturnFrame
  <2>5. CASE \E s \in Submissions : MQP!Claim(h, s)
    BY <1>1, <2>5, StoreAssumed, MQP!ClaimFrame
  <2> QED
    BY <2>1, <2>2, <2>3, <2>4, <2>5
<1>5. \A t \in HttpThreads \cup Workers : t # h =>
        qpc'[t] = qpc[t] /\ qid'[t] = qid[t]
  <2>1. \/ UNCHANGED jqVars \/ JQP!EnqStep(h) \/ JQP!Return(h)
        \/ JQP!EnqReserve(h, hid[h])
    BY <1>0, RingActions DEF HttpStep, IssueStep, Issued, IssueFull, SaveFile,
       SaveFileThrows, Enque, QueueStep, Queued, Notify, PrintStatus, PrintText,
       PrintShort, CheckEnd, PrintResults, PrintTorn, Polled, Die,
       Begins, PostJudge, PostUnsupported, Poll, PollUndefined
  <2>2. CASE UNCHANGED jqVars
    BY <2>2 DEF jqVars
  <2>3. JQP!Moved(h) => \A t \in HttpThreads \cup Workers : t # h =>
          qpc'[t] = qpc[t] /\ qid'[t] = qid[t]
    BY Names DEF JQP!Moved
  <2>4. CASE JQP!EnqStep(h)
    BY <1>1, <2>3, <2>4, RingAssumed, JQP!EnqFrame
  <2>5. CASE JQP!Return(h)
    BY <1>1, <2>3, <2>5, RingAssumed, Names, JQP!ReturnFrame
  <2>6. CASE JQP!EnqReserve(h, hid[h])
    BY <1>1, <2>3, <2>6, RingAssumed, JQP!ReserveFrame
  <2> QED
    BY <2>1, <2>2, <2>4, <2>5, <2>6
<1>6. \A w \in Workers : (wpc'[w] = wpc[w] \/ (wpc[w] = "asleep" /\ wpc'[w] = "lock"))
  <2>1. CASE Notify(h)
    <3>1. wpc' = wpc \/ \E v \in Workers :
             wpc[v] = "asleep" /\ wpc' = [wpc EXCEPT ![v] = "lock"]
      BY <2>1 DEF Notify, NotifyOne, Sleepers
    <3> QED
      BY <1>1, <3>1 DEF TypeOK
  <2>2. CASE ~Notify(h)
    BY <1>0, <2>2 DEF HttpStep, IssueStep, Issued, IssueFull, SaveFile,
       SaveFileThrows, Enque, QueueStep, Queued, PrintStatus, PrintText,
       PrintShort, CheckEnd, PrintResults, PrintTorn, Polled, Die,
       Begins, PostJudge, PostUnsupported, Poll, PollUndefined, workVars
  <2> QED
    BY <2>1, <2>2
<1> QED
  BY <1>2, <1>3, <1>4, <1>5, <1>6 DEF SameHttp, SameWork

LEMMA WorkFrame ==
  ASSUME Inv, NEW w \in Workers, WorkStep(w) \/ SpuriousWakeup(w)
  PROVE  /\ \A h \in HttpThreads : SameHttp(h)
         /\ \A v \in Workers : v # w => SameWork(v)
         /\ offered' = offered /\ msgPath' = msgPath /\ answer' = answer
<1>1. TypeOK /\ JQP!TypeOK /\ \A h \in HttpThreads : h # w
  BY PartTypes, JudgeWorkerAssumption DEF Inv, Parts
<1>2. UNCHANGED <<httpVars, mpc, mpos, mwho, msgPath>>
  BY <1>1 DEF WorkStep, Lock, DequeStep, Dequed, Sleep, Run, RunDies,
     StoreText, StoreResults, StoreStatus, PrintVerdict, PrintNothing,
     SpuriousWakeup, Die, jsqVars, MQ!SetStatus, MQ!locals
<1>3. \A v \in Workers : v # w =>
        wpc'[v] = wpc[v] /\ wid'[v] = wid[v] /\ wres'[v] = wres[v]
  BY <1>1 DEF TypeOK, WorkStep, Lock, DequeStep, Dequed, Sleep, Run, RunDies,
     StoreText, StoreResults, StoreStatus, PrintVerdict, PrintNothing,
     SpuriousWakeup, Die, WorkAt, workVars
<1>4. /\ \A t \in HttpThreads \cup Workers : t # w =>
           qpc'[t] = qpc[t] /\ qid'[t] = qid[t]
      /\ offered' = offered
  <2>1. UNCHANGED jqVars \/ JQP!DeqReserve(w) \/ JQP!DeqStep(w) \/ JQP!Return(w)
    BY RingActions DEF WorkStep, Lock, DequeStep, Dequed, Sleep, Run,
       RunDies, StoreText, StoreResults, StoreStatus, PrintVerdict,
       PrintNothing, SpuriousWakeup, Die
  <2>2. CASE UNCHANGED jqVars
    BY <2>2 DEF jqVars
  <2>3. JQP!Moved(w) => \A t \in HttpThreads \cup Workers : t # w =>
          qpc'[t] = qpc[t] /\ qid'[t] = qid[t]
    BY Names DEF JQP!Moved
  <2>4. CASE JQP!DeqReserve(w) \/ JQP!DeqStep(w)
    BY <1>1, <2>3, <2>4, RingAssumed, JQP!DeqFrame
  <2>5. CASE JQP!Return(w)
    BY <1>1, <2>3, <2>5, RingAssumed, Names, JQP!ReturnFrame
  <2> QED
    BY <2>1, <2>2, <2>4, <2>5
<1>5. UNCHANGED <<hpc, hwho, hid, hstatus, htext, answer>>
  BY <1>2 DEF httpVars
<1> QED
  BY <1>1, <1>2, <1>3, <1>4, <1>5 DEF SameHttp, SameWork

-----------------------------------------------------------------------------
LEMMA CallsStep == Inv /\ [Next]_vars => Calls'
<1> SUFFICES ASSUME Inv, [Next]_vars PROVE Calls'
  OBVIOUS
<1>1. TypeOK /\ Calls /\ JQP!TypeOK /\ MQP!IInv
  BY PartTypes DEF Inv, Parts
<1> DEFINE CallsOf(h) == /\ hpc[h] # "issue" => mpc[h] = "idle"
                         /\ hpc[h] # "queue" => qpc[h] = "idle"
<1>2. /\ \A h \in HttpThreads : CallsOf(h)
      /\ \A w \in Workers : wpc[w] # "deque" => qpc[w] = "idle"
  BY <1>1 DEF Calls
<1>3. ASSUME NEW h \in HttpThreads, HttpStep(h) \/ Begins(h) PROVE Calls'
  <2>1. /\ \A g \in HttpThreads : g # h => SameHttp(g)
        /\ \A w \in Workers : SameWork(w)
    BY <1>3, HttpFrame
  <2>2. CallsOf(h)'
    <3> USE DEF HttpAt, TypeOK
    <3>1. CASE IssueStep(h)
      <4>1. mpc[h] # "idle" /\ UNCHANGED <<hpc, qpc>>
        BY <1>1, <3>1, StoreActions, StoreAssumed, MQP!StepFrame
        DEF IssueStep, httpVars, jqVars
      <4> QED
        BY <1>2, <4>1
    <3>2. CASE Issued(h) \/ IssueFull(h)
      <4>1. mpc'[h] = "idle" /\ UNCHANGED qpc /\ hpc[h] = "issue" /\ hpc'[h] # "queue"
        BY <1>1, <3>2, StoreActions, StoreAssumed, MQP!ReturnFrame
        DEF Issued, IssueFull, jqVars
      <4> QED
        BY <1>2, <4>1
    <3>3. CASE Enque(h)
      <4>1. hpc[h] = "enque" /\ hpc'[h] = "queue" /\ UNCHANGED mpc
        BY <1>1, <3>3 DEF Enque, jsqVars
      <4> QED
        BY <1>2, <4>1
    <3>4. CASE QueueStep(h)
      <4>1. qpc[h] # "idle" /\ UNCHANGED <<hpc, mpc>>
        BY <1>1, <3>4, RingActions, RingAssumed, JQP!EnqFrame
        DEF QueueStep, httpVars, jsqVars
      <4> QED
        BY <1>2, <4>1
    <3>5. CASE Queued(h)
      <4>1. hpc[h] = "queue" /\ hpc'[h] = "notify" /\ UNCHANGED mpc
        BY <1>1, <3>5 DEF Queued, jsqVars
      <4>2. qpc'[h] = "idle"
        BY <1>1, <3>5, RingActions, RingAssumed, Names, JQP!ReturnFrame DEF Queued
      <4> QED
        BY <1>2, <4>1, <4>2
    <3>6. CASE \E s \in Submissions : PostJudge(h, s)
      <4>1. hpc[h] = "idle" /\ hpc'[h] = "issue" /\ UNCHANGED qpc
        BY <1>1, <3>6 DEF PostJudge, jqVars
      <4> QED
        BY <1>2, <4>1
    <3>7. CASE \/ SaveFile(h) \/ SaveFileThrows(h) \/ Notify(h)
               \/ PrintStatus(h) \/ PrintText(h) \/ PrintShort(h)
               \/ CheckEnd(h) \/ PrintResults(h)
               \/ \E id \in PollIds : Poll(h, id)
      <4>1. /\ hpc[h] \notin {"issue", "queue"} /\ hpc'[h] \notin {"issue", "queue"}
            /\ UNCHANGED <<mpc, qpc>>
        BY <1>1, <3>7 DEF SaveFile, SaveFileThrows, Notify, PrintStatus,
           PrintText, PrintShort, CheckEnd, PrintResults, Poll, jsqVars, jqVars,
           Polled
      <4> QED
        BY <1>2, <4>1
    <3>8. CASE \/ PrintTorn(h)
               \/ \E s \in Submissions : PostUnsupported(h, s)
               \/ \E id \in PollIds : PollUndefined(h, id)
      <4>1. UNCHANGED <<hpc, mpc, qpc>>
        BY <3>8 DEF PrintTorn, PostUnsupported, PollUndefined, Die, httpVars,
           jsqVars, jqVars
      <4> QED
        BY <1>2, <4>1
    <3> QED
      BY <1>3, <3>1, <3>2, <3>3, <3>4, <3>5, <3>6, <3>7, <3>8 DEF HttpStep, Begins
  <2>3. \A g \in HttpThreads : g # h => CallsOf(g)'
    BY <1>2, <2>1 DEF SameHttp
  <2>4. \A w \in Workers : wpc'[w] # "deque" => qpc'[w] = "idle"
    BY <1>2, <2>1 DEF SameWork
  <2> QED
    BY <2>2, <2>3, <2>4 DEF Calls
<1>4. ASSUME NEW w \in Workers, WorkStep(w) \/ SpuriousWakeup(w) PROVE Calls'
  <2>1. /\ \A h \in HttpThreads : SameHttp(h)
        /\ \A v \in Workers : v # w => SameWork(v)
    BY <1>4, WorkFrame
  <2>2. wpc'[w] # "deque" => qpc'[w] = "idle"
    <3> USE DEF WorkAt, TypeOK
    <3>1. CASE Lock(w)
      BY <1>1, <3>1 DEF Lock
    <3>2. CASE DequeStep(w)
      <4>1. qpc[w] # "idle" /\ UNCHANGED wpc
        BY <3>2, RingActions, RingAssumed, JQP!DeqStepFrame DEF DequeStep, workVars
      <4> QED
        BY <1>2, <4>1
    <3>3. CASE Dequed(w) \/ Sleep(w)
      BY <1>1, <3>3, RingActions, RingAssumed, Names, JQP!ReturnFrame DEF Dequed, Sleep
    <3>4. CASE \/ Run(w) \/ StoreText(w) \/ StoreResults(w) \/ StoreStatus(w)
               \/ PrintVerdict(w) \/ SpuriousWakeup(w)
      <4>1. wpc[w] # "deque" /\ UNCHANGED qpc
        BY <1>1, <3>4 DEF Run, StoreText, StoreResults, StoreStatus, PrintVerdict,
           SpuriousWakeup, jqVars
      <4> QED
        BY <1>2, <4>1
    <3>5. CASE RunDies(w) \/ PrintNothing(w)
      <4>1. UNCHANGED <<wpc, qpc>>
        BY <3>5 DEF RunDies, PrintNothing, Die, workVars, jqVars
      <4> QED
        BY <1>2, <4>1
    <3> QED
      BY <1>4, <3>1, <3>2, <3>3, <3>4, <3>5 DEF WorkStep
  <2>3. \A h \in HttpThreads : CallsOf(h)'
    BY <1>2, <2>1 DEF SameHttp
  <2>4. \A v \in Workers : v # w => (wpc'[v] # "deque" => qpc'[v] = "idle")
    BY <1>2, <2>1 DEF SameWork
  <2> QED
    BY <2>2, <2>3, <2>4 DEF Calls
<1>5. CASE UNCHANGED vars
  BY <1>1, <1>5 DEF vars, jqVars, jsqVars, httpVars, workVars, Calls
<1> QED
  BY <1>3, <1>4, <1>5 DEF Next, HttpThreads, Begins

-----------------------------------------------------------------------------
(* An id is put on the ring by the thread that owns it, *)
LEMMA OfferedStep ==
  ASSUME Inv, NEW h \in HttpThreads, HttpStep(h) \/ Begins(h)
  PROVE  offered' = offered \/ (Enque(h) /\ offered' = offered \cup {hid[h]})
<1>0. HttpStep(h) \/ Begins(h)
  OBVIOUS
<1>1. JQP!TypeOK
  BY PartTypes
<1>2. \/ UNCHANGED jqVars \/ JQP!EnqStep(h) \/ JQP!Return(h)
      \/ Enque(h) /\ JQP!EnqReserve(h, hid[h])
  BY <1>0, RingActions DEF HttpStep, IssueStep, Issued, IssueFull, SaveFile,
     SaveFileThrows, Enque, QueueStep, Queued, Notify, PrintStatus, PrintText,
     PrintShort, CheckEnd, PrintResults, PrintTorn, Polled, Die,
     Begins, PostJudge, PostUnsupported, Poll, PollUndefined
<1>3. CASE UNCHANGED jqVars
  BY <1>3 DEF jqVars
<1>4. CASE JQP!EnqStep(h)
  BY <1>1, <1>4, RingAssumed, JQP!EnqFrame
<1>5. CASE JQP!Return(h)
  BY <1>1, <1>5, RingAssumed, Names, JQP!ReturnFrame
<1>6. CASE Enque(h) /\ JQP!EnqReserve(h, hid[h])
  BY <1>1, <1>6, RingAssumed, JQP!ReserveFrame
<1> QED
  BY <1>2, <1>3, <1>4, <1>5, <1>6

(* which is the one it got from the store, where it is the first that      *)
(* nobody has.                                                             *)
LEMMA OwnsStep ==
  ASSUME Inv, NEW h \in HttpThreads, HttpStep(h) \/ Begins(h), NEW i,
         Owns(h, i)'
  PROVE  /\ Owns(h, i) \/ ((\E s \in Submissions : PostJudge(h, s)) /\ i = mhead)
         /\ ~Enque(h)
<1> USE DEF HttpAt, TypeOK
<1>0. HttpStep(h) \/ Begins(h)
  OBVIOUS
<1>1. TypeOK /\ Calls /\ MQP!IInv
  BY DEF Inv, Parts
<1>2. mpc[h] = "idle" => ~MQP!Holds(h)
  BY DEF MQP!Holds, MQP!Fills
<1>3. CASE IssueStep(h)
  <2>1. UNCHANGED <<hpc, hid>> /\ ~Enque(h)
    BY <1>1, <1>3, StoreActions, StoreAssumed, MQP!StepFrame
    DEF IssueStep, httpVars, Calls, Enque
  <2>2. MQP!Holds(h)' => MQP!Holds(h) /\ mpos'[h] = mpos[h]
    BY <1>1, <1>3, StoreActions, StoreAssumed, MQP!StepFrame DEF IssueStep
  <2> QED
    BY <2>1, <2>2 DEF Owns
<1>4. CASE Issued(h)
  <2>1. /\ hpc[h] = "issue" /\ hid'[h] = mpos[h] /\ mpc[h] = "issued"
        /\ ~MQP!Holds(h)'
    BY <1>1, <1>4, StoreActions, StoreAssumed, MQP!ReturnFrame DEF Issued, HasId
  <2> QED
    BY <2>1 DEF Owns, Enque, MQP!Holds
<1>5. CASE IssueFull(h)
  <2>1. hpc'[h] = "idle" /\ ~MQP!Holds(h)'
    BY <1>1, <1>5, StoreActions, StoreAssumed, MQP!ReturnFrame DEF IssueFull
  <2> QED
    BY <2>1 DEF Owns
<1>6. CASE SaveFile(h)
  <2>1. hpc[h] = "save" /\ UNCHANGED <<hid, mpc, mpos>>
    BY <1>6 DEF SaveFile, jsqVars
  <2> QED
    BY <2>1 DEF Owns, Enque, MQP!Holds
<1>7. CASE PrintTorn(h) \/ \E id \in PollIds : PollUndefined(h, id)
  <2>1. UNCHANGED <<hpc, hid, mpc, mpos>> /\ hpc[h] # "enque"
    BY <1>7 DEF PrintTorn, PollUndefined, Die, httpVars, jsqVars
  <2> QED
    BY <2>1 DEF Owns, Enque, MQP!Holds
<1>8. CASE \E s \in Submissions : PostUnsupported(h, s)
  <2>1. UNCHANGED <<hpc, hid, mpc, mpos>> /\ hpc[h] # "enque"
    BY <1>8 DEF PostUnsupported, jsqVars
  <2> QED
    BY <2>1 DEF Owns, Enque, MQP!Holds
<1>9. CASE \E s \in Submissions : PostJudge(h, s)
  <2>1. PICK s \in Submissions : PostJudge(h, s)
    BY <1>9
  <2>2. hpc[h] = "idle" /\ hpc'[h] = "issue" /\ MQP!Claim(h, s)
    BY <1>1, <2>1, StoreActions DEF PostJudge
  <2>3. mpos'[h] = mhead
    BY <1>1, <2>2, StoreAssumed, MQP!ClaimFrame
  <2> QED
    BY <1>9, <2>2, <2>3 DEF Owns, Enque
<1>10. CASE \/ SaveFileThrows(h) \/ Enque(h) \/ Queued(h) \/ Notify(h)
            \/ PrintStatus(h) \/ PrintText(h) \/ PrintShort(h)
            \/ CheckEnd(h) \/ PrintResults(h)
            \/ \E id \in PollIds : Poll(h, id)
  <2>1. /\ hpc[h] # "issue" /\ hpc'[h] \notin {"save", "enque"}
        /\ UNCHANGED <<mpc, mpos>>
    BY <1>1, <1>10 DEF SaveFileThrows, Enque, Queued, Notify, PrintStatus,
       PrintText, PrintShort, CheckEnd, PrintResults, Poll, jsqVars, Polled
  <2>2. ~MQP!Holds(h)'
    BY <1>1, <1>2, <2>1 DEF Calls, MQP!Holds
  <2> QED
    BY <2>1, <2>2 DEF Owns
<1>11. CASE QueueStep(h)
  <2>1. UNCHANGED <<hpc, hid, mpc, mpos>>
    BY <1>11 DEF QueueStep, httpVars, jsqVars
  <2>2. qpc[h] # "idle"
    BY <1>11, PartTypes, RingActions, RingAssumed, JQP!EnqFrame DEF QueueStep
  <2> QED
    BY <1>1, <2>1, <2>2 DEF Owns, Enque, MQP!Holds, Calls
<1> QED
  BY <1>0, <1>3, <1>4, <1>5, <1>6, <1>7, <1>8, <1>9, <1>10, <1>11 DEF HttpStep, Begins

(* Slots are below head, when somebody owns them and when they were        *)
(* offered.                                                                *)
LEMMA OwnedBelow ==
  ASSUME Inv
  PROVE  /\ \A g \in HttpThreads : \A i \in Slots : Owns(g, i) => i < mhead
         /\ \A i \in offered : i < mhead
<1>1. MQP!IInv /\ TypeOK
  BY DEF Inv, Parts
<1>2. \A i \in Slots : msgPath[i] # None => i < mhead
  <2> SUFFICES ASSUME NEW i \in Slots, msgPath[i] # None PROVE i < mhead
    OBVIOUS
  <2>1. mhead > i /\ mhead \in Int /\ i \in Int
    BY <1>1, StoreAssumed, Names, MQP!PathBelow DEF MQP!IInv, MQP!Types, Slots
  <2> QED
    BY <2>1
<1>3. ASSUME NEW g \in HttpThreads, NEW i \in Slots, Owns(g, i) PROVE i < mhead
  <2>1. CASE MQP!Holds(g) /\ mpos[g] = i
    <3>1. MQP!Base <= mhead /\ MQP!Base \in Int /\ mhead \in Int /\ mpos[g] \in 0..(MQP!Base - 1)
      BY <1>1, <2>1, StoreAssumed, MQP!UndoingType, JudgeWorkerAssumption
      DEF MQP!IInv, MQP!Types, MQP!BaseOK, MQP!SlotsOK, MQP!Base
    <3> QED
      BY <2>1, <3>1
  <2>2. CASE hpc[g] \in {"save", "enque"} /\ hid[g] = i
    <3>1. msgPath[i] = hwho[g] /\ hwho[g] \in Submissions
      BY <2>2 DEF Inv, Contents, Submitting
    <3> QED
      BY <1>2, <3>1, JudgeWorkerAssumption
  <2> QED
    BY <1>3, <2>1, <2>2 DEF Owns
<1> QED
  BY <1>2, <1>3 DEF Inv, Contents

LEMMA OwnersStep == Inv /\ [Next]_vars => Owners'
<1> SUFFICES ASSUME Inv, [Next]_vars PROVE Owners'
  OBVIOUS
<1>1. Owners /\ TypeOK
  BY DEF Inv
<1>2. ASSUME NEW h \in HttpThreads, HttpStep(h) \/ Begins(h) PROVE Owners'
  <2>1. \A g \in HttpThreads : g # h => \A i : Owns(g, i)' => Owns(g, i)
    BY <1>2, HttpFrame DEF SameHttp, Owns, MQP!Holds
  <2>2. ASSUME NEW i, Owns(h, i)'
        PROVE  /\ Owns(h, i) \/ ((\E s \in Submissions : PostJudge(h, s)) /\ i = mhead)
               /\ ~Enque(h)
    BY <1>2, <2>2, OwnsStep
  <2>3. ASSUME NEW g \in HttpThreads, NEW i \in Slots, Owns(g, i)'
        PROVE  i \notin offered'
    <3>1. CASE offered' = offered
      <4>1. CASE Owns(g, i)
        BY <1>1, <3>1, <4>1 DEF Owners
      <4>2. CASE ~Owns(g, i)
        <5>1. i = mhead
          BY <2>1, <2>2, <2>3, <4>2
        <5>2. i \notin offered
          BY <5>1, OwnedBelow DEF Slots
        <5> QED
          BY <3>1, <5>2
      <4> QED
        BY <4>1, <4>2
    <3>2. CASE Enque(h) /\ offered' = offered \cup {hid[h]}
      <4>1. g # h /\ Owns(g, i)
        BY <2>1, <2>2, <2>3, <3>2
      <4>2. Owns(h, hid[h]) /\ hid[h] \in Slots
        BY <1>1, <3>2 DEF Enque, HttpAt, Owns, TypeOK
      <4> QED
        BY <1>1, <3>2, <4>1, <4>2 DEF Owners
    <3> QED
      BY <1>2, <3>1, <3>2, OfferedStep
  <2>4. ASSUME NEW f \in HttpThreads, NEW g \in HttpThreads, NEW i \in Slots,
               Owns(f, i)', Owns(g, i)'
        PROVE  f = g
    <3>1. CASE Owns(f, i) /\ Owns(g, i)
      BY <1>1, <3>1 DEF Owners
    <3>2. CASE ~(Owns(f, i) /\ Owns(g, i))
      <4>1. i = mhead /\ (~Owns(f, i) => f = h) /\ (~Owns(g, i) => g = h)
        BY <2>1, <2>2, <2>4, <3>2
      <4>2. ~Owns(f, i) /\ ~Owns(g, i)
        BY <4>1, OwnedBelow DEF Slots
      <4> QED
        BY <4>1, <4>2
    <3> QED
      BY <3>1, <3>2
  <2> QED
    BY <2>3, <2>4 DEF Owners
<1>3. ASSUME NEW w \in Workers, WorkStep(w) \/ SpuriousWakeup(w) PROVE Owners'
  BY <1>1, <1>3, WorkFrame DEF SameHttp, Owners, Owns, MQP!Holds
<1>4. CASE UNCHANGED vars
  BY <1>1, <1>4 DEF vars, jqVars, jsqVars, httpVars, Owners, Owns, MQP!Holds
<1> QED
  BY <1>2, <1>3, <1>4 DEF Next, HttpThreads, Begins

-----------------------------------------------------------------------------
(* What a slot holds stays.                                                *)
LEMMA PathKept ==
  ASSUME Inv, [Next]_vars, NEW i \in Slots, msgPath[i] # None
  PROVE  msgPath'[i] = msgPath[i]
  BY StoreAssumed, Names, StoreStep, MQP!Kept DEF Inv, Parts

LEMMA OwnContents ==
  ASSUME Inv, NEW h \in HttpThreads, HttpStep(h) \/ Begins(h),
         hpc'[h] \in Submitting
  PROVE  /\ hwho'[h] \in Submissions
         /\ hpc'[h] = "issue" => mwho'[h] = hwho'[h]
         /\ hpc'[h] # "issue" =>
              /\ hwho'[h] = hwho[h] /\ msgPath[hid'[h]] = hwho[h]
              /\ hid'[h] \in Slots
<1> USE DEF HttpAt, TypeOK
<1>0. HttpStep(h) \/ Begins(h)
  OBVIOUS
<1>1. TypeOK /\ Contents /\ MQP!IInv /\ MQP!IssuedOwn
  BY DEF Inv, Parts
<1>2. CASE IssueStep(h)
  <2>1. UNCHANGED <<hpc, hid, hwho>> /\ mwho' = mwho
    BY <1>1, <1>2, StoreActions, StoreAssumed, MQP!StepFrame DEF IssueStep, httpVars
  <2> QED
    BY <1>1, <2>1 DEF Contents, Submitting
<1>3. CASE Issued(h)
  <2>1. /\ hpc[h] = "issue" /\ hpc'[h] = "save"
        /\ hid'[h] = mpos[h] /\ mpc[h] = "issued" /\ hwho' = hwho
    BY <1>1, <1>3 DEF Issued, HasId
  <2>2. msgPath[mpos[h]] = mwho[h] /\ mpos[h] \in Slots
    BY <1>1, <2>1, PartTypes DEF MQP!IssuedOwn, MQP!Holds
  <2> QED
    BY <1>1, <2>1, <2>2 DEF Contents, Submitting
<1>4. CASE SaveFile(h) \/ Enque(h) \/ Queued(h)
  <2>1. /\ hpc[h] \in Submitting \ {"issue"} /\ hpc'[h] # "issue"
        /\ UNCHANGED <<hid, hwho>>
    BY <1>1, <1>4 DEF SaveFile, Enque, Queued, Submitting
  <2> QED
    BY <1>1, <2>1 DEF Contents, Submitting
<1>5. CASE QueueStep(h)
  <2>1. UNCHANGED <<hpc, hid, hwho, mwho>>
    BY <1>5 DEF QueueStep, httpVars, jsqVars
  <2> QED
    BY <1>1, <2>1 DEF Contents, Submitting
<1>6. CASE \E s \in Submissions : PostJudge(h, s)
  <2>1. PICK s \in Submissions : PostJudge(h, s)
    BY <1>6
  <2>2. hpc'[h] = "issue" /\ hwho'[h] = s /\ MQP!Claim(h, s)
    BY <1>1, <2>1, StoreActions DEF PostJudge
  <2>3. mwho'[h] = s
    BY <1>1, <2>2, StoreAssumed, MQP!ClaimFrame
  <2> QED
    BY <2>2, <2>3
<1>7. CASE PrintTorn(h) \/ \E id \in PollIds : PollUndefined(h, id)
  <2>1. UNCHANGED <<hpc, hid, hwho, mwho>>
    BY <1>7 DEF PrintTorn, PollUndefined, Die, httpVars, jsqVars
  <2> QED
    BY <1>1, <2>1 DEF Contents, Submitting
<1>8. CASE \E s \in Submissions : PostUnsupported(h, s)
  <2>1. UNCHANGED <<hpc, hid, hwho, mwho>>
    BY <1>8 DEF PostUnsupported, jsqVars
  <2> QED
    BY <1>1, <2>1 DEF Contents, Submitting
<1>9. CASE \/ IssueFull(h) \/ SaveFileThrows(h) \/ Notify(h) \/ PrintStatus(h)
           \/ PrintText(h) \/ PrintShort(h) \/ CheckEnd(h) \/ PrintResults(h)
           \/ \E id \in PollIds : Poll(h, id)
  <2>1. hpc'[h] \notin Submitting
    BY <1>1, <1>9 DEF IssueFull, SaveFileThrows, Notify, PrintStatus, PrintText,
       PrintShort, CheckEnd, PrintResults, Poll, Submitting, Polled
  <2> QED
    BY <2>1
<1> QED
  BY <1>0, <1>2, <1>3, <1>4, <1>5, <1>6, <1>7, <1>8, <1>9 DEF HttpStep, Begins

LEMMA ContentsStep == Inv /\ [Next]_vars => Contents'
<1> SUFFICES ASSUME Inv, [Next]_vars PROVE Contents'
  OBVIOUS
<1>1. Contents /\ TypeOK /\ None \notin Submissions
  BY JudgeWorkerAssumption DEF Inv
<1>2. \A i \in Slots : msgPath[i] # None => msgPath'[i] = msgPath[i]
  BY PathKept
(* Whoever has not moved keeps its submission and its slot.                *)
<1>3. ASSUME NEW g \in HttpThreads, SameHttp(g)
      PROVE  /\ hpc'[g] \in Submitting => hwho'[g] \in Submissions
             /\ hpc'[g] = "issue" => mwho'[g] = hwho'[g]
             /\ hpc'[g] \in Submitting \ {"issue"} => msgPath'[hid'[g]] = hwho'[g]
  <2>1. /\ hpc[g] \in Submitting => hwho[g] \in Submissions
        /\ hpc[g] = "issue" => mwho[g] = hwho[g]
        /\ hpc[g] \in Submitting \ {"issue"} => msgPath[hid[g]] = hwho[g]
        /\ hid[g] \in Slots
    BY <1>1 DEF Contents, TypeOK
  <2>2. hpc[g] \in Submitting \ {"issue"} => msgPath'[hid[g]] = hwho[g]
    BY <1>1, <1>2, <2>1
  <2> QED
    BY <1>3, <2>1, <2>2 DEF SameHttp
<1>4. ASSUME NEW i \in offered PROVE i \in Slots /\ msgPath'[i] # None
  BY <1>1, <1>2 DEF Contents
<1>5. ASSUME NEW h \in HttpThreads, HttpStep(h) \/ Begins(h) PROVE Contents'
  <2>1. \A g \in HttpThreads : g # h => SameHttp(g)
    BY <1>5, HttpFrame
  <2>2. /\ hpc'[h] \in Submitting => hwho'[h] \in Submissions
        /\ hpc'[h] = "issue" => mwho'[h] = hwho'[h]
        /\ hpc'[h] \in Submitting \ {"issue"} => msgPath'[hid'[h]] = hwho'[h]
    <3>1. CASE hpc'[h] \in Submitting
      <4>1. /\ hwho'[h] \in Submissions
            /\ hpc'[h] = "issue" => mwho'[h] = hwho'[h]
            /\ hpc'[h] # "issue" =>
                 /\ hwho'[h] = hwho[h] /\ msgPath[hid'[h]] = hwho[h]
                 /\ hid'[h] \in Slots
        BY <1>5, <3>1, OwnContents
      <4> QED
        BY <1>1, <1>2, <4>1
    <3>2. CASE hpc'[h] \notin Submitting
      BY <3>2 DEF Submitting
    <3> QED
      BY <3>1, <3>2
  <2>3. \A i \in offered' : i \in Slots /\ msgPath'[i] # None
    <3>1. CASE offered' = offered
      BY <1>4, <3>1
    <3>2. CASE Enque(h) /\ offered' = offered \cup {hid[h]}
      <4>1. hpc[h] = "enque" /\ hid[h] \in Slots
        BY <1>1, <3>2 DEF Enque, HttpAt, TypeOK
      <4>2. msgPath[hid[h]] = hwho[h] /\ hwho[h] \in Submissions
        BY <1>1, <4>1 DEF Contents, Submitting
      <4>3. msgPath'[hid[h]] # None
        BY <1>1, <1>2, <4>1, <4>2
      <4> QED
        BY <1>4, <3>2, <4>1, <4>3
    <3> QED
      BY <1>5, <3>1, <3>2, OfferedStep
  <2> QED
    BY <1>3, <2>1, <2>2, <2>3 DEF Contents
<1>6. ASSUME NEW w \in Workers, WorkStep(w) \/ SpuriousWakeup(w) PROVE Contents'
  <2>1. (\A h \in HttpThreads : SameHttp(h)) /\ offered' = offered
    BY <1>6, WorkFrame
  <2> QED
    BY <1>3, <1>4, <2>1 DEF Contents
<1>7. CASE UNCHANGED vars
  BY <1>1, <1>7 DEF vars, jqVars, jsqVars, httpVars, Contents
<1> QED
  BY <1>5, <1>6, <1>7 DEF Next, HttpThreads, Begins

LEMMA HandedStep == Inv /\ [Next]_vars => Handed'
<1> SUFFICES ASSUME Inv, [Next]_vars PROVE Handed'
  OBVIOUS
<1>1. Handed /\ TypeOK
  BY DEF Inv
<1>2. ASSUME NEW w \in Workers, SameWork(w), wpc'[w] \in Judging, offered \subseteq offered'
      PROVE  wid'[w] \in offered' \cup {0} /\ offered' # {}
  BY <1>1, <1>2 DEF SameWork, Handed, Judging
<1>3. ASSUME NEW h \in HttpThreads, HttpStep(h) \/ Begins(h) PROVE Handed'
  <2>1. \A w \in Workers : SameWork(w)
    BY <1>3, HttpFrame
  <2>2. offered \subseteq offered'
    BY <1>3, OfferedStep
  <2> QED
    BY <1>2, <2>1, <2>2 DEF Handed
<1>4. ASSUME NEW w \in Workers, WorkStep(w) \/ SpuriousWakeup(w) PROVE Handed'
  <2>1. (\A v \in Workers : v # w => SameWork(v)) /\ offered' = offered
    BY <1>4, WorkFrame
  <2>2. ASSUME wpc'[w] \in Judging PROVE wid'[w] \in offered \cup {0} /\ offered # {}
    <3> USE DEF WorkAt, TypeOK
    <3>1. CASE Dequed(w)
      <4>1. qpc[w] = "d_true" /\ wid'[w] = qid[w]
        BY <1>1, <3>1 DEF Dequed
      <4>2. qid[w] \in offered \cup {0} /\ offered # {}
        BY <4>1, Names DEF Inv, Parts, JQP!Origin, JQP!Inside
      <4> QED
        BY <4>1, <4>2
    <3>2. CASE \/ Run(w) \/ StoreText(w) \/ StoreResults(w) \/ StoreStatus(w)
      <4>1. wpc[w] \in Judging /\ wid' = wid
        BY <1>1, <3>2 DEF Run, StoreText, StoreResults, StoreStatus, Judging, WorkPC
      <4> QED
        BY <1>1, <4>1 DEF Handed
    <3>3. CASE DequeStep(w) \/ RunDies(w) \/ PrintNothing(w)
      <4>1. wpc' = wpc /\ wid' = wid
        BY <3>3 DEF DequeStep, RunDies, PrintNothing, Die, workVars
      <4> QED
        BY <1>1, <2>2, <4>1 DEF Handed
    <3>4. CASE Lock(w) \/ Sleep(w) \/ SpuriousWakeup(w) \/ PrintVerdict(w)
      <4>1. wpc'[w] \notin Judging
        BY <1>1, <3>4 DEF Lock, Sleep, SpuriousWakeup, PrintVerdict, Judging
      <4> QED
        BY <2>2, <4>1
    <3> QED
      BY <1>4, <3>1, <3>2, <3>3, <3>4 DEF WorkStep
  <2> QED
    BY <1>2, <2>1, <2>2 DEF Handed
<1>5. CASE UNCHANGED vars
  BY <1>1, <1>5 DEF vars, jqVars, workVars, Handed
<1> QED
  BY <1>3, <1>4, <1>5 DEF Next, HttpThreads, Begins

LEMMA InvStep == Inv /\ [Next]_vars => Inv'
  BY PartsStep, TypesStep, CallsStep, OwnersStep, ContentsStep, HandedStep DEF Inv

LEMMA Inductive == Spec => []Inv
  BY InvInit, InvStep, PTL DEF Spec

-----------------------------------------------------------------------------
(* Every id a thread works with is an index of the store, for any sizes    *)
(* and any number of threads.                                              *)
THEOREM TypeCorrect == Spec => []TypeOK
<1>1. Inv => TypeOK
  BY DEF Inv
<1> QED
  BY <1>1, Inductive, PTL

(* A judge thread's get_msg never throws (exec_judge.hpp, line 247),       *)
(* whatever the ring hands out.                                            *)
THEOREM HandedIdsReadable == Spec => []HandedIdReadable
  BY HandedReadable, Inductive, PTL

(* JudgeWorker calls the ring as JudgeQueue assumes: each id is offered    *)
(* once and deque is never called twice at the same time.                  *)
THEOREM UsesRing == Spec => UsesJudgeQueue
<1>1. Inv /\ [Next]_vars => [JQ!Next]_(JQ!vars)
  BY RingStep, RingNext
<1>2. Init => JQ!Init
  BY DEF Init
<1> QED
  BY <1>1, <1>2, Inductive, PTL DEF Spec, UsesJudgeQueue, JQ!Spec

-----------------------------------------------------------------------------
(* Where the ring is as large as the store, it refuses nothing (NeverRefuses *)
(* of JudgeQueueProofs), so the thread that has put an id on it knows that *)
(* the id has had its turn, until it answers.                              *)
HasTurn(i) == \E k \in 1..Len(given) : given[k] = i

Queuing ==
  /\ JQP!Room
  /\ \A h \in HttpThreads : hpc[h] = "queue" => qid[h] = hid[h]
  /\ \A h \in HttpThreads : hpc[h] = "notify" => HasTurn(hid[h])
  /\ AnsweredIsQueued

LEMMA QueuingInit == Init => Queuing
<1> SUFFICES ASSUME Init PROVE Queuing
  OBVIOUS
<1>1. JQP!Room
  BY RingInit, RingAssumed, JQP!RoomInit DEF Init
<1> QED
  BY <1>1 DEF Init, Queuing, AnsweredIsQueued

LEMMA TurnKept ==
  ASSUME Inv, [Next]_vars, NEW i, HasTurn(i)
  PROVE  HasTurn(i)'
<1>1. JQP!TypeOK /\ [JQP!Next]_(JQP!vars)
  BY PartTypes, RingStep
<1> QED
  BY <1>1, RingAssumed, JQP!GivenKept DEF HasTurn

(* The handler of the submission answers it.                               *)
LEMMA AnswerStep ==
  ASSUME Inv, NEW h \in HttpThreads, HttpStep(h) \/ Begins(h),
         NEW s \in Submissions, answer'[s] = "id"
  PROVE  answer[s] = "id" \/ (Notify(h) /\ s = hwho[h])
<1>1. TypeOK /\ (HttpStep(h) \/ Begins(h))
  BY DEF Inv
<1>2. CASE Notify(h)
  BY <1>1, <1>2 DEF Notify, Reply, TypeOK
<1>3. CASE IssueFull(h) \/ SaveFileThrows(h)
  BY <1>1, <1>3 DEF IssueFull, SaveFileThrows, Reply, TypeOK
<1>4. CASE \E r \in Submissions : PostUnsupported(h, r)
  BY <1>1, <1>4 DEF PostUnsupported, TypeOK
<1>5. CASE ~(\/ Notify(h) \/ IssueFull(h) \/ SaveFileThrows(h)
             \/ \E r \in Submissions : PostUnsupported(h, r))
  <2>1. answer' = answer
    BY <1>1, <1>5 DEF HttpStep, IssueStep, Issued, SaveFile, Enque, QueueStep,
       Queued, PrintStatus, PrintText, PrintShort, CheckEnd, PrintResults,
       PrintTorn, Polled, Die, Begins, PostJudge, Poll, PollUndefined, httpVars
  <2> QED
    BY <2>1
<1> QED
  BY <1>2, <1>3, <1>4, <1>5

(* The id of the thread is the parameter of the call it makes, and has its *)
(* turn when the call returns.                                             *)
LEMMA TurnStep ==
  ASSUME Inv, Queuing, NEW h \in HttpThreads, HttpStep(h) \/ Begins(h)
  PROVE  /\ hpc'[h] = "queue" => qid'[h] = hid'[h]
         /\ hpc'[h] = "notify" => hid'[h] = hid[h] /\ HasTurn(hid[h])
<1> USE DEF HttpAt, TypeOK
<1>0. HttpStep(h) \/ Begins(h)
  OBVIOUS
<1>1. TypeOK /\ JQP!TypeOK /\ JQP!Origin
  BY PartTypes DEF Inv, Parts
<1>2. CASE Enque(h)
  <2>1. hpc'[h] = "queue" /\ hid' = hid /\ JQP!EnqReserve(h, hid[h])
    BY <1>1, <1>2, RingActions DEF Enque
  <2>2. qid'[h] = hid[h]
    BY <1>1, <2>1, RingAssumed, JQP!ReserveFrame
  <2> QED
    BY <2>1, <2>2
<1>3. CASE QueueStep(h)
  <2>1. UNCHANGED <<hpc, hid, qid>>
    BY <1>1, <1>3, RingActions, RingAssumed, JQP!EnqFrame DEF QueueStep, httpVars
  <2> QED
    BY <2>1 DEF Queuing
<1>4. CASE Queued(h)
  <2>1. /\ hpc[h] = "queue" /\ hpc'[h] = "notify" /\ hid' = hid
        /\ qpc[h] \in {"e_true", "e_false"}
    BY <1>1, <1>4 DEF Queued
  <2>2. qpc[h] = "e_true" /\ qid[h] = hid[h]
    BY <2>1 DEF Queuing, JQP!Room
  <2>3. \E k \in 1..Len(given) : given[k] = qid[h]
    BY <1>1, <2>2 DEF JQP!Origin, JQP!Placed
  <2> QED
    BY <2>1, <2>2, <2>3 DEF HasTurn
<1>5. CASE \/ IssueStep(h) \/ PrintTorn(h)
           \/ \E s \in Submissions : PostUnsupported(h, s)
           \/ \E id \in PollIds : PollUndefined(h, id)
  <2>1. UNCHANGED <<hpc, hid, qid>>
    BY <1>5 DEF IssueStep, PrintTorn, PostUnsupported, PollUndefined, Die,
       httpVars, jqVars
  <2> QED
    BY <2>1 DEF Queuing
<1>6. CASE \/ Issued(h) \/ IssueFull(h) \/ SaveFile(h) \/ SaveFileThrows(h)
           \/ Notify(h) \/ PrintStatus(h) \/ PrintText(h) \/ PrintShort(h)
           \/ CheckEnd(h) \/ PrintResults(h)
           \/ \E s \in Submissions : PostJudge(h, s)
           \/ \E id \in PollIds : Poll(h, id)
  <2>1. hpc'[h] \notin {"queue", "notify"}
    BY <1>1, <1>6 DEF Issued, IssueFull, SaveFile, SaveFileThrows, Notify,
       PrintStatus, PrintText, PrintShort, CheckEnd, PrintResults, PostJudge, Poll
  <2> QED
    BY <2>1
<1> QED
  BY <1>0, <1>2, <1>3, <1>4, <1>5, <1>6 DEF HttpStep, Begins

LEMMA QueuingStep ==
  ASSUME JsqSize <= JqSize
  PROVE  Inv /\ Queuing /\ [Next]_vars => Queuing'
<1> SUFFICES ASSUME Inv, Queuing, [Next]_vars PROVE Queuing'
  OBVIOUS
<1>1. JQP!Room'
  <2>1. JQP!Roomy
    BY RingAssumed, JudgeWorkerAssumption, JQP!RoomyWhen
  <2>2. JQP!IInv /\ [JQP!Next]_(JQP!vars) /\ JQP!Room
    BY RingStep DEF Inv, Parts, Queuing
  <2> QED
    BY <2>1, <2>2, RingAssumed, JQP!RoomStep
<1>2. \A i : HasTurn(i) => HasTurn(i)'
  BY TurnKept
<1>3. TypeOK /\ Contents /\ None \notin Submissions
  BY JudgeWorkerAssumption DEF Inv
<1>4. ASSUME NEW s \in Submissions, answer[s] = "id"
      PROVE  \E i \in Slots : msgPath'[i] = s /\ HasTurn(i)'
  <2>1. PICK i \in Slots : msgPath[i] = s /\ HasTurn(i)
    BY <1>4 DEF Queuing, AnsweredIsQueued, HasTurn
  <2>2. msgPath'[i] = s
    BY <1>3, <2>1, PathKept
  <2> QED
    BY <1>2, <2>1, <2>2
<1>5. ASSUME NEW g \in HttpThreads, SameHttp(g)
      PROVE  /\ hpc'[g] = "queue" => qid'[g] = hid'[g]
             /\ hpc'[g] = "notify" => HasTurn(hid[g])'
  BY <1>2, <1>5 DEF SameHttp, Queuing
<1>6. ASSUME NEW h \in HttpThreads, HttpStep(h) \/ Begins(h) PROVE Queuing'
  <2>1. \A g \in HttpThreads : g # h => SameHttp(g)
    BY <1>6, HttpFrame
  <2>2. /\ hpc'[h] = "queue" => qid'[h] = hid'[h]
        /\ hpc'[h] = "notify" => HasTurn(hid[h])'
    BY <1>2, <1>6, TurnStep
  <2>3. ASSUME NEW s \in Submissions, answer'[s] = "id"
        PROVE  \E i \in Slots : msgPath'[i] = s /\ HasTurn(i)'
    <3>1. CASE answer[s] = "id"
      BY <1>4, <3>1
    <3>2. CASE Notify(h) /\ s = hwho[h]
      <4>1. hpc[h] = "notify" /\ hid[h] \in Slots
        BY <1>3, <3>2 DEF Notify, HttpAt, TypeOK
      <4>2. msgPath[hid[h]] = s /\ HasTurn(hid[h])
        BY <1>3, <3>2, <4>1 DEF Contents, Submitting, Queuing
      <4>3. msgPath'[hid[h]] = s
        BY <1>3, <4>1, <4>2, PathKept
      <4> QED
        BY <1>2, <4>1, <4>2, <4>3
    <3> QED
      BY <1>6, <2>3, <3>1, <3>2, AnswerStep
  <2> QED
    BY <1>1, <1>5, <2>1, <2>2, <2>3 DEF Queuing, AnsweredIsQueued, HasTurn
<1>7. ASSUME NEW w \in Workers, WorkStep(w) \/ SpuriousWakeup(w) PROVE Queuing'
  <2>1. (\A h \in HttpThreads : SameHttp(h)) /\ answer' = answer
    BY <1>7, WorkFrame
  <2> QED
    BY <1>1, <1>4, <1>5, <2>1 DEF Queuing, AnsweredIsQueued, HasTurn
<1>8. CASE UNCHANGED vars
  <2>1. (\A h \in HttpThreads : SameHttp(h)) /\ answer' = answer
    BY <1>8 DEF vars, jqVars, jsqVars, httpVars, SameHttp
  <2> QED
    BY <1>1, <1>4, <1>5, <2>1 DEF Queuing, AnsweredIsQueued, HasTurn
<1> QED
  BY <1>6, <1>7, <1>8 DEF Next, HttpThreads, Begins

(* With a ring as large as the store, as main.cpp has it (line 11), what   *)
(* jq.enque returns may be ignored (line 163): every submission whose      *)
(* client was given an id has had its turn on the ring, however many       *)
(* threads submit.                                                         *)
THEOREM AnswersQueued ==
  ASSUME JsqSize <= JqSize
  PROVE  Spec => []AnsweredIsQueued
<1>1. Queuing => AnsweredIsQueued
  BY DEF Queuing
<1> QED
  BY Inductive, QueuingInit, QueuingStep, <1>1, PTL DEF Spec
=============================================================================
