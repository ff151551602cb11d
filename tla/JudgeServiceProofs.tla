------------------------- MODULE JudgeServiceProofs -------------------------
(***************************************************************************)
(* What JudgeWorker promises main.cpp and its clients, for any number of   *)
(* threads that submit, poll and judge and for every size, until an id is  *)
(* published on the ring before the place of an earlier one is written     *)
(* (overtaken).                                                            *)
(*                                                                         *)
(* Until then the ring hands out each id once, in order (Linear and Fresh  *)
(* of JudgeQueueProofs), so a slot belongs to one judge thread at a time.  *)
(* That thread writes the verdict and then the status, and nobody writes   *)
(* the slot after it: a poll that reads a final status reads the rest of   *)
(* one verdict.  overtaken is never taken back, so what is proved of a     *)
(* step before it is an invariant of the form overtaken \/ ReadInv.        *)
(***************************************************************************)
EXTENDS JudgeWorkerProofs

RingOK == JQP!Linear /\ JQP!Fresh

(* saveFile has returned before an id is put on the ring.                  *)
Saved ==
  /\ \A h \in HttpThreads : hpc[h] = "enque" => msgFile[hid[h]] # "none"
  /\ \A i \in offered : msgFile[i] # "none"

-----------------------------------------------------------------------------
(* The id a judge thread has read, until it has printed the verdict.       *)
Holding(w) == qpc[w] \in {"d_release", "d_true"} \/ wpc[w] \in Judging
HeldId(w)  == IF wpc[w] \in Judging THEN wid[w] ELSE qid[w]
Out(i)     == \E k \in 1..Len(taken) : taken[k] = i

HeldOK ==
  /\ \A w \in Workers : Holding(w) => Out(HeldId(w))
  /\ \A v, w \in Workers :
       Holding(v) /\ Holding(w) /\ HeldId(v) = HeldId(w) => v = w

(* A final status is stored by the thread that was handed the id, after    *)
(* everything else.                                                        *)
Settled ==
  \A i \in Slots : msgStatus[i] \in Final =>
    /\ Out(i)
    /\ \A w \in Workers : Holding(w) /\ HeldId(w) = i => wpc[w] = "print"

-----------------------------------------------------------------------------
(* Unless run has fallen off its end, a verdict is one of these.           *)
Sound   == UNION {VerdictsOf(o) : o \in {"tests", "no_tests", "compile_error"}}

VerdictAt(i) == [status |-> msgStatus[i], text |-> msgText[i],
                 results |-> msgResults[i]]

StoringOK ==
  \A w \in Workers :
    /\ wpc[w] \in Judging \ {"judge"} => fellOff \/ wres[w] \in Sound
    /\ wpc[w] \in {"results", "results_done", "status", "print"}
         => msgText[wid[w]] = wres[w].text
    /\ wpc[w] \in {"status", "print"} => msgResults[wid[w]] = wres[w].results

WholeOK ==
  \A i \in Slots : msgStatus[i] \in Final =>
    /\ VerdictAt(i) \in Verdicts
    /\ fellOff \/ VerdictAt(i) \in Sound

(* What a poll has read of a final verdict is still so.                    *)
PollOK ==
  \A h \in HttpThreads :
    /\ hpc[h] \in {"text", "check", "results"} /\ hstatus[h] \in Final
         => msgStatus[hid[h]] = hstatus[h]
    /\ hpc[h] \in {"check", "results"} /\ hstatus[h] \in Final
         => htext[h] = msgText[hid[h]]
    /\ hpc[h] = "results" => msgStatus[hid[h]] = "END"

-----------------------------------------------------------------------------
(* A submission is in the hands of one thread, then in one slot.           *)
Handling ==
  /\ \A h \in HttpThreads : hpc[h] \notin Submitting => hwho[h] = None
  /\ \A h \in HttpThreads : hpc[h] \in Submitting => answer[hwho[h]] = "none"
  /\ \A g, h \in HttpThreads : hwho[g] = hwho[h] /\ hwho[g] # None => g = h
  /\ \A h \in HttpThreads : hpc[h] = "issue" /\ mpc[h] # "issued" =>
       \A i \in Slots : msgPath[i] # hwho[h]
  /\ \A i \in Slots : msgPath[i] # None /\ answer[msgPath[i]] = "none" =>
       \E h \in HttpThreads : hwho[h] = msgPath[i]
  /\ \A i, j \in Slots : msgPath[i] = msgPath[j] /\ msgPath[i] # None => i = j
-----------------------------------------------------------------------------
LEMMA SavedInit == Init => Saved
<1> SUFFICES ASSUME Init PROVE Saved
  OBVIOUS
<1>1. offered = {}
  BY RingInit DEF Init, JQP!Init
<1> QED
  BY <1>1 DEF Init, Saved

LEMMA SavedStep ==
  ASSUME Inv, Saved, [Next]_vars
  PROVE  Saved'
<1>1. /\ TypeOK /\ offered \subseteq Slots
      /\ \A h \in HttpThreads : hpc[h] = "enque" => msgFile[hid[h]] # "none"
      /\ \A i \in offered : msgFile[i] # "none"
  BY PartTypes DEF Inv, Saved
<1>2. ASSUME NEW h \in HttpThreads, HttpStep(h) \/ Begins(h) PROVE Saved'
  <2>1. \A g \in HttpThreads : g # h => hpc'[g] = hpc[g] /\ hid'[g] = hid[g]
    BY <1>2, HttpFrame DEF SameHttp
  <2>2. CASE SaveFile(h)
    <3>1. PICK how \in {"written", "unwritten"} :
            msgFile' = [msgFile EXCEPT ![hid[h]] = how]
      BY <2>2, JudgeWorkerAssumption DEF SaveFile
    <3>2. hid' = hid /\ offered' = offered /\ hid \in [HttpThreads -> Slots]
      BY <1>1, <2>2 DEF SaveFile, jqVars, TypeOK
    <3>3. \A i \in Slots : msgFile'[i] = msgFile[i] \/ msgFile'[i] = how
      BY <1>1, <3>1 DEF TypeOK
    <3>4. msgFile'[hid[h]] = how
      BY <1>1, <3>1 DEF TypeOK
    <3>5. ASSUME NEW g \in HttpThreads, hpc'[g] = "enque" PROVE msgFile'[hid'[g]] # "none"
      <4>1. CASE g = h
        BY <3>2, <3>4, <4>1
      <4>2. CASE g # h
        BY <1>1, <2>1, <3>2, <3>3, <3>5, <4>2
      <4> QED
        BY <4>1, <4>2
    <3>6. \A i \in offered : msgFile'[i] # "none"
      BY <1>1, <3>3
    <3> QED
      BY <3>2, <3>5, <3>6 DEF Saved
  <2>3. CASE ~SaveFile(h)
    <3>1. msgFile' = msgFile
      BY <1>2, <2>3 DEF HttpStep, IssueStep, Issued, IssueFull,
         SaveFileThrows, Enque, QueueStep, Queued, Notify, PrintStatus, PrintText,
         PrintShort, CheckEnd, PrintResults, PrintTorn, Polled, Die,
         Begins, PostJudge, PostUnsupported, Poll, PollUndefined, msgVars
    <3>2. hpc'[h] = "enque" => hpc[h] = "enque" /\ hid'[h] = hid[h]
      BY <1>1, <1>2, <2>3 DEF TypeOK, HttpAt, HttpStep, IssueStep, Issued,
         IssueFull, SaveFileThrows, Enque, QueueStep, Queued, Notify,
         PrintStatus, PrintText, PrintShort, CheckEnd, PrintResults, PrintTorn,
         Polled, Die, Begins, PostJudge, PostUnsupported, Poll, PollUndefined,
         httpVars
    <3>3. \/ offered' = offered
          \/ hpc[h] = "enque" /\ offered' = offered \cup {hid[h]}
      BY <1>2, OfferedStep DEF Enque, HttpAt
    <3> QED
      BY <1>1, <2>1, <3>1, <3>2, <3>3 DEF Saved
  <2> QED
    BY <2>2, <2>3
<1>3. ASSUME NEW w \in Workers, WorkStep(w) \/ SpuriousWakeup(w) PROVE Saved'
  <2>1. \A g \in HttpThreads : hpc'[g] = hpc[g] /\ hid'[g] = hid[g]
    BY <1>3, WorkFrame DEF SameHttp
  <2>2. offered' = offered
    BY <1>3, WorkFrame
  <2>3. msgFile' = msgFile
    BY <1>3 DEF WorkStep, Lock, DequeStep, Dequed, Sleep, Run, RunDies,
       StoreText, StoreResults, StoreStatus, PrintVerdict, PrintNothing,
       SpuriousWakeup, Die, msgVars
  <2> QED
    BY <1>1, <2>1, <2>2, <2>3 DEF Saved
<1>4. CASE UNCHANGED vars
  BY <1>1, <1>4 DEF vars, jqVars, httpVars, msgVars, Saved
<1> QED
  BY <1>2, <1>3, <1>4 DEF Next, HttpThreads, Begins

LEMMA RingInitOK == Init => RingOK
  BY RingInit, RingAssumed, JQP!LinearInit, JQP!FreshInit DEF Init, RingOK

LEMMA RingOKStep ==
  ASSUME Inv, RingOK, [Next]_vars, ~overtaken'
  PROVE  RingOK'
<1>1. [JQP!Next]_(JQP!vars) /\ JQP!IInv /\ JQP!Origin
  BY RingStep DEF Inv, Parts
<1>2. JQP!Linear'
  BY <1>1, RingAssumed, JQP!LinearStep DEF RingOK
<1>3. JQP!Fresh'
  BY <1>1, RingAssumed, JQP!FreshStep DEF RingOK
<1> QED
  BY <1>2, <1>3 DEF RingOK

LEMMA OvertakenKept ==
  ASSUME Inv, [Next]_vars, overtaken
  PROVE  overtaken'
BY RingStep, RingAssumed, PartTypes, JQP!OvertakenStays

-----------------------------------------------------------------------------
(* What is read from the ring is the oldest id in it, which nobody had.    *)
LEMMA RingFacts ==
  ASSUME Inv, RingOK
  PROVE  /\ taken \in Seq(Slots) /\ Len(taken) \in Nat
         /\ given \in Seq(Slots) /\ Len(given) \in Nat
         /\ \A k \in 1..Len(taken) : k <= Len(given) /\ taken[k] = given[k]
         /\ \A j, k \in 1..Len(given) : given[j] = given[k] => j = k
         /\ \A k \in 1..Len(given) : given[k] \in offered /\ msgPath[given[k]] # None
         /\ \A i : Out(i) => i \in Slots /\ i \in offered /\ msgPath[i] # None
<1>1. JQP!TypeOK
  BY PartTypes
<1>2. /\ taken \in Seq(Slots) /\ Len(taken) \in Nat
      /\ given \in Seq(Slots) /\ Len(given) \in Nat
  BY <1>1 DEF JQP!TypeOK, Slots
<1>3. \A k \in 1..Len(taken) : k <= Len(given) /\ taken[k] = given[k]
  BY DEF RingOK, JQP!Linear, JQP!InOrder
<1>4. \A j, k \in 1..Len(given) : given[j] = given[k] => j = k
  BY DEF RingOK, JQP!Fresh
<1>5. \A k \in 1..Len(given) : given[k] \in offered /\ msgPath[given[k]] # None
  BY DEF Inv, Parts, JQP!Origin, Contents
<1>6. \A i : Out(i) => i \in Slots /\ i \in offered /\ msgPath[i] # None
  <2> SUFFICES ASSUME NEW k \in 1..Len(taken)
               PROVE  /\ taken[k] \in Slots /\ taken[k] \in offered
                      /\ msgPath[taken[k]] # None
    BY DEF Out
  <2>1. k \in 1..Len(given)
    BY <1>2, <1>3
  <2> QED
    BY <1>2, <1>3, <1>5, <2>1
<1> QED
  BY <1>2, <1>3, <1>4, <1>5, <1>6

Reads(w) ==
  /\ JQP!DeqRead(w) /\ DequeStep(w)
  /\ Len(taken) < Len(given)
  /\ qid' = [qid EXCEPT ![w] = given[Len(taken) + 1]]
  /\ taken' = Append(taken, given[Len(taken) + 1])
  /\ given' = given

LEMMA ReadsNew ==
  ASSUME Inv, RingOK, NEW w \in Workers, Reads(w)
  PROVE  \E n \in Slots :
         /\ n = given[Len(taken) + 1]
         /\ ~Out(n) /\ Out(n)'
         /\ \A i : Out(i) => Out(i)'
         /\ \A i : Out(i)' => Out(i) \/ i = n
         /\ qpc[w] = "d_read" /\ wpc[w] = "deque" /\ wpc'[w] = "deque"
         /\ qpc'[w] = "d_release" /\ qid'[w] = n
<1>0. /\ taken \in Seq(Slots) /\ Len(taken) \in Nat
      /\ given \in Seq(Slots) /\ Len(given) \in Nat
      /\ \A k \in 1..Len(taken) : k <= Len(given) /\ taken[k] = given[k]
      /\ \A j, k \in 1..Len(given) : given[j] = given[k] => j = k
  BY RingFacts
<1>n. PICK n \in Slots : n = given[Len(taken) + 1]
  BY <1>0 DEF Reads
<1>1. Len(taken) < Len(given) /\ taken' = Append(taken, n)
  BY <1>0, <1>n DEF Reads
<1>2. /\ 1..Len(taken') = 1..(Len(taken) + 1)
      /\ taken'[Len(taken) + 1] = n
      /\ \A k \in 1..Len(taken) : taken'[k] = taken[k]
  BY <1>0, <1>1
<1>3. ~Out(n)
  BY <1>0, <1>1, <1>n DEF Out
<1>4. /\ \A k \in 1..(Len(taken) + 1) : k \in 1..Len(taken) \/ k = Len(taken) + 1
      /\ Len(taken) + 1 \in 1..(Len(taken) + 1)
      /\ \A k \in 1..Len(taken) : k \in 1..(Len(taken) + 1)
  BY <1>0
<1>5. Out(n)'
  BY <1>2, <1>4 DEF Out
<1>6. ASSUME NEW i, Out(i) PROVE Out(i)'
  BY <1>2, <1>4, <1>6 DEF Out
<1>7. ASSUME NEW i, Out(i)' PROVE Out(i) \/ i = n
  BY <1>2, <1>4, <1>7 DEF Out
<1>8. /\ qpc[w] = "d_read" /\ qpc' = [qpc EXCEPT ![w] = "d_release"]
      /\ wpc' = wpc /\ w \in HttpThreads \cup Workers
  BY DEF Reads, JQP!DeqRead, JQP!Goto, DequeStep, workVars
<1>9. wpc[w] = "deque"
  BY <1>8 DEF Inv, Calls
<1>10. qpc'[w] = "d_release" /\ qid'[w] = n
  BY <1>8, <1>n, PartTypes DEF Reads
<1> QED
  BY <1>n, <1>3, <1>5, <1>6, <1>7, <1>8, <1>9, <1>10

(* Only a judge thread's read of the ring hands out an id.                 *)
LEMMA TakenStep ==
  ASSUME Inv, RingOK, [Next]_vars
  PROVE  taken' = taken \/ \E w \in Workers : Reads(w)
<1> USE DEF JQP!ring, JQP!counters, JQP!locals, JQP!history
<1>1. ASSUME NEW h \in HttpThreads, HttpStep(h) \/ Begins(h) PROVE taken' = taken
  <2>1. \/ UNCHANGED jqVars \/ JQP!EnqStep(h) \/ JQP!Return(h)
        \/ JQP!EnqReserve(h, hid[h])
    BY <1>1, RingActions DEF HttpStep, IssueStep, Issued, IssueFull, SaveFile,
       SaveFileThrows, Enque, QueueStep, Queued, Notify, PrintStatus, PrintText,
       PrintShort, CheckEnd, PrintResults, PrintTorn, Polled, Die,
       Begins, PostJudge, PostUnsupported, Poll, PollUndefined
  <2> QED
    BY <2>1 DEF jqVars, JQP!EnqStep, JQP!EnqUndo, JQP!EnqWrap, JQP!EnqTicket,
       JQP!EnqWrite, JQP!EnqPublish, JQP!Return, JQP!EnqReserve
<1>2. ASSUME NEW w \in Workers, WorkStep(w) \/ SpuriousWakeup(w)
      PROVE  taken' = taken \/ Reads(w)
  <2>1. \/ UNCHANGED jqVars \/ JQP!DeqReserve(w) \/ JQP!Return(w)
        \/ DequeStep(w) /\ JQP!DeqStep(w)
    BY <1>2, RingActions DEF WorkStep, Lock, DequeStep, Dequed, Sleep, Run,
       RunDies, StoreText, StoreResults, StoreStatus, PrintVerdict,
       PrintNothing, SpuriousWakeup, Die
  <2>2. CASE DequeStep(w) /\ JQP!DeqRead(w)
    <3>1. /\ Len(taken) < Len(given)
          /\ q[qpos[w]] = given[Len(taken) + 1]
          /\ taken' = Append(taken, given[Len(taken) + 1])
      BY <2>2, RingAssumed, JQP!OldestRead DEF Inv, Parts, RingOK
    <3> QED
      BY <2>2, <3>1 DEF Reads, JQP!DeqRead
  <2>3. CASE ~(DequeStep(w) /\ JQP!DeqRead(w))
    BY <2>1, <2>3 DEF jqVars, JQP!DeqReserve, JQP!Return, JQP!DeqStep,
       JQP!DeqUndo, JQP!DeqWrap, JQP!DeqTicket, JQP!DeqRelease
  <2> QED
    BY <2>2, <2>3
<1>3. CASE UNCHANGED vars
  BY <1>3 DEF vars, jqVars
<1> QED
  BY <1>1, <1>2, <1>3 DEF Next, HttpThreads, Begins

LEMMA OutKept ==
  ASSUME Inv, RingOK, [Next]_vars, NEW i, Out(i)
  PROVE  Out(i)'
<1>1. taken' = taken => Out(i)'
  BY DEF Out
<1> QED
  BY <1>1, TakenStep, ReadsNew

-----------------------------------------------------------------------------
(* A judge thread holds an id from the moment it has read it.              *)
LEMMA HoldSame ==
  ASSUME Inv, NEW v \in Workers, SameWork(v), Holding(v)'
  PROVE  Holding(v) /\ HeldId(v)' = HeldId(v) /\ wpc'[v] = wpc[v]
<1>1. wpc[v] # "deque" => qpc[v] = "idle"
  BY DEF Inv, Calls
<1> QED
  BY <1>1 DEF SameWork, Holding, HeldId, Judging

LEMMA HoldStep ==
  ASSUME Inv, RingOK, NEW w \in Workers, WorkStep(w) \/ SpuriousWakeup(w),
         Holding(w)'
  PROVE  \/ Holding(w) /\ HeldId(w)' = HeldId(w)
         \/ Reads(w)
<1> USE DEF WorkAt
<1>1. TypeOK /\ JQP!TypeOK /\ Calls /\ w \in HttpThreads \cup Workers
  BY PartTypes DEF Inv
<1>2. CASE DequeStep(w)
  <2>1. JQP!DeqStep(w) /\ UNCHANGED <<wpc, wid>> /\ wpc[w] \notin Judging
    <3>1. JQP!DeqStep(w) /\ UNCHANGED <<wpc, wid>>
      BY <1>2, RingActions DEF DequeStep, workVars
    <3>2. qpc[w] # "idle"
      BY <3>1, RingAssumed, JQP!DeqStepFrame
    <3> QED
      BY <1>1, <3>1, <3>2 DEF Calls, Judging
  <2>2. CASE JQP!DeqRead(w)
    <3>1. /\ Len(taken) < Len(given)
          /\ q[qpos[w]] = given[Len(taken) + 1]
          /\ taken' = Append(taken, given[Len(taken) + 1])
      BY <2>2, RingAssumed, JQP!OldestRead DEF Inv, Parts, RingOK
    <3> QED
      BY <1>2, <2>2, <3>1 DEF Reads, JQP!DeqRead
  <2>3. CASE JQP!DeqRelease(w)
    <3>1. qpc[w] = "d_release" /\ qid' = qid
      BY <2>3 DEF JQP!DeqRelease, JQP!Goto
    <3> QED
      BY <2>1, <3>1 DEF Holding, HeldId
  <2>4. CASE JQP!DeqUndo(w) \/ JQP!DeqWrap(w) \/ JQP!DeqTicket(w)
    <3>1. qpc'[w] \in {"d_false", "d_ticket", "d_read"}
      BY <1>1, <2>4, PartTypes DEF JQP!DeqUndo, JQP!DeqWrap, JQP!DeqTicket, JQP!Goto
    <3> QED
      BY <2>1, <3>1 DEF Holding
  <2> QED
    BY <2>1, <2>2, <2>3, <2>4 DEF JQP!DeqStep
<1>3. CASE Dequed(w)
  <2>1. /\ qpc[w] = "d_true" /\ wid'[w] = qid[w] /\ wpc[w] = "deque"
        /\ wpc'[w] = "judge"
    BY <1>1, <1>3 DEF Dequed, TypeOK
  <2> QED
    BY <2>1 DEF Holding, HeldId, Judging, WorkPC
<1>4. CASE Run(w) \/ StoreText(w) \/ StoreResults(w) \/ StoreStatus(w)
  <2>1. PICK from \in Judging, to \in Judging :
          wpc[w] = from /\ wpc' = [wpc EXCEPT ![w] = to] /\ wid' = wid
    BY <1>4 DEF Run, StoreText, StoreResults, StoreStatus, Judging, WorkPC
  <2>2. wpc'[w] = to
    BY <1>1, <2>1 DEF TypeOK
  <2> QED
    BY <2>1, <2>2 DEF Holding, HeldId
<1>5. CASE RunDies(w) \/ PrintNothing(w)
  BY <1>5 DEF RunDies, PrintNothing, Die, workVars, jqVars, Holding, HeldId
<1>6. CASE Lock(w)
  <2>1. /\ wpc'[w] = "deque" /\ JQP!DeqReserve(w)
    BY <1>1, <1>6, RingActions DEF Lock, TypeOK
  <2>2. qpc'[w] \in {"d_undo", "d_wrap"}
    BY <1>1, <2>1, PartTypes DEF JQP!DeqReserve, JQP!Goto
  <2> QED
    BY <2>1, <2>2 DEF Holding, Judging
<1>7. CASE Sleep(w)
  <2>1. wpc'[w] = "asleep" /\ qpc'[w] = "idle"
    BY <1>1, <1>7, RingActions, RingAssumed, Names, JQP!ReturnFrame DEF Sleep, TypeOK
  <2> QED
    BY <2>1 DEF Holding, Judging
<1>8. CASE PrintVerdict(w) \/ SpuriousWakeup(w)
  <2>1. wpc'[w] = "lock" /\ wpc[w] # "deque" /\ qpc' = qpc
    BY <1>1, <1>8 DEF PrintVerdict, SpuriousWakeup, TypeOK, jqVars
  <2>2. qpc[w] = "idle"
    BY <1>1, <2>1 DEF Calls
  <2> QED
    BY <2>1, <2>2 DEF Holding, Judging
<1> QED
  BY <1>2, <1>3, <1>4, <1>5, <1>6, <1>7, <1>8 DEF WorkStep

LEMMA HeldInit == Init => HeldOK
<1> SUFFICES ASSUME Init PROVE HeldOK
  OBVIOUS
<1>1. \A w \in Workers : qpc[w] = "idle" /\ wpc[w] = "lock"
  BY RingInit, Names DEF Init, JQP!Init
<1> QED
  BY <1>1 DEF HeldOK, Holding, Judging

(* Two of them never hold the same id.                                     *)
LEMMA HeldStep ==
  ASSUME Inv, RingOK, HeldOK, [Next]_vars
  PROVE  HeldOK'
<1>0. \A i : Out(i) => Out(i)'
  BY OutKept
<1>1. ASSUME NEW v \in Workers, SameWork(v), Holding(v)'
      PROVE  /\ Holding(v) /\ HeldId(v)' = HeldId(v)
             /\ Out(HeldId(v))
  BY <1>1, HoldSame DEF HeldOK
<1>2. CASE \A v \in Workers : SameWork(v)
  <2>1. \A v \in Workers : Holding(v)' =>
          Holding(v) /\ HeldId(v)' = HeldId(v) /\ Out(HeldId(v))
    BY <1>1, <1>2
  <2>2. ASSUME NEW v \in Workers, Holding(v)' PROVE Out(HeldId(v))'
    <3>1. PICK i : i = HeldId(v) /\ i = HeldId(v)' /\ Out(i)
      BY <2>1, <2>2
    <3>2. Out(i)'
      BY <1>0, <3>1
    <3> QED
      BY <3>1, <3>2 DEF Out
  <2> QED
    BY <2>1, <2>2 DEF HeldOK
<1>3. ASSUME NEW w \in Workers, WorkStep(w) \/ SpuriousWakeup(w) PROVE HeldOK'
  <2>1. \A v \in Workers : v # w => SameWork(v)
    BY <1>3, WorkFrame
  <2>2. \A v \in Workers : v # w /\ Holding(v)' =>
          Holding(v) /\ HeldId(v)' = HeldId(v) /\ Out(HeldId(v))
    BY <1>1, <2>1
  <2>3. CASE ~Reads(w)
    <3>1. Holding(w)' => Holding(w) /\ HeldId(w)' = HeldId(w) /\ Out(HeldId(w))
      BY <1>3, <2>3, HoldStep DEF HeldOK
    <3>2. ASSUME NEW v \in Workers, Holding(v)' PROVE Out(HeldId(v))'
      <4>1. PICK i : i = HeldId(v) /\ i = HeldId(v)' /\ Out(i)
        BY <2>2, <3>1, <3>2
      <4>2. Out(i)'
        BY <1>0, <4>1
      <4> QED
        BY <4>1, <4>2 DEF Out
    <3> QED
      BY <2>2, <3>1, <3>2 DEF HeldOK
  <2>4. CASE Reads(w)
    <3>1. PICK n \in Slots :
            /\ ~Out(n) /\ Out(n)'
            /\ qpc'[w] = "d_release" /\ wpc'[w] = "deque" /\ qid'[w] = n
      BY <2>4, ReadsNew
    <3>2. HeldId(w)' = n
      BY <3>1 DEF HeldId, Judging
    <3>3. ASSUME NEW v \in Workers, Holding(v)' PROVE Out(HeldId(v))'
      <4>1. PICK i : i = HeldId(v)' /\ Out(i)'
        BY <1>0, <2>2, <3>1, <3>2, <3>3
      <4> QED
        BY <4>1 DEF Out
    <3>4. ASSUME NEW v \in Workers, v # w, Holding(v)' PROVE HeldId(v)' # n
      BY <2>2, <3>1, <3>4
    <3> QED
      BY <2>2, <3>2, <3>3, <3>4 DEF HeldOK
  <2> QED
    BY <2>3, <2>4
<1>4. ASSUME NEW h \in HttpThreads, HttpStep(h) \/ Begins(h)
      PROVE  \A v \in Workers : SameWork(v)
  BY <1>4, HttpFrame
<1>5. CASE UNCHANGED vars
  BY <1>2, <1>5 DEF vars, jqVars, workVars, SameWork
<1> QED
  BY <1>2, <1>3, <1>4, <1>5 DEF Next, HttpThreads, Begins

-----------------------------------------------------------------------------
JudgeInv == Inv /\ Saved /\ RingOK /\ HeldOK

LEMMA JudgeStep ==
  ASSUME JudgeInv, [Next]_vars, ~overtaken'
  PROVE  JudgeInv'
BY InvStep, SavedStep, RingOKStep, HeldStep DEF JudgeInv

(* Until an id is published before an earlier one is written, no two judge *)
(* threads work on the same slot, and it was filled and its file saved     *)
(* before (line 247): for any number of threads that submit and that       *)
(* judge.                                                                  *)
THEOREM JudgedByOne == Spec => []ExclusiveJudging
<1>1. Init => Inv /\ (overtaken \/ JudgeInv)
  BY InvInit, SavedInit, RingInitOK, HeldInit DEF JudgeInv
<1>2. Inv /\ (overtaken \/ JudgeInv) /\ [Next]_vars
        => (Inv /\ (overtaken \/ JudgeInv))'
  BY InvStep, OvertakenKept, JudgeStep
<1>3. Inv /\ (overtaken \/ JudgeInv) => ExclusiveJudging
  <2> SUFFICES ASSUME JudgeInv PROVE ExclusiveJudging
    BY DEF ExclusiveJudging
  <2>1. \A w \in Workers : wpc[w] \in Judging => Holding(w) /\ HeldId(w) = wid[w]
    BY DEF Holding, HeldId
  <2>2. \A w \in Workers : wpc[w] \in Judging =>
          msgPath[wid[w]] # None /\ msgFile[wid[w]] # "none"
    BY <2>1, RingFacts DEF JudgeInv, HeldOK, Saved
  <2>3. \A v, w \in Workers :
          wpc[v] \in Judging /\ wpc[w] \in Judging /\ wid[v] = wid[w] => v = w
    BY <2>1 DEF JudgeInv, HeldOK
  <2> QED
    BY <2>2, <2>3 DEF ExclusiveJudging
<1> QED
  BY <1>1, <1>2, <1>3, PTL DEF Spec

-----------------------------------------------------------------------------
(* A slot is written by the thread that fills it or by the judge thread    *)
(* that holds it.                                                          *)
SlotSame(i) == /\ msgStatus'[i] = msgStatus[i]
               /\ msgText'[i] = msgText[i]
               /\ msgResults'[i] = msgResults[i]

Fills(h, i) == /\ MQP!Holds(h) /\ mpos[h] = i
               /\ msgStatus'[i] = "JUDGING"

Stores(w) == StoreText(w) \/ StoreResults(w) \/ StoreStatus(w)

LEMMA SlotStep ==
  ASSUME Inv, [Next]_vars, NEW i \in Slots
  PROVE  \/ SlotSame(i)
         \/ \E h \in HttpThreads : Fills(h, i)
         \/ \E w \in Workers : Stores(w) /\ wid[w] = i
<1>1. TypeOK /\ msgStatus \in [Slots -> MQ!STATUS]
  BY PartTypes DEF Inv
<1>2. ASSUME NEW h \in HttpThreads, HttpStep(h) \/ Begins(h)
      PROVE  SlotSame(i) \/ Fills(h, i)
  <2>1. msgText' = msgText /\ msgResults' = msgResults
    BY <1>2 DEF HttpStep, IssueStep, Issued, IssueFull, SaveFile,
       SaveFileThrows, Enque, QueueStep, Queued, Notify, PrintStatus, PrintText,
       PrintShort, CheckEnd, PrintResults, PrintTorn, Polled, Die,
       Begins, PostJudge, PostUnsupported, Poll, PollUndefined, msgVars
  <2>2. \/ UNCHANGED jsqVars \/ MQP!Step(h) \/ MQP!Return(h)
        \/ \E s \in Submissions : MQP!Claim(h, s)
    BY <1>2, StoreActions DEF HttpStep, IssueStep, Issued, IssueFull, SaveFile,
       SaveFileThrows, Enque, QueueStep, Queued, Notify, PrintStatus, PrintText,
       PrintShort, CheckEnd, PrintResults, PrintTorn, Polled, Die,
       Begins, PostJudge, PostUnsupported, Poll, PollUndefined
  <2>3. CASE MQP!FillStatus(h)
    BY <1>1, <2>1, <2>3 DEF MQP!FillStatus, MQP!Goto, MQP!Holds, MQP!Fills,
       SlotSame, Fills
  <2>4. CASE ~MQP!FillStatus(h)
    <3>1. msgStatus' = msgStatus
      BY <2>2, <2>4 DEF jsqVars, MQP!Step, MQP!Undo, MQP!FillRequest,
         MQP!FillPath, MQP!Return, MQP!Claim, MQP!slots
    <3> QED
      BY <2>1, <3>1 DEF SlotSame
  <2> QED
    BY <2>3, <2>4
<1>3. ASSUME NEW w \in Workers, WorkStep(w) \/ SpuriousWakeup(w)
      PROVE  SlotSame(i) \/ (Stores(w) /\ wid[w] = i)
  <2>1. CASE StoreText(w)
    BY <1>1, <2>1 DEF StoreText, jsqVars, SlotSame, Stores, TypeOK
  <2>2. CASE StoreResults(w)
    BY <1>1, <2>2 DEF StoreResults, jsqVars, SlotSame, Stores, TypeOK
  <2>3. CASE StoreStatus(w)
    BY <1>1, <2>3 DEF StoreStatus, MQ!SetStatus, msgVars, SlotSame, Stores
  <2>4. CASE ~Stores(w)
    <3>1. UNCHANGED <<msgStatus, msgText, msgResults>>
      BY <1>3, <2>4 DEF Stores, WorkStep, Lock, DequeStep, Dequed, Sleep, Run,
         RunDies, PrintVerdict, PrintNothing, SpuriousWakeup, Die, jsqVars,
         msgVars
    <3> QED
      BY <3>1 DEF SlotSame
  <2> QED
    BY <2>1, <2>2, <2>3, <2>4 DEF Stores
<1>4. CASE UNCHANGED vars
  BY <1>4 DEF vars, jsqVars, msgVars, SlotSame
<1> QED
  BY <1>2, <1>3, <1>4 DEF Next, HttpThreads, Begins

(* A judge thread that stores holds the slot, and is not done with it.     *)
LEMMA StoresHeld ==
  ASSUME Inv, NEW w \in Workers, Stores(w)
  PROVE  /\ Holding(w) /\ HeldId(w) = wid[w]
         /\ wpc[w] \in Judging \ {"judge", "print"}
         /\ wpc'[w] \in Judging /\ wid' = wid /\ wres' = wres
         /\ WorkStep(w)
<1>1. PICK from \in Judging \ {"judge", "print"}, to \in Judging :
        /\ wpc[w] = from /\ wpc' = [wpc EXCEPT ![w] = to]
        /\ wid' = wid /\ wres' = wres
  BY DEF Stores, StoreText, StoreResults, StoreStatus, WorkAt, Judging, WorkPC
<1>2. wpc'[w] = to
  BY <1>1 DEF Inv, TypeOK
<1> QED
  BY <1>1, <1>2 DEF Holding, HeldId, Stores, WorkStep

(* Who fills a slot owns it, so nobody was handed it.                      *)
LEMMA FilledNotOut ==
  ASSUME Inv, RingOK, NEW h \in HttpThreads, NEW i \in Slots, Fills(h, i)
  PROVE  ~Out(i)
<1>1. i \notin offered
  BY DEF Inv, Owners, Owns, Fills
<1> QED
  BY <1>1, RingFacts

(* The slot of a final status is left alone.                               *)
LEMMA FinalSame ==
  ASSUME Inv, RingOK, Settled, [Next]_vars, NEW i \in Slots,
         msgStatus[i] \in Final
  PROVE  SlotSame(i)
<1>1. Out(i) /\ \A w \in Workers : Holding(w) /\ HeldId(w) = i => wpc[w] = "print"
  BY DEF Settled
<1>2. ASSUME NEW h \in HttpThreads, Fills(h, i) PROVE FALSE
  BY <1>1, <1>2, FilledNotOut
<1>3. ASSUME NEW w \in Workers, Stores(w), wid[w] = i PROVE FALSE
  BY <1>1, <1>3, StoresHeld
<1> QED
  BY <1>2, <1>3, SlotStep

LEMMA SettledInit == Init => Settled
<1> SUFFICES ASSUME Init PROVE Settled
  OBVIOUS
<1>1. msgStatus = [i \in Slots |-> "WAITING"]
  BY StoreInit, Names DEF Init, MQP!Init
<1> QED
  BY <1>1 DEF Settled, Final

LEMMA PrintStays ==
  ASSUME Inv, NEW w \in Workers, WorkStep(w) \/ SpuriousWakeup(w),
         wpc[w] = "print", Holding(w)'
  PROVE  wpc'[w] = "print"
<1>1. TypeOK /\ qpc[w] = "idle"
  BY DEF Inv, Calls
<1>2. CASE PrintVerdict(w)
  BY <1>1, <1>2 DEF PrintVerdict, WorkAt, TypeOK, Holding, Judging, jqVars
<1>3. CASE PrintNothing(w) \/ RunDies(w)
  BY <1>3 DEF PrintNothing, RunDies, Die, workVars
<1>4. CASE DequeStep(w)
  BY <1>1, <1>4, RingActions, RingAssumed, JQP!DeqStepFrame DEF DequeStep
<1>5. CASE Dequed(w) \/ Sleep(w)
  BY <1>1, <1>5 DEF Dequed, Sleep
<1>6. CASE \/ Lock(w) \/ Run(w) \/ StoreText(w) \/ StoreResults(w)
           \/ StoreStatus(w) \/ SpuriousWakeup(w)
  BY <1>6 DEF Lock, Run, StoreText, StoreResults, StoreStatus, SpuriousWakeup,
     WorkAt
<1> QED
  BY <1>2, <1>3, <1>4, <1>5, <1>6 DEF WorkStep

(* How the threads that hold an id come to hold it.                        *)
LEMMA HoldersStep ==
  ASSUME Inv, RingOK, [Next]_vars, NEW v \in Workers, Holding(v)'
  PROVE  \/ /\ Holding(v) /\ HeldId(v)' = HeldId(v)
            /\ wpc[v] = "print" => wpc'[v] = "print"
         \/ Reads(v)
<1>1. ASSUME SameWork(v)
      PROVE  /\ Holding(v) /\ HeldId(v)' = HeldId(v)
             /\ wpc[v] = "print" => wpc'[v] = "print"
  BY <1>1, HoldSame
<1>2. ASSUME NEW h \in HttpThreads, HttpStep(h) \/ Begins(h) PROVE SameWork(v)
  BY <1>2, HttpFrame
<1>3. ASSUME NEW w \in Workers, WorkStep(w) \/ SpuriousWakeup(w), v # w
      PROVE  SameWork(v)
  BY <1>3, WorkFrame
<1>4. ASSUME WorkStep(v) \/ SpuriousWakeup(v)
      PROVE  \/ /\ Holding(v) /\ HeldId(v)' = HeldId(v)
                /\ wpc[v] = "print" => wpc'[v] = "print"
             \/ Reads(v)
  BY <1>4, HoldStep, PrintStays
<1>5. CASE UNCHANGED vars
  BY <1>1, <1>5 DEF vars, jqVars, workVars, SameWork
<1> QED
  BY <1>1, <1>2, <1>3, <1>4, <1>5 DEF Next, HttpThreads, Begins

LEMMA SettledStep ==
  ASSUME Inv, RingOK, HeldOK, Settled, [Next]_vars
  PROVE  Settled'
<1> SUFFICES ASSUME NEW i \in Slots, msgStatus'[i] \in Final
             PROVE  /\ Out(i)'
                    /\ \A v \in Workers : (Holding(v) /\ HeldId(v) = i)' => wpc'[v] = "print"
  BY DEF Settled
<1>1. CASE msgStatus[i] \in Final
  <2>1. Out(i) /\ \A w \in Workers : Holding(w) /\ HeldId(w) = i => wpc[w] = "print"
    BY <1>1 DEF Settled
  <2>2. Out(i)'
    BY <2>1, OutKept
  <2>3. ASSUME NEW v \in Workers, Holding(v)', HeldId(v)' = i PROVE wpc'[v] = "print"
    <3>1. ~Reads(v)
      <4> SUFFICES ASSUME Reads(v) PROVE FALSE
        OBVIOUS
      <4>1. PICK n \in Slots : ~Out(n) /\ qid'[v] = n /\ wpc'[v] = "deque"
        BY ReadsNew
      <4>2. HeldId(v)' = n
        BY <4>1 DEF HeldId, Judging
      <4> QED
        BY <2>1, <2>3, <4>1, <4>2
    <3> QED
      BY <2>1, <2>3, <3>1, HoldersStep
  <2> QED
    BY <2>2, <2>3
<1>2. CASE msgStatus[i] \notin Final
  <2>1. PICK w \in Workers : Stores(w) /\ wid[w] = i
    BY <1>2, SlotStep DEF SlotSame, Fills, Final
  <2>2. /\ Holding(w) /\ HeldId(w) = i /\ Out(i)
        /\ wpc'[w] \in Judging /\ wid' = wid
    BY <2>1, StoresHeld DEF HeldOK
  <2>3. StoreStatus(w)
    BY <1>2, <2>1 DEF Stores, StoreText, StoreResults, jsqVars
  <2>4. wpc'[w] = "print"
    BY <2>3 DEF StoreStatus, WorkAt, Inv, TypeOK
  <2>5. Holding(w)' /\ HeldId(w)' = i
    BY <2>1, <2>2 DEF Holding, HeldId
  <2>6. Out(i)' /\ HeldOK'
    BY <2>2, OutKept, HeldStep
  <2> QED
    BY <2>4, <2>5, <2>6 DEF HeldOK
<1> QED
  BY <1>1, <1>2

(* Whatever run returns, two polls that see a final status never disagree  *)
(* (lines 255-257), for any number of threads that submit, until an id is  *)
(* published before an earlier one is written.                             *)
THEOREM VerdictStable == Spec => FinalVerdictStable
<1> DEFINE J == Inv /\ (overtaken \/ (JudgeInv /\ Settled))
<1>1. Init => J
  BY InvInit, SavedInit, RingInitOK, HeldInit, SettledInit DEF JudgeInv
<1>2. J /\ [Next]_vars => J'
  BY InvStep, OvertakenKept, JudgeStep, SettledStep DEF JudgeInv
<1>3. J /\ [Next]_vars =>
        [\A i \in Slots : ~overtaken /\ msgStatus[i] \in Final =>
           /\ msgStatus'[i] = msgStatus[i]
           /\ msgText'[i] = msgText[i]
           /\ msgResults'[i] = msgResults[i]]_vars
  <2> SUFFICES ASSUME J, [Next]_vars, NEW i \in Slots,
                      ~overtaken, msgStatus[i] \in Final
               PROVE  /\ msgStatus'[i] = msgStatus[i]
                      /\ msgText'[i] = msgText[i]
                      /\ msgResults'[i] = msgResults[i]
    OBVIOUS
  <2> QED
    BY FinalSame DEF JudgeInv, SlotSame
<1> QED
  BY <1>1, <1>2, <1>3, PTL DEF Spec, FinalVerdictStable

-----------------------------------------------------------------------------
(* The verdict of a run that is defined is one of three.                   *)
LEMMA SoundVerdicts ==
  ASSUME NEW v \in Sound
  PROVE  /\ v \in Verdicts /\ v.status \in Final
         /\ v.text = IF v.status = "END" THEN "" ELSE "compiler_output"
         /\ v.results # "torn"
         /\ v = [status |-> v.status, text |-> v.text, results |-> v.results]
<1>1. \/ v = [status |-> "END", text |-> "", results |-> "some"]
      \/ v = [status |-> "END", text |-> "", results |-> "none"]
      \/ v = [status |-> "COMPILE_ERROR", text |-> "compiler_output",
              results |-> "none"]
  BY DEF Sound, VerdictsOf
<1>2. ASSUME NEW st, NEW text, NEW res \in Results,
             v = [status |-> st, text |-> text, results |-> res],
             \/ st = "END" /\ text = ""
             \/ st = "COMPILE_ERROR" /\ text = "compiler_output"
      PROVE  /\ v \in Verdicts /\ v.status \in Final
             /\ v.text = IF v.status = "END" THEN "" ELSE "compiler_output"
             /\ v.results # "torn"
             /\ v = [status |-> v.status, text |-> v.text, results |-> v.results]
  <2>1. v.status = st /\ v.text = text /\ v.results = res
    BY <1>2
  <2>2. st \in MQ!STATUS /\ text \in Texts
    BY <1>2 DEF MQ!STATUS, Texts
  <2>3. v \in Verdicts
    BY <1>2, <2>2 DEF Verdicts
  <2>4. text = IF st = "END" THEN "" ELSE "compiler_output"
    BY <1>2
  <2>5. st \in Final /\ res # "torn"
    BY <1>2 DEF Results, Final
  <2> QED
    BY <1>2, <2>1, <2>3, <2>4, <2>5
<1>3. "some" \in Results /\ "none" \in Results
  BY DEF Results
<1> QED
  BY <1>1, <1>2, <1>3

LEMMA RunSound ==
  ASSUME NEW id, msgPath[id] # None, NEW o \in OutcomesOf(id), o # "undefined",
         NEW v \in VerdictsOf(o)
  PROVE  v \in Sound
<1>1. o \in {"tests", "no_tests", "compile_error", "compile_throws"}
  BY JudgeWorkerAssumption DEF OutcomesOf
<1>2. o # "compile_throws"
  BY DEF VerdictsOf
<1> QED
  BY <1>1, <1>2 DEF Sound

(* Whoever judges a slot is the only one that writes it.                   *)
LEMMA OwnSlot ==
  ASSUME Inv, RingOK, HeldOK, [Next]_vars, NEW v \in Workers, wpc[v] \in Judging
  PROVE  SlotSame(wid[v]) \/ Stores(v)
<1>1. Holding(v) /\ HeldId(v) = wid[v] /\ Out(wid[v]) /\ wid[v] \in Slots
  BY DEF Holding, HeldId, HeldOK, Inv, TypeOK
<1>2. ASSUME NEW h \in HttpThreads, Fills(h, wid[v]) PROVE FALSE
  BY <1>1, <1>2, FilledNotOut
<1>3. ASSUME NEW w \in Workers, Stores(w), wid[w] = wid[v] PROVE w = v
  BY <1>1, <1>3, StoresHeld DEF HeldOK
<1> QED
  BY <1>1, <1>2, <1>3, SlotStep

StoringAt(w) ==
  /\ wpc[w] \in Judging \ {"judge"} => fellOff \/ wres[w] \in Sound
  /\ wpc[w] \in {"results", "results_done", "status", "print"}
       => msgText[wid[w]] = wres[w].text
  /\ wpc[w] \in {"status", "print"} => msgResults[wid[w]] = wres[w].results

(* What becomes of a judge thread: it stores, it has just run, or it keeps *)
(* what it has or has nothing.                                             *)
LEMMA StageStep ==
  ASSUME Inv, [Next]_vars, NEW v \in Workers
  PROVE  \/ Stores(v)
         \/ Run(v)
         \/ wpc'[v] \notin Judging \ {"judge"}
         \/ wpc'[v] = wpc[v] /\ wid'[v] = wid[v] /\ wres'[v] = wres[v]
<1> DEFINE Goal == \/ Stores(v)
                   \/ Run(v)
                   \/ wpc'[v] \notin Judging \ {"judge"}
                   \/ wpc'[v] = wpc[v] /\ wid'[v] = wid[v] /\ wres'[v] = wres[v]
<1>1. SameWork(v) => Goal
  BY DEF SameWork, Judging
<1>2. ASSUME NEW h \in HttpThreads, HttpStep(h) \/ Begins(h) PROVE Goal
  BY <1>1, <1>2, HttpFrame
<1>3. ASSUME NEW w \in Workers, WorkStep(w) \/ SpuriousWakeup(w), v # w PROVE Goal
  BY <1>1, <1>3, WorkFrame
<1>4. ASSUME WorkStep(v) \/ SpuriousWakeup(v) PROVE Goal
  <2>1. CASE Lock(v) \/ Dequed(v) \/ Sleep(v) \/ PrintVerdict(v) \/ SpuriousWakeup(v)
    BY <2>1 DEF Lock, Dequed, Sleep, PrintVerdict, SpuriousWakeup, WorkAt,
       Inv, TypeOK, Judging
  <2>2. CASE DequeStep(v) \/ RunDies(v) \/ PrintNothing(v)
    BY <2>2 DEF DequeStep, RunDies, PrintNothing, Die, workVars
  <2> QED
    BY <1>4, <2>1, <2>2 DEF WorkStep, Stores
<1>5. CASE UNCHANGED vars
  BY <1>5 DEF vars, workVars
<1> QED
  BY <1>2, <1>3, <1>4, <1>5 DEF Next, HttpThreads, Begins

LEMMA FellOffKept ==
  ASSUME TypeOK, [Next]_vars, fellOff
  PROVE  fellOff'
<1>1. ASSUME NEW h \in HttpThreads, HttpStep(h) \/ Begins(h) PROVE fellOff' = fellOff
  BY <1>1 DEF HttpStep, IssueStep, Issued, IssueFull, SaveFile, SaveFileThrows,
     Enque, QueueStep, Queued, Notify, PrintStatus, PrintText, PrintShort,
     CheckEnd, PrintResults, PrintTorn, Polled, Die, Begins, PostJudge,
     PostUnsupported, Poll, PollUndefined, workVars
<1>2. ASSUME NEW w \in Workers, WorkStep(w) \/ SpuriousWakeup(w) PROVE fellOff'
  <2>1. CASE Run(w)
    BY <2>1 DEF Run
  <2>2. CASE ~Run(w)
    BY <1>2, <2>2 DEF WorkStep, Lock, DequeStep, Dequed, Sleep, RunDies,
       StoreText, StoreResults, StoreStatus, PrintVerdict, PrintNothing,
       SpuriousWakeup, Die, workVars
  <2> QED
    BY <2>1, <2>2
<1>3. CASE UNCHANGED vars
  BY <1>3 DEF vars, workVars
<1> QED
  BY <1>1, <1>2, <1>3 DEF Next, HttpThreads, Begins

LEMMA StoresStep ==
  ASSUME Inv, [Next]_vars, NEW v \in Workers, StoringAt(v), Stores(v)
  PROVE  StoringAt(v)'
<1>1. /\ TypeOK /\ wid' = wid /\ wres' = wres /\ wid[v] \in Slots
      /\ fellOff' \/ wres[v] \in Sound
  BY StoresHeld, FellOffKept DEF Inv, TypeOK, StoringAt
<1> USE DEF WorkAt, TypeOK
<1>2. CASE StoreText(v)
  <2>1. \/ wpc'[v] = "text_done"
        \/ wpc'[v] = "results" /\ msgText'[wid[v]] = wres[v].text
    BY <1>1, <1>2 DEF StoreText
  <2> QED
    BY <1>1, <2>1 DEF StoringAt
<1>3. CASE StoreResults(v)
  <2>1. /\ wpc[v] \in {"results", "results_done"} /\ msgText' = msgText
        /\ \/ wpc'[v] = "results_done"
           \/ wpc'[v] = "status" /\ msgResults'[wid[v]] = wres[v].results
    BY <1>1, <1>3 DEF StoreResults
  <2> QED
    BY <1>1, <2>1 DEF StoringAt
<1>4. CASE StoreStatus(v)
  <2>1. wpc[v] = "status" /\ wpc'[v] = "print" /\ UNCHANGED <<msgText, msgResults>>
    BY <1>1, <1>4 DEF StoreStatus, msgVars
  <2> QED
    BY <1>1, <2>1 DEF StoringAt
<1> QED
  BY <1>2, <1>3, <1>4 DEF Stores

LEMMA StoringStep ==
  ASSUME JudgeInv, StoringOK, [Next]_vars
  PROVE  StoringOK'
<1> SUFFICES ASSUME NEW v \in Workers PROVE StoringAt(v)'
  BY DEF StoringOK, StoringAt
<1>1. Inv /\ RingOK /\ HeldOK /\ StoringAt(v) /\ TypeOK
  BY DEF JudgeInv, StoringOK, StoringAt, Inv
<1>2. CASE Stores(v)
  BY <1>1, <1>2, StoresStep
<1>3. CASE Run(v)
  <2>1. wpc[v] = "judge" /\ wpc'[v] = "text"
    BY <1>1, <1>3 DEF Run, WorkAt, TypeOK
  <2>2. msgPath[wid[v]] # None
    <3>1. Holding(v) /\ HeldId(v) = wid[v]
      BY <2>1 DEF Holding, HeldId, Judging, WorkPC
    <3> QED
      BY <1>1, <3>1, RingFacts DEF HeldOK
  <2>3. fellOff' \/ wres'[v] \in Sound
    <3>1. PICK o \in OutcomesOf(wid[v]) : \E u \in VerdictsOf(o) :
            wres' = [wres EXCEPT ![v] = u] /\ fellOff' = (fellOff \/ o = "undefined")
      BY <1>3 DEF Run
    <3>2. PICK u \in VerdictsOf(o) : wres' = [wres EXCEPT ![v] = u]
      BY <3>1
    <3>3. o # "undefined" => u \in Sound
      BY <2>2, RunSound
    <3> QED
      BY <1>1, <3>1, <3>2, <3>3 DEF TypeOK
  <2> QED
    BY <2>1, <2>3 DEF StoringAt
<1>4. CASE wpc'[v] \notin Judging \ {"judge"}
  BY <1>4 DEF StoringAt, Judging, WorkPC
<1>5. CASE /\ wpc'[v] = wpc[v] /\ wid'[v] = wid[v] /\ wres'[v] = wres[v]
           /\ wpc'[v] \in Judging /\ ~Stores(v)
  <2>1. SlotSame(wid[v])
    BY <1>1, <1>5, OwnSlot
  <2>2. fellOff => fellOff'
    BY <1>1, FellOffKept
  <2> QED
    BY <1>1, <1>5, <2>1, <2>2 DEF StoringAt, SlotSame
<1> QED
  BY <1>1, <1>2, <1>3, <1>4, <1>5, StageStep

(* Storing the status makes the verdict whole.                             *)
LEMMA StatusStored ==
  ASSUME Inv, StoringOK, NEW w \in Workers, StoreStatus(w)
  PROVE  /\ VerdictAt(wid[w])' = wres[w] /\ wres[w] \in Verdicts
         /\ fellOff \/ wres[w] \in Sound
<1>1. /\ TypeOK /\ wpc[w] = "status" /\ wid[w] \in Slots
      /\ msgStatus' = [msgStatus EXCEPT ![wid[w]] = wres[w].status]
      /\ UNCHANGED <<msgText, msgResults, wid>>
  BY DEF Inv, TypeOK, StoreStatus, WorkAt, MQ!SetStatus, msgVars
<1>2. /\ wres[w] \in Verdicts
      /\ fellOff \/ wres[w] \in Sound
      /\ msgText[wid[w]] = wres[w].text
      /\ msgResults[wid[w]] = wres[w].results
  BY <1>1 DEF StoringOK, Judging, WorkPC, TypeOK
<1>3. msgStatus'[wid[w]] = wres[w].status
  BY <1>1, PartTypes
<1>4. VerdictAt(wid[w])' = [status |-> wres[w].status, text |-> wres[w].text,
                            results |-> wres[w].results]
  BY <1>1, <1>2, <1>3 DEF VerdictAt
<1>5. wres[w] = [status |-> wres[w].status, text |-> wres[w].text,
                 results |-> wres[w].results]
  BY <1>2 DEF Verdicts
<1> QED
  BY <1>2, <1>4, <1>5

LEMMA BecomesFinal ==
  ASSUME Inv, [Next]_vars, NEW i \in Slots, msgStatus[i] \notin Final,
         msgStatus'[i] \in Final
  PROVE  \E w \in Workers : StoreStatus(w) /\ wid[w] = i
<1>1. PICK w \in Workers : Stores(w) /\ wid[w] = i
  BY SlotStep DEF SlotSame, Fills, Final
<1>2. StoreStatus(w)
  BY <1>1 DEF Stores, StoreText, StoreResults, jsqVars
<1> QED
  BY <1>1, <1>2

LEMMA WholeStep ==
  ASSUME JudgeInv, Settled, StoringOK, WholeOK, [Next]_vars
  PROVE  WholeOK'
<1> SUFFICES ASSUME NEW i \in Slots, msgStatus'[i] \in Final
             PROVE  /\ VerdictAt(i)' \in Verdicts
                    /\ fellOff' \/ VerdictAt(i)' \in Sound
  BY DEF WholeOK, Verdicts, MQ!STATUS, Texts, Results, Sound, VerdictsOf
<1>0. fellOff => fellOff'
  BY FellOffKept DEF JudgeInv, Inv
<1>1. CASE msgStatus[i] \in Final
  <2>1. SlotSame(i)
    BY <1>1, FinalSame DEF JudgeInv
  <2>2. VerdictAt(i)' = VerdictAt(i)
    BY <2>1 DEF VerdictAt, SlotSame
  <2> QED
    BY <1>0, <1>1, <2>2 DEF WholeOK
<1>2. CASE msgStatus[i] \notin Final
  <2>1. PICK w \in Workers : StoreStatus(w) /\ wid[w] = i
    BY <1>2, BecomesFinal DEF JudgeInv
  <2>2. wid' = wid
    BY <2>1 DEF StoreStatus
  <2>3. /\ VerdictAt(wid[w])' = wres[w] /\ wres[w] \in Verdicts
        /\ fellOff \/ wres[w] \in Sound
    BY <2>1, StatusStored DEF JudgeInv
  <2>4. VerdictAt(i)' = wres[w]
    BY <2>1, <2>2, <2>3 DEF VerdictAt
  <2> QED
    BY <1>0, <2>3, <2>4
<1> QED
  BY <1>1, <1>2

-----------------------------------------------------------------------------
PollAt(h) ==
  /\ hpc[h] \in {"text", "check", "results"} /\ hstatus[h] \in Final
       => msgStatus[hid[h]] = hstatus[h]
  /\ hpc[h] \in {"check", "results"} /\ hstatus[h] \in Final
       => htext[h] = msgText[hid[h]]
  /\ hpc[h] = "results" => msgStatus[hid[h]] = "END"

PollSame(h) == /\ hpc'[h] = hpc[h] /\ hid'[h] = hid[h]
               /\ hstatus'[h] = hstatus[h] /\ htext'[h] = htext[h]

LEMMA PollKept ==
  ASSUME JudgeInv, Settled, [Next]_vars, NEW h \in HttpThreads, PollAt(h), PollSame(h)
  PROVE  PollAt(h)'
<1>1. msgStatus[hid[h]] \in Final => SlotSame(hid[h])
  BY FinalSame DEF JudgeInv, Inv, TypeOK
<1>2. CASE msgStatus[hid[h]] \in Final
  BY <1>1, <1>2 DEF PollAt, PollSame, SlotSame
<1>3. CASE msgStatus[hid[h]] \notin Final
  BY <1>3 DEF PollAt, PollSame, Final
<1> QED
  BY <1>2, <1>3

LEMMA PollIdle ==
  ASSUME NEW h \in HttpThreads, hpc'[h] \notin {"text", "check", "results"}
  PROVE  PollAt(h)'
BY DEF PollAt

(* The reads: of the status, of the text, of the status again.             *)
LEMMA PollReads ==
  ASSUME TypeOK, NEW h \in HttpThreads, PollAt(h),
         PrintStatus(h) \/ PrintText(h) \/ CheckEnd(h)
  PROVE  PollAt(h)'
<1>1. UNCHANGED <<msgStatus, msgText, hid>>
  BY DEF PrintStatus, PrintText, CheckEnd, jsqVars, msgVars
<1>2. CASE PrintStatus(h)
  <2>1. hpc'[h] = "text" /\ hstatus'[h] = msgStatus[hid[h]]
    BY <1>2 DEF PrintStatus, HttpAt, TypeOK
  <2> QED
    BY <1>1, <2>1 DEF PollAt
<1>3. CASE PrintText(h)
  <2>1. /\ hpc[h] = "text" /\ hpc'[h] = "check" /\ hstatus' = hstatus
        /\ htext'[h] = msgText[hid[h]]
    BY <1>3 DEF PrintText, HttpAt, TypeOK
  <2> QED
    BY <1>1, <2>1 DEF PollAt
<1>4. CASE CheckEnd(h)
  <2>1. /\ hpc[h] = "check" /\ hpc'[h] = "results" /\ msgStatus[hid[h]] = "END"
        /\ UNCHANGED <<hstatus, htext>>
    BY <1>4 DEF CheckEnd, HttpAt, TypeOK
  <2> QED
    BY <1>1, <2>1 DEF PollAt
<1> QED
  BY <1>2, <1>3, <1>4

LEMMA PollStep ==
  ASSUME JudgeInv, Settled, PollOK, [Next]_vars
  PROVE  PollOK'
<1>1. Inv /\ TypeOK /\ \A h \in HttpThreads : PollAt(h)
  BY DEF JudgeInv, Inv, PollOK, PollAt
<1>2. ASSUME \A h \in HttpThreads : PollAt(h)' PROVE PollOK'
  BY <1>2 DEF PollOK, PollAt
<1>3. \A h \in HttpThreads : PollSame(h) => PollAt(h)'
  BY <1>1, PollKept
<1>4. ASSUME NEW h \in HttpThreads, HttpStep(h) \/ Begins(h)
      PROVE  \A g \in HttpThreads : PollAt(g)'
  <2>1. \A g \in HttpThreads : g # h => PollSame(g)
    BY <1>1, <1>4, HttpFrame DEF SameHttp, PollSame
  <2>2. ASSUME PrintStatus(h) \/ PrintText(h) \/ CheckEnd(h) PROVE PollAt(h)'
    BY <1>1, <2>2, PollReads
  <2>3. ASSUME \/ IssueStep(h) \/ QueueStep(h) \/ PrintTorn(h)
               \/ \E s \in Submissions : PostUnsupported(h, s)
               \/ \E id \in PollIds : PollUndefined(h, id)
        PROVE  PollAt(h)'
    <3>1. UNCHANGED <<hpc, hid, hstatus, htext>>
      BY <2>3 DEF IssueStep, QueueStep, PrintTorn, PostUnsupported,
         PollUndefined, Die, httpVars
    <3> QED
      BY <1>3, <3>1 DEF PollSame
  <2>4. ASSUME \/ Issued(h) \/ IssueFull(h) \/ SaveFile(h) \/ SaveFileThrows(h)
               \/ Enque(h) \/ Queued(h) \/ Notify(h) \/ PrintShort(h)
               \/ PrintResults(h)
               \/ \E s \in Submissions : PostJudge(h, s)
               \/ \E id \in PollIds : Poll(h, id)
        PROVE  PollAt(h)'
    <3>1. hpc'[h] \in {"idle", "issue", "save", "enque", "queue", "notify", "status"}
      BY <1>1, <2>4 DEF Issued, IssueFull, SaveFile, SaveFileThrows, Enque,
         Queued, Notify, PrintShort, PrintResults, PostJudge, Poll, HttpAt, TypeOK
    <3> QED
      BY <3>1, PollIdle
  <2>5. PollAt(h)'
    BY <1>4, <2>2, <2>3, <2>4 DEF HttpStep, Begins
  <2> QED
    BY <1>3, <2>1, <2>5
<1>5. ASSUME NEW w \in Workers, WorkStep(w) \/ SpuriousWakeup(w)
      PROVE  \A g \in HttpThreads : PollAt(g)'
  BY <1>1, <1>3, <1>5, WorkFrame DEF SameHttp, PollSame
<1>6. CASE UNCHANGED vars
  BY <1>2, <1>3, <1>6 DEF vars, httpVars, PollSame
<1> QED
  BY <1>2, <1>4, <1>5, <1>6 DEF Next, HttpThreads, Begins

-----------------------------------------------------------------------------
ReadInv == JudgeInv /\ Settled /\ StoringOK /\ WholeOK /\ PollOK

LEMMA ReadInit == Init => Inv /\ (overtaken \/ ReadInv)
<1>1. Init => StoringOK /\ WholeOK /\ PollOK
  <2> SUFFICES ASSUME Init PROVE StoringOK /\ WholeOK /\ PollOK
    OBVIOUS
  <2>1. msgStatus = [i \in Slots |-> "WAITING"]
    BY StoreInit, Names DEF Init, MQP!Init
  <2>2. StoringOK /\ PollOK
    BY DEF Init, StoringOK, PollOK, Judging
  <2> QED
    BY <2>1, <2>2 DEF WholeOK, Final
<1>2. Init => JudgeInv /\ Settled
  BY InvInit, SavedInit, RingInitOK, HeldInit, SettledInit DEF JudgeInv
<1> QED
  BY <1>1, <1>2 DEF ReadInv, JudgeInv

LEMMA ReadStep ==
  Inv /\ (overtaken \/ ReadInv) /\ [Next]_vars => (Inv /\ (overtaken \/ ReadInv))'
<1>1. ASSUME ReadInv, [Next]_vars, ~overtaken' PROVE ReadInv'
  <2>1. JudgeInv'
    BY <1>1, JudgeStep DEF ReadInv
  <2>2. Settled'
    BY <1>1, SettledStep DEF ReadInv, JudgeInv
  <2>3. StoringOK' /\ WholeOK' /\ PollOK'
    BY <1>1, StoringStep, WholeStep, PollStep DEF ReadInv
  <2> QED
    BY <2>1, <2>2, <2>3 DEF ReadInv
<1> QED
  BY <1>1, InvStep, OvertakenKept

(* Whatever run returns, for any number of threads that submit, until an   *)
(* id is published before an earlier one is written: a poll that prints a  *)
(* final status prints the text stored with it, and never a vector that is *)
(* being assigned to, although it reads field by field and takes no lock   *)
(* (lines 177-198 against 255-257).                                        *)
THEOREM RepliesConsistent == Spec => []ReplyConsistent
<1>1. Inv /\ (overtaken \/ ReadInv) => ReplyConsistent
  <2> SUFFICES ASSUME ReadInv, NEW h \in HttpThreads
               PROVE  /\ hpc[h] \in {"check", "results"} /\ hstatus[h] \in Final
                           => /\ msgStatus[hid[h]] = hstatus[h]
                              /\ htext[h] = msgText[hid[h]] /\ htext[h] # "torn"
                      /\ hpc[h] = "results" => msgResults[hid[h]] # "torn"
    BY DEF ReplyConsistent
  <2>1. hid[h] \in Slots
    BY DEF ReadInv, JudgeInv, Inv, TypeOK
  <2>2. ASSUME msgStatus[hid[h]] \in Final
        PROVE  msgText[hid[h]] # "torn" /\ msgResults[hid[h]] # "torn"
    <3>1. VerdictAt(hid[h]) \in Verdicts
      BY <2>1, <2>2 DEF ReadInv, WholeOK
    <3>2. msgText[hid[h]] \in Texts /\ msgResults[hid[h]] \in Results
      BY <3>1 DEF VerdictAt, Verdicts
    <3> QED
      BY <3>2 DEF Texts, Results
  <2> QED
    BY <2>2 DEF ReadInv, PollOK, Final
<1> QED
  BY <1>1, ReadInit, ReadStep, PTL DEF Spec

-----------------------------------------------------------------------------
(* Who has a submission in hand: every step is of one of five kinds.       *)
Pending(h) == hpc[h] = "issue" /\ mpc[h] # "issued"

Keeps(g) == /\ hwho'[g] = hwho[g]
            /\ hpc'[g] \in Submitting <=> hpc[g] \in Submitting
            /\ Pending(g)' => Pending(g)

Free(s) == answer[s] = "none" /\ \A g \in HttpThreads : hwho[g] # s

Quiet ==
  /\ answer' = answer /\ msgPath' = msgPath
  /\ \A g \in HttpThreads : Keeps(g)

NamesSlot(h) ==
  /\ Pending(h) /\ ~Pending(h)' /\ hwho[h] \in Submissions
  /\ mpos[h] \in Slots /\ msgPath' = [msgPath EXCEPT ![mpos[h]] = hwho[h]]
  /\ answer' = answer
  /\ \A g \in HttpThreads : Keeps(g)

Replies(h, a) ==
  /\ hpc[h] \in Submitting /\ hpc'[h] \notin Submitting
  /\ hwho[h] \in Submissions /\ hwho'[h] = None /\ ~Pending(h)'
  /\ a # "none" /\ answer' = [answer EXCEPT ![hwho[h]] = a]
  /\ msgPath' = msgPath
  /\ \A g \in HttpThreads : g # h => Keeps(g)

Accepts(h, s) ==
  /\ Free(s) /\ hpc[h] \notin Submitting /\ hpc'[h] \in Submitting
  /\ hwho'[h] = s
  /\ answer' = answer /\ msgPath' = msgPath
  /\ \A g \in HttpThreads : g # h => Keeps(g)

Refuses(s) ==
  /\ Free(s) /\ answer' = [answer EXCEPT ![s] = "not_support_lang"]
  /\ msgPath' = msgPath
  /\ \A g \in HttpThreads : Keeps(g)

HandlingCase ==
  \/ Quiet
  \/ \E h \in HttpThreads : NamesSlot(h) \/ \E a : Replies(h, a)
  \/ \E h \in HttpThreads, s \in Submissions : Accepts(h, s)
  \/ \E s \in Submissions : Refuses(s)

LEMMA SameKeeps ==
  ASSUME NEW g \in HttpThreads, SameHttp(g)
  PROVE  Keeps(g)
BY DEF SameHttp, Keeps, Pending

(* The last assignment of jsq.enque.                                       *)
LEMMA IssueCase ==
  ASSUME Inv, NEW h \in HttpThreads, IssueStep(h)
  PROVE  Quiet \/ NamesSlot(h)
<1>1. /\ TypeOK /\ UNCHANGED <<hpc, hwho, answer>> /\ MQP!Step(h)
      /\ mpc \in [HttpThreads -> MQP!PC]
  BY PartTypes, StoreActions DEF IssueStep, httpVars, Inv, MQP!Types
<1>2. \A g \in HttpThreads : g # h => Keeps(g)
  BY HttpFrame, SameKeeps DEF HttpStep
<1>3. mpc[h] # "idle" /\ mpc[h] # "issued"
  BY <1>1 DEF MQP!Step, MQP!Undo, MQP!FillRequest, MQP!FillStatus,
     MQP!FillPath, MQP!Goto
<1>4. Keeps(h) /\ Pending(h)
  BY <1>1, <1>3 DEF Keeps, Pending, Inv, Calls
<1>5. CASE MQP!FillPath(h)
  <2>1. /\ mpc[h] = "path" /\ mpc'[h] = "issued"
        /\ msgPath' = [msgPath EXCEPT ![mpos[h]] = mwho[h]]
    BY <1>1, <1>5 DEF MQP!FillPath, MQP!Goto
  <2>2. mwho[h] = hwho[h] /\ hwho[h] \in Submissions
    BY <1>4 DEF Inv, Contents, Pending, Submitting
  <2>3. mpos[h] \in Slots
    BY <2>1, PartTypes DEF MQP!Holds, MQP!Fills
  <2> QED
    BY <1>1, <1>2, <1>4, <2>1, <2>2, <2>3 DEF NamesSlot, Pending
<1>6. CASE ~MQP!FillPath(h)
  <2>1. msgPath' = msgPath
    BY <1>1, <1>6 DEF MQP!Step, MQP!Undo, MQP!FillRequest, MQP!FillStatus, MQP!slots
  <2> QED
    BY <1>1, <1>2, <1>4, <2>1 DEF Quiet
<1> QED
  BY <1>5, <1>6

LEMMA ReplyCase ==
  ASSUME Inv, NEW h \in HttpThreads, IssueFull(h) \/ SaveFileThrows(h) \/ Notify(h)
  PROVE  \E a : Replies(h, a)
<1>1. TypeOK
  BY DEF Inv
<1>2. PICK a \in {"500", "id"} : Reply(h, a)
  BY DEF IssueFull, SaveFileThrows, Notify
<1>3. hpc[h] \in {"issue", "save", "notify"} /\ hpc'[h] = "idle"
  BY <1>1 DEF IssueFull, SaveFileThrows, Notify, HttpAt, TypeOK
<1>4. hwho[h] \in Submissions
  BY <1>3 DEF Inv, Contents, Submitting
<1>5. msgPath' = msgPath
  BY StoreActions DEF IssueFull, SaveFileThrows, Notify, jsqVars, MQP!Return, MQP!slots
<1>6. /\ answer' = [answer EXCEPT ![hwho[h]] = a]
      /\ hwho'[h] = None
  BY <1>1, <1>2 DEF Reply, TypeOK
<1>7. \A g \in HttpThreads : g # h => Keeps(g)
  BY HttpFrame, SameKeeps DEF HttpStep
<1> QED
  BY <1>3, <1>4, <1>5, <1>6, <1>7 DEF Replies, Submitting, Pending

LEMMA ArriveCase ==
  ASSUME Inv, NEW h \in HttpThreads, NEW s \in Submissions, PostJudge(h, s)
  PROVE  Accepts(h, s)
<1>1. TypeOK
  BY DEF Inv
<1>2. /\ hpc[h] = "idle" /\ hpc'[h] = "issue" /\ hwho'[h] = s
      /\ Free(s) /\ answer' = answer
  BY <1>1 DEF PostJudge, HttpAt, TypeOK, Arrives, Free
<1>3. msgPath' = msgPath
  BY StoreActions DEF PostJudge, MQP!Claim, MQP!slots
<1>4. \A g \in HttpThreads : g # h => Keeps(g)
  BY HttpFrame, SameKeeps DEF Begins
<1> QED
  BY <1>2, <1>3, <1>4 DEF Accepts, Submitting

LEMMA HandlingCases ==
  ASSUME Inv, [Next]_vars
  PROVE  HandlingCase
<1>1. TypeOK
  BY DEF Inv
<1>2. ASSUME NEW h \in HttpThreads, HttpStep(h) \/ Begins(h) PROVE HandlingCase
  <2>1. \A g \in HttpThreads : g # h => Keeps(g)
    BY <1>2, HttpFrame, SameKeeps
  <2>2. CASE IssueStep(h)
    BY <2>2, IssueCase DEF HandlingCase
  <2>3. CASE IssueFull(h) \/ SaveFileThrows(h) \/ Notify(h)
    BY <2>3, ReplyCase DEF HandlingCase
  <2>4. CASE \E s \in Submissions : PostJudge(h, s)
    BY <2>4, ArriveCase DEF HandlingCase
  <2>5. CASE \E s \in Submissions : PostUnsupported(h, s)
    <3>1. PICK s \in Submissions : PostUnsupported(h, s)
      BY <2>5
    <3>2. UNCHANGED <<hpc, hwho, mpc, msgPath>>
      BY <3>1 DEF PostUnsupported, jsqVars
    <3>3. \A g \in HttpThreads : Keeps(g)
      BY <3>2 DEF Keeps, Pending
    <3> QED
      BY <3>1, <3>2, <3>3 DEF PostUnsupported, Arrives, Free, Refuses, HandlingCase
  <2>6. CASE Issued(h)
    <3>1. hpc[h] = "issue" /\ hpc'[h] = "save" /\ UNCHANGED <<hwho, answer>>
      BY <1>1, <2>6 DEF Issued, HttpAt, TypeOK
    <3>2. msgPath' = msgPath
      BY <2>6, StoreActions DEF Issued, MQP!Return, MQP!slots
    <3> QED
      BY <2>1, <3>1, <3>2 DEF Keeps, Pending, Submitting, Quiet, HandlingCase
  <2>7. CASE SaveFile(h) \/ Enque(h) \/ Queued(h)
    <3>1. /\ hpc[h] \in {"save", "enque", "queue"}
          /\ hpc'[h] \in {"enque", "queue", "notify"}
          /\ UNCHANGED <<hwho, answer, msgPath>>
      BY <1>1, <2>7 DEF SaveFile, Enque, Queued, HttpAt, TypeOK, jsqVars
    <3> QED
      BY <2>1, <3>1 DEF Keeps, Pending, Submitting, Quiet, HandlingCase
  <2>8. CASE \/ PrintStatus(h) \/ PrintText(h) \/ PrintShort(h)
             \/ CheckEnd(h) \/ PrintResults(h)
             \/ \E id \in PollIds : Poll(h, id)
    <3>1. /\ hpc[h] \in {"idle", "status", "text", "check", "results"}
          /\ hpc'[h] \in {"idle", "status", "text", "check", "results"}
          /\ UNCHANGED <<hwho, answer, msgPath>>
      BY <1>1, <2>8 DEF PrintStatus, PrintText, PrintShort, CheckEnd,
         PrintResults, Poll, Polled, HttpAt, TypeOK, jsqVars
    <3> QED
      BY <2>1, <3>1 DEF Keeps, Pending, Submitting, Quiet, HandlingCase
  <2>9. CASE \/ QueueStep(h) \/ PrintTorn(h)
             \/ \E id \in PollIds : PollUndefined(h, id)
    <3>1. UNCHANGED <<hpc, hwho, mpc, answer, msgPath>>
      BY <2>9 DEF QueueStep, PrintTorn, PollUndefined, Die, httpVars, jsqVars
    <3> QED
      BY <3>1 DEF Keeps, Pending, Quiet, HandlingCase
  <2> QED
    BY <1>2, <2>2, <2>3, <2>4, <2>5, <2>6, <2>7, <2>8, <2>9 DEF HttpStep, Begins
<1>3. ASSUME NEW w \in Workers, WorkStep(w) \/ SpuriousWakeup(w) PROVE HandlingCase
  BY <1>3, WorkFrame, SameKeeps DEF Quiet, HandlingCase
<1>4. CASE UNCHANGED vars
  BY <1>4 DEF vars, httpVars, jsqVars, Keeps, Pending, Quiet, HandlingCase
<1> QED
  BY <1>2, <1>3, <1>4 DEF Next, HttpThreads, Begins

LEMMA HandlingInit == Init => Handling
<1> SUFFICES ASSUME Init PROVE Handling
  OBVIOUS
<1>1. msgPath = [i \in Slots |-> None]
  BY StoreInit, Names DEF Init, MQP!Init
<1> QED
  BY <1>1 DEF Init, Handling, Submitting

LEMMA HandlingStep ==
  ASSUME Inv, Handling, [Next]_vars
  PROVE  Handling'
<1>1. /\ answer \in [Submissions -> {"none", "id", "500", "not_support_lang"}]
      /\ msgPath \in [Slots -> Submissions \cup {None}]
      /\ None \notin Submissions
      /\ \A g \in HttpThreads : hpc[g] \in Submitting => hwho[g] \in Submissions
  BY PartTypes, Names, JudgeWorkerAssumption DEF Inv, TypeOK, Contents, MQP!Types
<1>2. /\ \A g \in HttpThreads : hpc[g] \notin Submitting => hwho[g] = None
      /\ \A g \in HttpThreads : hpc[g] \in Submitting => answer[hwho[g]] = "none"
      /\ \A f, g \in HttpThreads : hwho[f] = hwho[g] /\ hwho[f] # None => f = g
      /\ \A g \in HttpThreads : Pending(g) => \A i \in Slots : msgPath[i] # hwho[g]
      /\ \A i \in Slots : msgPath[i] # None /\ answer[msgPath[i]] = "none" =>
           \E g \in HttpThreads : hwho[g] = msgPath[i]
      /\ \A i, j \in Slots : msgPath[i] = msgPath[j] /\ msgPath[i] # None => i = j
  BY DEF Handling, Pending
<1>3. CASE Quiet
  BY <1>2, <1>3 DEF Quiet, Keeps, Handling, Pending
<1>4. ASSUME NEW h \in HttpThreads, NamesSlot(h) PROVE Handling'
  <2>1. /\ answer' = answer /\ Pending(h) /\ ~Pending(h)'
        /\ mpos[h] \in Slots /\ hwho[h] \in Submissions
        /\ msgPath' = [msgPath EXCEPT ![mpos[h]] = hwho[h]]
        /\ \A g \in HttpThreads : Keeps(g)
    BY <1>4 DEF NamesSlot
  <2>2. msgPath'[mpos[h]] = hwho[h]
    BY <1>1, <2>1
  <2>3. \A i \in Slots : i # mpos[h] => msgPath'[i] = msgPath[i]
    BY <1>1, <2>1
  <2>4. \A i \in Slots : msgPath[i] # hwho[h]
    BY <1>2, <2>1
  <2>5. /\ \A g \in HttpThreads : hpc'[g] \notin Submitting => hwho'[g] = None
        /\ \A g \in HttpThreads : hpc'[g] \in Submitting => answer'[hwho'[g]] = "none"
        /\ \A f, g \in HttpThreads : hwho'[f] = hwho'[g] /\ hwho'[f] # None => f = g
    BY <1>2, <2>1 DEF Keeps
  <2>6. ASSUME NEW g \in HttpThreads, Pending(g)', NEW i \in Slots
        PROVE  msgPath'[i] # hwho'[g]
    <3>1. g # h /\ Pending(g) /\ hwho'[g] = hwho[g]
      BY <2>1, <2>6 DEF Keeps
    <3>2. hwho[g] # hwho[h]
      BY <1>1, <1>2, <2>1, <3>1
    <3> QED
      BY <1>2, <2>2, <2>3, <3>1, <3>2
  <2>7. ASSUME NEW i \in Slots, msgPath'[i] # None, answer'[msgPath'[i]] = "none"
        PROVE  \E g \in HttpThreads : hwho'[g] = msgPath'[i]
    <3>1. CASE i = mpos[h]
      BY <2>1, <2>2, <3>1 DEF Keeps
    <3>2. CASE i # mpos[h]
      BY <1>2, <2>1, <2>3, <2>7, <3>2 DEF Keeps
    <3> QED
      BY <3>1, <3>2
  <2>8. ASSUME NEW i \in Slots, NEW j \in Slots, msgPath'[i] = msgPath'[j],
               msgPath'[i] # None
        PROVE  i = j
    BY <1>2, <2>2, <2>3, <2>4, <2>8
  <2> QED
    BY <2>5, <2>6, <2>7, <2>8 DEF Handling, Pending
<1>5. ASSUME NEW h \in HttpThreads, NEW a, Replies(h, a) PROVE Handling'
  <2>1. /\ hpc[h] \in Submitting /\ hpc'[h] \notin Submitting
        /\ hwho[h] \in Submissions /\ hwho'[h] = None /\ ~Pending(h)'
        /\ a # "none" /\ msgPath' = msgPath
        /\ \A g \in HttpThreads : g # h => Keeps(g)
    BY <1>5 DEF Replies
  <2>2. /\ answer'[hwho[h]] = a
        /\ \A s \in Submissions : s # hwho[h] => answer'[s] = answer[s]
    BY <1>1, <1>5 DEF Replies
  <2>3. \A g \in HttpThreads : g # h => hwho[g] # hwho[h]
    BY <1>1, <1>2, <2>1
  <2>4. /\ \A g \in HttpThreads : hpc'[g] \notin Submitting => hwho'[g] = None
        /\ \A f, g \in HttpThreads : hwho'[f] = hwho'[g] /\ hwho'[f] # None => f = g
        /\ \A g \in HttpThreads : Pending(g)' => \A i \in Slots : msgPath'[i] # hwho'[g]
    BY <1>2, <2>1 DEF Keeps
  <2>5. ASSUME NEW g \in HttpThreads, hpc'[g] \in Submitting
        PROVE  answer'[hwho'[g]] = "none"
    <3>1. g # h /\ hpc[g] \in Submitting /\ hwho'[g] = hwho[g]
      BY <2>1, <2>5 DEF Keeps
    <3> QED
      BY <1>1, <1>2, <2>2, <2>3, <3>1
  <2>6. ASSUME NEW i \in Slots, msgPath'[i] # None, answer'[msgPath'[i]] = "none"
        PROVE  \E g \in HttpThreads : hwho'[g] = msgPath'[i]
    <3>1. msgPath[i] \in Submissions /\ msgPath[i] # hwho[h]
      BY <1>1, <2>1, <2>2, <2>6
    <3>2. PICK g \in HttpThreads : hwho[g] = msgPath[i]
      BY <1>2, <2>1, <2>2, <2>6, <3>1
    <3> QED
      BY <2>1, <3>1, <3>2 DEF Keeps
  <2>7. \A i, j \in Slots : msgPath'[i] = msgPath'[j] /\ msgPath'[i] # None => i = j
    BY <1>2, <2>1
  <2> QED
    BY <2>4, <2>5, <2>6, <2>7 DEF Handling, Pending
<1>6. ASSUME NEW h \in HttpThreads, NEW s \in Submissions, Accepts(h, s)
      PROVE  Handling'
  <2>1. /\ Free(s) /\ hpc[h] \notin Submitting /\ hpc'[h] \in Submitting
        /\ hwho'[h] = s /\ answer' = answer /\ msgPath' = msgPath
        /\ \A g \in HttpThreads : g # h => Keeps(g)
    BY <1>6 DEF Accepts
  <2>2. hwho[h] = None /\ answer[s] = "none" /\ \A g \in HttpThreads : hwho[g] # s
    BY <1>2, <2>1 DEF Free
  <2>3. \A i \in Slots : msgPath[i] # s
    BY <1>1, <1>2, <2>2
  <2>4. /\ \A g \in HttpThreads : hpc'[g] \notin Submitting => hwho'[g] = None
        /\ \A g \in HttpThreads : hpc'[g] \in Submitting => answer'[hwho'[g]] = "none"
        /\ \A f, g \in HttpThreads : hwho'[f] = hwho'[g] /\ hwho'[f] # None => f = g
    BY <1>2, <2>1, <2>2 DEF Keeps
  <2>5. \A g \in HttpThreads : Pending(g)' => \A i \in Slots : msgPath'[i] # hwho'[g]
    BY <1>2, <2>1, <2>3 DEF Keeps
  <2>6. ASSUME NEW i \in Slots, msgPath'[i] # None, answer'[msgPath'[i]] = "none"
        PROVE  \E g \in HttpThreads : hwho'[g] = msgPath'[i]
    <3>1. PICK g \in HttpThreads : hwho[g] = msgPath[i]
      BY <1>2, <2>1, <2>6
    <3> QED
      BY <2>1, <2>2, <2>6, <3>1 DEF Keeps
  <2>7. \A i, j \in Slots : msgPath'[i] = msgPath'[j] /\ msgPath'[i] # None => i = j
    BY <1>2, <2>1
  <2> QED
    BY <2>4, <2>5, <2>6, <2>7 DEF Handling, Pending
<1>7. ASSUME NEW s \in Submissions, Refuses(s) PROVE Handling'
  <2>1. /\ Free(s) /\ msgPath' = msgPath /\ \A g \in HttpThreads : Keeps(g)
        /\ answer'[s] = "not_support_lang"
        /\ \A r \in Submissions : r # s => answer'[r] = answer[r]
    BY <1>1, <1>7 DEF Refuses
  <2>2. /\ \A g \in HttpThreads : hwho'[g] = hwho[g] /\ hwho[g] # s
        /\ \A g \in HttpThreads : hpc'[g] \in Submitting <=> hpc[g] \in Submitting
        /\ \A g \in HttpThreads : Pending(g)' => Pending(g)
    BY <2>1 DEF Keeps, Free
  <2>3. ASSUME NEW g \in HttpThreads, hpc'[g] \in Submitting
        PROVE  answer'[hwho'[g]] = "none"
    <3>1. hpc[g] \in Submitting /\ hwho'[g] = hwho[g] /\ hwho[g] # s
      BY <2>2, <2>3
    <3>2. hwho[g] \in Submissions /\ answer[hwho[g]] = "none"
      BY <1>1, <1>2, <3>1
    <3> QED
      BY <2>1, <3>1, <3>2
  <2>4. ASSUME NEW i \in Slots, msgPath'[i] # None, answer'[msgPath'[i]] = "none"
        PROVE  \E g \in HttpThreads : hwho'[g] = msgPath'[i]
    <3>1. msgPath[i] \in Submissions /\ msgPath[i] # s /\ answer[msgPath[i]] = "none"
      BY <1>1, <2>1, <2>4
    <3>2. PICK g \in HttpThreads : hwho[g] = msgPath[i]
      BY <1>1, <1>2, <3>1
    <3> QED
      BY <2>1, <2>2, <3>2
  <2>5. /\ \A g \in HttpThreads : hpc'[g] \notin Submitting => hwho'[g] = None
        /\ \A f, g \in HttpThreads : hwho'[f] = hwho'[g] /\ hwho'[f] # None => f = g
    BY <1>2, <2>2
  <2>6. ASSUME NEW g \in HttpThreads, Pending(g)', NEW i \in Slots
        PROVE  msgPath'[i] # hwho'[g]
    <3>1. Pending(g) /\ hwho'[g] = hwho[g]
      BY <2>2, <2>6
    <3> QED
      BY <1>2, <2>1, <3>1
  <2>7. \A i, j \in Slots : msgPath'[i] = msgPath'[j] /\ msgPath'[i] # None => i = j
    BY <1>2, <2>1
  <2> QED
    BY <2>3, <2>4, <2>5, <2>6, <2>7 DEF Handling, Pending
<1> QED
  BY <1>3, <1>4, <1>5, <1>6, <1>7, HandlingCases DEF HandlingCase

-----------------------------------------------------------------------------
(* The state of JudgeService: what has been put on the ring, what the      *)
(* judge threads have, the verdicts and what the polls show of them.       *)
Active(w) == Holding(w) /\ wpc[w] # "print"
Showing(h) == hpc[h] \in {"check", "results"} /\ hstatus[h] \in Final

QueuedNow  == [k \in 1..Len(given) |-> msgPath[given[k]]]
JudgingNow == [w \in Workers |-> Taken(w)]
VerdictNow == [s \in Submissions |->
  IF FinalOf(s) = {} THEN None
  ELSE LET i == CHOOSE i \in FinalOf(s) : TRUE
       IN [status |-> msgStatus[i], text |-> msgText[i],
           results |-> msgResults[i]]]
ShownNow   == [h \in HttpThreads |->
  IF hpc[h] \in {"check", "results"} /\ hstatus[h] \in Final
  THEN [of |-> msgPath[hid[h]], status |-> hstatus[h], text |-> htext[h]]
  ELSE None]

QueuedOf(s) == \E k \in 1..Len(given) : msgPath[given[k]] = s

LEMMA ServiceActions ==
  ASSUME NEW s, NEW w, NEW v, NEW h
  PROVE  /\ Service!Submit(s) <=>
              /\ answer[s] = "none" /\ ~Service!Queued(s)
              /\ QueuedNow' = Append(QueuedNow, s)
              /\ UNCHANGED <<answer, Len(taken), JudgingNow, VerdictNow, ShownNow>>
         /\ Service!Tell(s) <=>
              /\ answer[s] = "none"
              /\ \/ Service!Queued(s) /\ answer' = [answer EXCEPT ![s] = "id"]
                 \/ ~Service!Queued(s) /\ \E r \in {"500", "not_support_lang"} :
                      answer' = [answer EXCEPT ![s] = r]
              /\ UNCHANGED <<QueuedNow, Len(taken), JudgingNow, VerdictNow, ShownNow>>
         /\ Service!Take(w) <=>
              /\ JudgingNow[w] = None
              /\ Len(taken) < Len(QueuedNow)
              /\ JudgingNow' = [JudgingNow EXCEPT ![w] = QueuedNow[Len(taken) + 1]]
              /\ (Len(taken))' = Len(taken) + 1
              /\ UNCHANGED <<answer, QueuedNow, VerdictNow, ShownNow>>
         /\ Service!Judge(w, v) <=>
              /\ JudgingNow[w] # None
              /\ VerdictNow' = [VerdictNow EXCEPT ![JudgingNow[w]] = v]
              /\ JudgingNow' = [JudgingNow EXCEPT ![w] = None]
              /\ UNCHANGED <<answer, QueuedNow, Len(taken), ShownNow>>
         /\ Service!Show(h, s) <=>
              /\ VerdictNow[s] # None
              /\ ShownNow' = [ShownNow EXCEPT ![h] =
                   [of |-> s, status |-> VerdictNow[s].status, text |-> VerdictNow[s].text]]
              /\ UNCHANGED <<answer, QueuedNow, Len(taken), JudgingNow, VerdictNow>>
         /\ Service!Finish(h) <=>
              /\ ShownNow' = [ShownNow EXCEPT ![h] = None]
              /\ UNCHANGED <<answer, QueuedNow, Len(taken), JudgingNow, VerdictNow>>
BY DEF Service!Submit, Service!Tell, Service!Take, Service!Judge, Service!Show,
   Service!Finish, QueuedNow, JudgingNow, VerdictNow, ShownNow

-----------------------------------------------------------------------------
(* What the ring has been given.                                           *)
LEMMA QueuedFacts ==
  ASSUME Inv, RingOK
  PROVE  /\ Len(QueuedNow) = Len(given)
         /\ \A k \in 1..Len(given) : QueuedNow[k] = msgPath[given[k]]
         /\ \A s : Service!Queued(s) <=> QueuedOf(s)
<1>1. Len(given) \in Nat
  BY RingFacts
<1>2. Len(QueuedNow) = Len(given)
  BY <1>1 DEF QueuedNow
<1>3. \A k \in 1..Len(given) : QueuedNow[k] = msgPath[given[k]]
  BY DEF QueuedNow
<1>4. \A s : Service!Queued(s) <=> \E k \in 1..Len(QueuedNow) : QueuedNow[k] = s
  BY DEF Service!Queued, QueuedNow
<1> QED
  BY <1>2, <1>3, <1>4 DEF QueuedOf

LEMMA QueuedSame ==
  ASSUME Inv, RingOK, [Next]_vars, given' = given
  PROVE  QueuedNow' = QueuedNow
<1>1. \A k \in 1..Len(given) : given[k] \in Slots /\ msgPath[given[k]] # None
  BY RingFacts
<1>2. \A k \in 1..Len(given) : msgPath'[given[k]] = msgPath[given[k]]
  BY <1>1, PathKept
<1> QED
  BY <1>2 DEF QueuedNow

LEMMA QueuedMore ==
  ASSUME Inv, RingOK, NEW n \in Slots, given' = Append(given, n), msgPath' = msgPath
  PROVE  QueuedNow' = Append(QueuedNow, msgPath[n])
<1>1. given \in Seq(Slots) /\ Len(given) \in Nat
  BY RingFacts
<1>2. /\ Len(given') = Len(given) + 1 /\ given'[Len(given) + 1] = n
      /\ \A k \in 1..Len(given) : given'[k] = given[k]
  BY <1>1
<1>3. /\ QueuedNow \in Seq({msgPath[i] : i \in Slots}) /\ Len(QueuedNow) = Len(given)
      /\ \A k \in 1..Len(given) : QueuedNow[k] = msgPath[given[k]]
  BY <1>1 DEF QueuedNow
<1>4. QueuedNow' = [k \in 1..(Len(given) + 1) |-> msgPath[given'[k]]]
  BY <1>2 DEF QueuedNow
<1>5. Append(QueuedNow, msgPath[n]) =
        [k \in 1..(Len(given) + 1) |->
           IF k = Len(given) + 1 THEN msgPath[n] ELSE QueuedNow[k]]
  BY <1>1, <1>3
<1>6. \A k \in 1..(Len(given) + 1) :
        msgPath[given'[k]] = IF k = Len(given) + 1 THEN msgPath[n] ELSE QueuedNow[k]
  BY <1>1, <1>2, <1>3
<1> QED
  BY <1>4, <1>5, <1>6

(* Only drawing a ticket puts an id on the ring.                           *)
LEMMA GivenStep ==
  ASSUME Inv, [Next]_vars
  PROVE  \/ given' = given
         \/ \E h \in HttpThreads : QueueStep(h) /\ JQP!EnqTicket(h)
<1> USE DEF JQP!ring, JQP!counters, JQP!locals, JQP!history
<1>1. ASSUME NEW h \in HttpThreads, HttpStep(h) \/ Begins(h)
      PROVE  given' = given \/ (QueueStep(h) /\ JQP!EnqTicket(h))
  <2>1. \/ UNCHANGED jqVars \/ (QueueStep(h) /\ JQP!EnqStep(h)) \/ JQP!Return(h)
        \/ JQP!EnqReserve(h, hid[h])
    BY <1>1, RingActions DEF HttpStep, IssueStep, Issued, IssueFull, SaveFile,
       SaveFileThrows, Enque, QueueStep, Queued, Notify, PrintStatus, PrintText,
       PrintShort, CheckEnd, PrintResults, PrintTorn, Polled, Die,
       Begins, PostJudge, PostUnsupported, Poll, PollUndefined
  <2> QED
    BY <2>1 DEF jqVars, JQP!EnqStep, JQP!EnqUndo, JQP!EnqWrap,
       JQP!EnqWrite, JQP!EnqPublish, JQP!Return, JQP!EnqReserve
<1>2. ASSUME NEW w \in Workers, WorkStep(w) \/ SpuriousWakeup(w)
      PROVE  given' = given
  <2>1. \/ UNCHANGED jqVars \/ JQP!DeqReserve(w) \/ JQP!Return(w) \/ JQP!DeqStep(w)
    BY <1>2, RingActions DEF WorkStep, Lock, DequeStep, Dequed, Sleep, Run,
       RunDies, StoreText, StoreResults, StoreStatus, PrintVerdict,
       PrintNothing, SpuriousWakeup, Die
  <2> QED
    BY <2>1 DEF jqVars, JQP!DeqReserve, JQP!Return, JQP!DeqStep, JQP!DeqRead,
       JQP!DeqUndo, JQP!DeqWrap, JQP!DeqTicket, JQP!DeqRelease
<1>3. CASE UNCHANGED vars
  BY <1>3 DEF vars, jqVars
<1> QED
  BY <1>1, <1>2, <1>3 DEF Next, HttpThreads, Begins

-----------------------------------------------------------------------------
(* What a judge thread has taken and not judged yet.                       *)
TakenOK ==
  \A w \in Workers : Taken(w) = IF Active(w) THEN msgPath[HeldId(w)] ELSE None

LEMMA TakenIs == Inv => TakenOK
<1> SUFFICES ASSUME Inv, NEW w \in Workers
             PROVE  Taken(w) = IF Active(w) THEN msgPath[HeldId(w)] ELSE None
  BY DEF TakenOK
<1>1. wpc[w] # "deque" => qpc[w] = "idle"
  BY DEF Inv, Calls
<1>2. CASE qpc[w] \in {"d_release", "d_true"}
  BY <1>1, <1>2 DEF Taken, Active, Holding, HeldId, Judging
<1>3. CASE qpc[w] \notin {"d_release", "d_true"}
  BY <1>3 DEF Taken, Active, Holding, HeldId, Judging
<1> QED
  BY <1>2, <1>3

LEMMA ActiveKept ==
  ASSUME Inv, RingOK, [Next]_vars, NEW v \in Workers, Active(v), ~StoreStatus(v)
  PROVE  Active(v)'
<1>1. /\ TypeOK /\ (wpc[v] # "deque" => qpc[v] = "idle")
      /\ Holding(v) /\ wpc[v] # "print"
  BY DEF Inv, Calls, Active
<1>2. SameWork(v) => Active(v)'
  BY <1>1 DEF SameWork, Active, Holding, Judging
<1>3. ASSUME NEW h \in HttpThreads, HttpStep(h) \/ Begins(h) PROVE Active(v)'
  BY <1>2, <1>3, HttpFrame
<1>4. ASSUME NEW w \in Workers, WorkStep(w) \/ SpuriousWakeup(w), v # w
      PROVE  Active(v)'
  BY <1>2, <1>4, WorkFrame
<1>5. ASSUME WorkStep(v) \/ SpuriousWakeup(v) PROVE Active(v)'
  <2>1. CASE DequeStep(v)
    <3>1. JQP!DeqStep(v) /\ wpc' = wpc
      BY <2>1, RingActions DEF DequeStep, workVars
    <3>2. qpc[v] # "idle"
      BY <3>1, RingAssumed, JQP!DeqStepFrame
    <3>3. wpc[v] = "deque" /\ qpc[v] \in {"d_release", "d_true"}
      BY <1>1, <3>2 DEF Holding, Judging
    <3>4. JQP!DeqRelease(v)
      BY <3>1, <3>3 DEF JQP!DeqStep, JQP!DeqUndo, JQP!DeqWrap, JQP!DeqTicket,
         JQP!DeqRead, JQP!Goto
    <3>5. qpc'[v] = "d_true"
      BY <3>4, PartTypes DEF JQP!DeqRelease, JQP!Goto
    <3> QED
      BY <3>1, <3>3, <3>5 DEF Active, Holding
  <2>2. CASE Dequed(v)
    BY <1>1, <2>2 DEF Dequed, WorkAt, TypeOK, Active, Holding, Judging, WorkPC
  <2>3. CASE Run(v) \/ StoreText(v) \/ StoreResults(v)
    <3>1. PICK to \in {"text", "text_done", "results", "results_done", "status"} :
            wpc' = [wpc EXCEPT ![v] = to]
      BY <2>3 DEF Run, StoreText, StoreResults, WorkAt
    <3>2. wpc'[v] = to
      BY <1>1, <3>1 DEF TypeOK
    <3> QED
      BY <3>2 DEF Active, Holding, Judging, WorkPC
  <2>4. CASE RunDies(v) \/ PrintNothing(v)
    BY <1>1, <2>4 DEF RunDies, PrintNothing, Die, workVars, jqVars, Active, Holding
  <2>5. CASE Lock(v) \/ Sleep(v) \/ PrintVerdict(v) \/ SpuriousWakeup(v)
    BY <1>1, <2>5 DEF Lock, Sleep, PrintVerdict, SpuriousWakeup, WorkAt, Holding,
       Judging
  <2> QED
    BY <1>5, <2>1, <2>2, <2>3, <2>4, <2>5 DEF WorkStep
<1>6. CASE UNCHANGED vars
  BY <1>2, <1>6 DEF vars, jqVars, workVars, SameWork
<1> QED
  BY <1>3, <1>4, <1>5, <1>6 DEF Next, HttpThreads, Begins

LEMMA TakenSame ==
  ASSUME JudgeInv, [Next]_vars, NEW v \in Workers, ~Reads(v), ~StoreStatus(v)
  PROVE  Taken(v)' = Taken(v)
<1>1. Inv /\ RingOK /\ HeldOK /\ Inv'
  BY InvStep DEF JudgeInv
<1>2. /\ Taken(v) = IF Active(v) THEN msgPath[HeldId(v)] ELSE None
      /\ (Taken(v) = IF Active(v) THEN msgPath[HeldId(v)] ELSE None)'
  <2>1. Inv' => TakenOK'
    BY TakenIs, PTL
  <2> QED
    BY <1>1, <2>1, TakenIs DEF TakenOK
<1>3. Active(v)' => Active(v) /\ HeldId(v)' = HeldId(v)
  BY <1>1, HoldersStep DEF Active
<1>4. Active(v) => Active(v)'
  BY <1>1, ActiveKept
<1>5. CASE Active(v)
  <2>1. PICK i : i = HeldId(v) /\ Out(i)
    BY <1>1, <1>5 DEF Active, HeldOK
  <2>2. i \in Slots /\ msgPath'[i] = msgPath[i]
    BY <1>1, <2>1, RingFacts, PathKept
  <2> QED
    BY <1>2, <1>3, <1>4, <1>5, <2>1, <2>2
<1>6. CASE ~Active(v)
  BY <1>2, <1>3, <1>6
<1> QED
  BY <1>5, <1>6

-----------------------------------------------------------------------------
(* The verdict of a submission is that of its only slot.                   *)
VerdictOK ==
  /\ \A s \in Submissions, i \in Slots :
       msgPath[i] = s /\ msgStatus[i] \in Final => VerdictNow[s] = VerdictAt(i)
  /\ \A s \in Submissions :
       (\A i \in Slots : msgPath[i] = s => msgStatus[i] \notin Final)
         => VerdictNow[s] = None

LEMMA VerdictIs == Handling => VerdictOK
<1> SUFFICES ASSUME Handling PROVE VerdictOK
  OBVIOUS
<1>0. None \notin Submissions
  BY JudgeWorkerAssumption
<1>1. ASSUME NEW s \in Submissions, NEW i \in Slots, msgPath[i] = s, msgStatus[i] \in Final
      PROVE  VerdictNow[s] = VerdictAt(i)
  <2>1. FinalOf(s) = {i}
    BY <1>0, <1>1 DEF FinalOf, Handling
  <2> DEFINE c == CHOOSE j \in FinalOf(s) : TRUE
  <2>2. c = i /\ FinalOf(s) # {}
    BY <2>1
  <2>3. VerdictNow[s] = IF FinalOf(s) = {} THEN None ELSE VerdictAt(c)
    BY DEF VerdictNow, VerdictAt
  <2> HIDE DEF c
  <2> QED
    BY <2>2, <2>3
<1>2. ASSUME NEW s \in Submissions,
             \A i \in Slots : msgPath[i] = s => msgStatus[i] \notin Final
      PROVE  VerdictNow[s] = None
  <2>1. FinalOf(s) = {}
    BY <1>2 DEF FinalOf
  <2> QED
    BY <2>1 DEF VerdictNow
<1> QED
  BY <1>1, <1>2 DEF VerdictOK

LEMMA VerdictNext ==
  ASSUME Inv, Handling, [Next]_vars PROVE VerdictOK /\ VerdictOK'
<1>1. Handling'
  BY HandlingStep
<1>2. Handling' => VerdictOK'
  BY VerdictIs, PTL
<1> QED
  BY <1>1, <1>2, VerdictIs

(* Whose verdict is not being stored keeps what it has.                    *)
LEMMA VerdictKept ==
  ASSUME JudgeInv, Settled, Handling, [Next]_vars, NEW s \in Submissions,
         \A w \in Workers : StoreStatus(w) => msgPath[wid[w]] # s
  PROVE  VerdictNow'[s] = VerdictNow[s]
<1>1. VerdictOK /\ VerdictOK'
  BY VerdictNext DEF JudgeInv
<1>2. \A i \in Slots : msgStatus[i] \in Final =>
        SlotSame(i) /\ msgPath[i] # None /\ msgPath'[i] = msgPath[i]
  <2> SUFFICES ASSUME NEW i \in Slots, msgStatus[i] \in Final
               PROVE  SlotSame(i) /\ msgPath[i] # None /\ msgPath'[i] = msgPath[i]
    OBVIOUS
  <2>1. SlotSame(i)
    BY FinalSame DEF JudgeInv
  <2>2. msgPath[i] # None
    BY RingFacts DEF JudgeInv, Settled
  <2> QED
    BY <2>1, <2>2, PathKept DEF JudgeInv
<1>3. CASE \E i \in Slots : msgPath[i] = s /\ msgStatus[i] \in Final
  <2>1. PICK i \in Slots : msgPath[i] = s /\ msgStatus[i] \in Final
    BY <1>3
  <2>2. VerdictAt(i)' = VerdictAt(i) /\ msgPath'[i] = s /\ msgStatus'[i] \in Final
    BY <1>2, <2>1 DEF VerdictAt, SlotSame
  <2>3. VerdictNow[s] = VerdictAt(i)
    BY <1>1, <2>1 DEF VerdictOK
  <2>4. VerdictNow'[s] = VerdictAt(i)'
    BY <1>1, <2>2 DEF VerdictOK
  <2> QED
    BY <2>2, <2>3, <2>4
<1>4. CASE \A i \in Slots : msgPath[i] = s => msgStatus[i] \notin Final
  <2>1. ASSUME NEW i \in Slots, msgPath'[i] = s, msgStatus'[i] \in Final PROVE FALSE
    <3>1. CASE msgStatus[i] \in Final
      BY <1>2, <1>4, <2>1, <3>1
    <3>2. CASE msgStatus[i] \notin Final
      <4>1. PICK w \in Workers : StoreStatus(w) /\ wid[w] = i
        BY <2>1, <3>2, BecomesFinal DEF JudgeInv
      <4>2. msgPath' = msgPath
        BY <4>1, WorkFrame DEF JudgeInv, WorkStep
      <4> QED
        BY <2>1, <4>1, <4>2
    <3> QED
      BY <3>1, <3>2
  <2> QED
    BY <1>1, <1>4, <2>1 DEF VerdictOK
<1> QED
  BY <1>3, <1>4

LEMMA VerdictStored ==
  ASSUME ReadInv, Handling, ~fellOff, [Next]_vars, NEW w \in Workers, StoreStatus(w)
  PROVE  /\ msgPath[wid[w]] \in Submissions
         /\ wres[w] \in Sound
         /\ VerdictNow' = [VerdictNow EXCEPT ![msgPath[wid[w]]] = wres[w]]
<1>1. /\ Inv /\ RingOK /\ HeldOK /\ JudgeInv /\ Settled
      /\ msgPath' = msgPath /\ wid' = wid /\ wid[w] \in Slots
  BY WorkFrame DEF ReadInv, JudgeInv, WorkStep, StoreStatus, Inv, TypeOK
<1>2. VerdictAt(wid[w])' = wres[w] /\ wres[w] \in Sound
  <2>1. /\ VerdictAt(wid[w])' = wres[w]
        /\ fellOff \/ wres[w] \in Sound
    BY <1>1, StatusStored DEF ReadInv
  <2> QED
    BY <2>1
<1>3. PICK i \in Slots : i = wid[w]
  BY <1>1
<1>4. msgPath[i] \in Submissions
  <2>1. Holding(w) /\ HeldId(w) = i
    BY <1>1, <1>3, StoresHeld DEF Stores
  <2>2. msgPath[i] # None
    BY <1>1, <2>1, RingFacts DEF HeldOK
  <2> QED
    BY <1>1, <2>2, PartTypes, Names DEF MQP!Types
<1>5. msgStatus'[i] \in Final /\ VerdictAt(i)' = wres[w]
  <2>1. VerdictAt(i)' = wres[w]
    BY <1>1, <1>2, <1>3 DEF VerdictAt
  <2> QED
    BY <1>2, <2>1, SoundVerdicts DEF VerdictAt
<1>6. VerdictNow'[msgPath[i]] = wres[w]
  BY <1>1, <1>4, <1>5, VerdictNext DEF VerdictOK
<1>7. \A v \in Workers : StoreStatus(v) => wid[v] = i
  <2> SUFFICES ASSUME NEW v \in Workers, StoreStatus(v), v # w PROVE FALSE
    BY <1>3
  <2>1. wpc[v] = "status" /\ wpc'[v] = "print"
    BY <1>1 DEF StoreStatus, WorkAt, Inv, TypeOK
  <2>2. wpc'[v] = wpc[v] \/ wpc[v] = "asleep"
    BY <1>1, WorkFrame DEF WorkStep, SameWork
  <2> QED
    BY <2>1, <2>2
<1>8. \A s \in Submissions : s # msgPath[i] => VerdictNow'[s] = VerdictNow[s]
  BY <1>1, <1>7, VerdictKept
<1>9. /\ VerdictNow = [s \in Submissions |-> VerdictNow[s]]
      /\ VerdictNow' = [s \in Submissions |-> VerdictNow'[s]]
  BY DEF VerdictNow
<1> QED
  BY <1>2, <1>3, <1>4, <1>6, <1>8, <1>9

-----------------------------------------------------------------------------
(* What a poll shows of a verdict is still that of the slot it reads.      *)
LEMMA ShownSame ==
  ASSUME ReadInv, [Next]_vars, NEW h \in HttpThreads,
         hid'[h] = hid[h], hstatus'[h] = hstatus[h], htext'[h] = htext[h],
         hpc'[h] \in {"check", "results"} <=> hpc[h] \in {"check", "results"}
  PROVE  ShownNow'[h] = ShownNow[h]
<1>1. ShownNow[h] = IF Showing(h)
                    THEN [of |-> msgPath[hid[h]], status |-> hstatus[h],
                          text |-> htext[h]]
                    ELSE None
  BY DEF ShownNow, Showing
<1>2. ShownNow'[h] = IF Showing(h)
                     THEN [of |-> msgPath'[hid[h]], status |-> hstatus[h],
                           text |-> htext[h]]
                     ELSE None
  BY DEF ShownNow, Showing
<1>3. ASSUME Showing(h) PROVE msgPath'[hid[h]] = msgPath[hid[h]]
  <2>1. PICK i \in Slots : i = hid[h]
    BY DEF ReadInv, JudgeInv, Inv, TypeOK
  <2>2. msgStatus[i] \in Final
    BY <1>3, <2>1 DEF Showing, ReadInv, PollOK
  <2>3. msgPath[i] # None
    BY <2>2, RingFacts DEF ReadInv, JudgeInv, Settled
  <2> QED
    BY <2>1, <2>3, PathKept DEF ReadInv, JudgeInv
<1> QED
  BY <1>1, <1>2, <1>3

LEMMA ShownNone ==
  ASSUME NEW h \in HttpThreads, hpc[h] \notin {"check", "results"},
         hpc'[h] \notin {"check", "results"}
  PROVE  ShownNow'[h] = ShownNow[h]
BY DEF ShownNow

LEMMA ShownOwn ==
  ASSUME ReadInv, [Next]_vars, NEW h \in HttpThreads, HttpStep(h) \/ Begins(h),
         ~(PrintText(h) \/ PrintShort(h) \/ PrintResults(h))
  PROVE  ShownNow'[h] = ShownNow[h]
<1>1. TypeOK /\ (HttpStep(h) \/ Begins(h))
  BY DEF ReadInv, JudgeInv, Inv
<1>2. CASE \/ IssueStep(h) \/ QueueStep(h) \/ PrintTorn(h)
           \/ \E s \in Submissions : PostUnsupported(h, s)
           \/ \E id \in PollIds : PollUndefined(h, id)
  <2>1. UNCHANGED <<hpc, hid, hstatus, htext>>
    BY <1>2 DEF IssueStep, QueueStep, PrintTorn, PostUnsupported,
       PollUndefined, Die, httpVars
  <2> QED
    BY <2>1, ShownSame
<1>3. CASE CheckEnd(h)
  <2>1. /\ hpc[h] = "check" /\ hpc'[h] = "results"
        /\ UNCHANGED <<hid, hstatus, htext>>
    BY <1>1, <1>3 DEF CheckEnd, HttpAt, TypeOK
  <2> QED
    BY <2>1, ShownSame
<1>4. CASE \/ Issued(h) \/ IssueFull(h) \/ SaveFile(h) \/ SaveFileThrows(h)
           \/ Enque(h) \/ Queued(h) \/ Notify(h) \/ PrintStatus(h)
           \/ \E s \in Submissions : PostJudge(h, s)
           \/ \E id \in PollIds : Poll(h, id)
  <2>1. /\ hpc[h] \in {"idle", "issue", "save", "enque", "queue", "notify", "status"}
        /\ hpc'[h] \in {"idle", "issue", "save", "enque", "queue", "notify",
                        "status", "text"}
    BY <1>1, <1>4 DEF Issued, IssueFull, SaveFile, SaveFileThrows, Enque,
       Queued, Notify, PrintStatus, PostJudge, Poll, HttpAt, TypeOK
  <2> QED
    BY <2>1, ShownNone
<1> QED
  BY <1>1, <1>2, <1>3, <1>4 DEF HttpStep, Begins

-----------------------------------------------------------------------------
ServiceInv == ReadInv /\ Handling /\ Queuing /\ ~fellOff

(* A handler leaves the judge threads' part alone, and they leave its.     *)
LEMMA HttpLeaves ==
  ASSUME ServiceInv, [Next]_vars, NEW h \in HttpThreads, HttpStep(h) \/ Begins(h)
  PROVE  /\ taken' = taken /\ JudgingNow' = JudgingNow /\ VerdictNow' = VerdictNow
         /\ \A g \in HttpThreads : g # h => ShownNow'[g] = ShownNow[g]
         /\ given' = given \/ (QueueStep(h) /\ JQP!EnqTicket(h))
<1>1. /\ ReadInv /\ JudgeInv /\ Inv /\ RingOK /\ Settled /\ Handling
      /\ qpc \in [HttpThreads \cup Workers -> JQP!PC]
      /\ wpc \in [Workers -> WorkPC]
  BY PartTypes DEF ServiceInv, ReadInv, JudgeInv, Inv, TypeOK
<1>2. /\ \A w \in Workers : SameWork(w)
      /\ \A g \in HttpThreads : g # h => SameHttp(g)
  BY <1>1, HttpFrame
<1>3. ASSUME NEW w \in Workers PROVE ~Reads(w) /\ ~StoreStatus(w)
  <2>1. ASSUME Reads(w) PROVE FALSE
    <3>1. qpc[w] = "d_read" /\ qpc'[w] = "d_release"
      BY <1>1, <2>1, ReadsNew
    <3> QED
      BY <1>2, <3>1 DEF SameWork
  <2>2. ASSUME StoreStatus(w) PROVE FALSE
    <3>1. wpc[w] = "status" /\ wpc'[w] = "print"
      BY <1>1, <2>2 DEF StoreStatus, WorkAt
    <3> QED
      BY <1>2, <3>1 DEF SameWork
  <2> QED
    BY <2>1, <2>2
<1>4. taken' = taken
  BY <1>1, <1>3, TakenStep
<1>5. JudgingNow' = JudgingNow
  <2>1. \A w \in Workers : Taken(w)' = Taken(w)
    BY <1>1, <1>3, TakenSame
  <2> QED
    BY <2>1 DEF JudgingNow
<1>6. VerdictNow' = VerdictNow
  <2>1. \A s \in Submissions : VerdictNow'[s] = VerdictNow[s]
    BY <1>1, <1>3, VerdictKept
  <2>2. /\ VerdictNow = [s \in Submissions |-> VerdictNow[s]]
        /\ VerdictNow' = [s \in Submissions |-> VerdictNow'[s]]
    BY DEF VerdictNow
  <2> QED
    BY <2>1, <2>2
<1>7. \A g \in HttpThreads : g # h => ShownNow'[g] = ShownNow[g]
  BY <1>1, <1>2, ShownSame DEF SameHttp
<1>8. given' = given \/ (QueueStep(h) /\ JQP!EnqTicket(h))
  <2>1. ASSUME NEW g \in HttpThreads, g # h, JQP!EnqTicket(g) PROVE FALSE
    <3>1. qpc[g] = "e_ticket" /\ qpc'[g] = "e_write"
      BY <1>1, <2>1 DEF JQP!EnqTicket, JQP!Goto
    <3> QED
      BY <1>2, <2>1, <3>1 DEF SameHttp
  <2> QED
    BY <1>1, <2>1, GivenStep
<1> QED
  BY <1>4, <1>5, <1>6, <1>7, <1>8

LEMMA WorkLeaves ==
  ASSUME ServiceInv, [Next]_vars, NEW w \in Workers, WorkStep(w) \/ SpuriousWakeup(w)
  PROVE  /\ answer' = answer /\ QueuedNow' = QueuedNow /\ ShownNow' = ShownNow
         /\ \A v \in Workers : v # w => ~Reads(v) /\ ~StoreStatus(v)
         /\ ~StoreStatus(w) => VerdictNow' = VerdictNow
         /\ ~Reads(w) => taken' = taken
<1>1. /\ ReadInv /\ JudgeInv /\ Inv /\ RingOK /\ Settled /\ Handling
      /\ qpc \in [HttpThreads \cup Workers -> JQP!PC]
      /\ wpc \in [Workers -> WorkPC]
  BY PartTypes DEF ServiceInv, ReadInv, JudgeInv, Inv, TypeOK
<1>2. /\ \A v \in Workers : v # w => SameWork(v)
      /\ \A g \in HttpThreads : SameHttp(g)
      /\ answer' = answer
  BY <1>1, WorkFrame
<1>3. ASSUME NEW v \in Workers, v # w PROVE ~Reads(v) /\ ~StoreStatus(v)
  <2>1. ASSUME Reads(v) PROVE FALSE
    <3>1. qpc[v] = "d_read" /\ qpc'[v] = "d_release"
      BY <1>1, <2>1, ReadsNew
    <3> QED
      BY <1>2, <1>3, <3>1 DEF SameWork
  <2>2. ASSUME StoreStatus(v) PROVE FALSE
    <3>1. wpc[v] = "status" /\ wpc'[v] = "print"
      BY <1>1, <2>2 DEF StoreStatus, WorkAt
    <3> QED
      BY <1>2, <1>3, <3>1 DEF SameWork
  <2> QED
    BY <2>1, <2>2
<1>4. ~Reads(w) => taken' = taken
  BY <1>1, <1>3, TakenStep
<1>5. ASSUME ~StoreStatus(w) PROVE VerdictNow' = VerdictNow
  <2>1. \A s \in Submissions : VerdictNow'[s] = VerdictNow[s]
    BY <1>1, <1>3, <1>5, VerdictKept
  <2>2. /\ VerdictNow = [s \in Submissions |-> VerdictNow[s]]
        /\ VerdictNow' = [s \in Submissions |-> VerdictNow'[s]]
    BY DEF VerdictNow
  <2> QED
    BY <2>1, <2>2
<1>6. ShownNow' = ShownNow
  <2>1. \A g \in HttpThreads : ShownNow'[g] = ShownNow[g]
    BY <1>1, <1>2, ShownSame DEF SameHttp
  <2>2. /\ ShownNow = [g \in HttpThreads |-> ShownNow[g]]
        /\ ShownNow' = [g \in HttpThreads |-> ShownNow'[g]]
    BY DEF ShownNow
  <2> QED
    BY <2>1, <2>2
<1>7. given' = given
  <2>1. ASSUME NEW g \in HttpThreads, JQP!EnqTicket(g) PROVE FALSE
    <3>1. qpc[g] = "e_ticket" /\ qpc'[g] = "e_write"
      BY <1>1, <2>1 DEF JQP!EnqTicket, JQP!Goto
    <3> QED
      BY <1>2, <3>1 DEF SameHttp
  <2> QED
    BY <1>1, <2>1, GivenStep
<1>8. QueuedNow' = QueuedNow
  BY <1>1, <1>7, QueuedSame
<1> QED
  BY <1>2, <1>3, <1>4, <1>5, <1>6, <1>8

-----------------------------------------------------------------------------
(* The steps of JudgeService, one by one.                                  *)

(* The id of the handler gets its turn on the ring.                        *)
LEMMA SubmitsService ==
  ASSUME ServiceInv, [Next]_vars, NEW h \in HttpThreads,
         QueueStep(h), JQP!EnqTicket(h)
  PROVE  \E s \in Submissions : Service!Submit(s)
<1>1. /\ ReadInv /\ JudgeInv /\ Inv /\ RingOK /\ Handling /\ Queuing
      /\ TypeOK /\ HttpStep(h)
  BY DEF ServiceInv, ReadInv, JudgeInv, Inv, HttpStep
<1>2. /\ qpc[h] = "e_ticket" /\ given' = Append(given, qid[h])
      /\ UNCHANGED <<hpc, answer, msgPath>>
  BY DEF QueueStep, httpVars, jsqVars, JQP!EnqTicket, JQP!Goto
<1>3. hpc[h] = "queue" /\ qid[h] = hid[h]
  BY <1>1, <1>2 DEF Inv, Calls, Queuing
<1>4. PICK n \in Slots : n = qid[h]
  BY <1>1, PartTypes
<1>5. /\ msgPath[n] = hwho[h] /\ hwho[h] \in Submissions /\ answer[hwho[h]] = "none"
  BY <1>1, <1>3, <1>4 DEF Inv, Contents, Submitting, Handling
<1>6. ~QueuedOf(msgPath[n])
  <2> SUFFICES ASSUME NEW k \in 1..Len(given), msgPath[given[k]] = msgPath[n]
               PROVE  FALSE
    BY DEF QueuedOf
  <2>1. given[k] \in Slots
    BY <1>1, RingFacts
  <2>2. given[k] = n
    BY <1>1, <1>5, <2>1, JudgeWorkerAssumption DEF Handling
  <2> QED
    BY <1>1, <1>2, <1>4, <2>2 DEF RingOK, JQP!Fresh, JQP!Claiming
<1>7. QueuedNow' = Append(QueuedNow, msgPath[n])
  BY <1>1, <1>2, <1>4, QueuedMore
<1>8. /\ taken' = taken /\ JudgingNow' = JudgingNow /\ VerdictNow' = VerdictNow
      /\ \A g \in HttpThreads : g # h => ShownNow'[g] = ShownNow[g]
  BY <1>1, HttpLeaves
<1>9. ShownNow' = ShownNow
  <2>1. ShownNow'[h] = ShownNow[h]
    BY <1>2, <1>3, ShownNone
  <2>2. /\ ShownNow = [g \in HttpThreads |-> ShownNow[g]]
        /\ ShownNow' = [g \in HttpThreads |-> ShownNow'[g]]
    BY DEF ShownNow
  <2> QED
    BY <1>8, <2>1, <2>2
<1>10. ~Service!Queued(msgPath[n])
  BY <1>1, <1>6, QueuedFacts
<1> QED
  BY <1>2, <1>5, <1>7, <1>8, <1>9, <1>10, ServiceActions

(* Nothing but the reply.                                                  *)
LEMMA ReplyLeaves ==
  ASSUME ServiceInv, [Next]_vars, NEW h \in HttpThreads,
         \/ IssueFull(h) \/ SaveFileThrows(h) \/ Notify(h)
         \/ \E s \in Submissions : PostUnsupported(h, s)
  PROVE  UNCHANGED <<QueuedNow, Len(taken), JudgingNow, VerdictNow, ShownNow>>
<1>0. IssueFull(h) \/ SaveFileThrows(h) \/ Notify(h)
        \/ \E s \in Submissions : PostUnsupported(h, s)
  OBVIOUS
<1>1. /\ ReadInv /\ Inv /\ RingOK /\ TypeOK /\ (HttpStep(h) \/ Begins(h))
  BY <1>0 DEF ServiceInv, ReadInv, JudgeInv, Inv, HttpStep, Begins
<1>2. /\ hpc[h] \in {"idle", "issue", "save", "notify"} /\ hpc'[h] = "idle"
      /\ given' = given
  BY <1>0, <1>1 DEF IssueFull, SaveFileThrows, Notify, PostUnsupported, HttpAt,
     TypeOK, jqVars
<1>3. /\ taken' = taken /\ JudgingNow' = JudgingNow /\ VerdictNow' = VerdictNow
      /\ \A g \in HttpThreads : g # h => ShownNow'[g] = ShownNow[g]
  BY <1>1, HttpLeaves
<1>4. QueuedNow' = QueuedNow
  BY <1>1, <1>2, QueuedSame
<1>5. ShownNow' = ShownNow
  <2>1. ShownNow'[h] = ShownNow[h]
    BY <1>2, ShownNone
  <2>2. /\ ShownNow = [g \in HttpThreads |-> ShownNow[g]]
        /\ ShownNow' = [g \in HttpThreads |-> ShownNow'[g]]
    BY DEF ShownNow
  <2> QED
    BY <1>3, <2>1, <2>2
<1> QED
  BY <1>3, <1>4, <1>5

(* The id is told when it has had its turn, a refusal when it never will.  *)
LEMMA TellsService ==
  ASSUME ServiceInv, [Next]_vars, NEW h \in HttpThreads,
         \/ IssueFull(h) \/ SaveFileThrows(h) \/ Notify(h)
         \/ \E s \in Submissions : PostUnsupported(h, s)
  PROVE  \E s \in Submissions : Service!Tell(s)
<1>0. /\ IssueFull(h) \/ SaveFileThrows(h) \/ Notify(h)
           \/ \E s \in Submissions : PostUnsupported(h, s)
      /\ UNCHANGED <<QueuedNow, Len(taken), JudgingNow, VerdictNow, ShownNow>>
  BY ReplyLeaves
<1>1. /\ Inv /\ RingOK /\ Handling /\ Queuing /\ TypeOK
      /\ None \notin Submissions
      /\ \A s : Service!Queued(s) <=> QueuedOf(s)
      /\ \A k \in 1..Len(given) : given[k] \in Slots /\ given[k] \in offered
  BY QueuedFacts, RingFacts, JudgeWorkerAssumption
  DEF ServiceInv, ReadInv, JudgeInv, Inv
<1>2. ASSUME NEW s \in Submissions, answer[s] = "none", ~QueuedOf(s),
             NEW r \in {"500", "not_support_lang"}, answer' = [answer EXCEPT ![s] = r]
      PROVE  Service!Tell(s)
  BY <1>0, <1>1, <1>2, ServiceActions
<1>3. hpc[h] \in Submitting => hwho[h] \in Submissions /\ answer[hwho[h]] = "none"
  BY <1>1 DEF Inv, Contents, Handling
<1>4. CASE IssueFull(h)
  <2>1. /\ hpc[h] = "issue" /\ mpc[h] = "full"
        /\ answer' = [answer EXCEPT ![hwho[h]] = "500"]
    BY <1>4 DEF IssueFull, HttpAt, Reply
  <2>2. \A i \in Slots : msgPath[i] # hwho[h]
    BY <1>1, <2>1 DEF Handling
  <2>3. ~QueuedOf(hwho[h])
    BY <1>1, <2>2 DEF QueuedOf
  <2> QED
    BY <1>2, <1>3, <2>1, <2>3 DEF Submitting
<1>5. CASE SaveFileThrows(h)
  <2>1. hpc[h] = "save" /\ answer' = [answer EXCEPT ![hwho[h]] = "500"]
    BY <1>5 DEF SaveFileThrows, HttpAt, Reply
  <2>2. /\ hid[h] \in Slots /\ hid[h] \notin offered /\ msgPath[hid[h]] = hwho[h]
        /\ hwho[h] \in Submissions
    BY <1>1, <1>3, <2>1 DEF Inv, TypeOK, Owners, Owns, Contents, Submitting
  <2>3. ~QueuedOf(hwho[h])
    <3> SUFFICES ASSUME NEW k \in 1..Len(given), msgPath[given[k]] = hwho[h]
                 PROVE  FALSE
      BY DEF QueuedOf
    <3>1. given[k] = hid[h]
      BY <1>1, <2>2 DEF Handling
    <3> QED
      BY <1>1, <2>2, <3>1
  <2> QED
    BY <1>2, <1>3, <2>1, <2>3 DEF Submitting
<1>6. CASE Notify(h)
  <2>1. hpc[h] = "notify" /\ answer' = [answer EXCEPT ![hwho[h]] = "id"]
    BY <1>6 DEF Notify, HttpAt, Reply
  <2>2. HasTurn(hid[h]) /\ msgPath[hid[h]] = hwho[h]
    BY <1>1, <2>1 DEF Queuing, Inv, Contents, Submitting
  <2>3. Service!Queued(hwho[h])
    BY <1>1, <2>2 DEF HasTurn, QueuedOf
  <2> QED
    BY <1>0, <1>3, <2>1, <2>3, ServiceActions DEF Submitting
<1>7. CASE \E s \in Submissions : PostUnsupported(h, s)
  <2>1. PICK s \in Submissions : PostUnsupported(h, s)
    BY <1>7
  <2>2. /\ answer[s] = "none" /\ \A g \in HttpThreads : hwho[g] # s
        /\ answer' = [answer EXCEPT ![s] = "not_support_lang"]
    BY <2>1 DEF PostUnsupported, Arrives
  <2>3. \A i \in Slots : msgPath[i] # s
    BY <1>1, <2>2 DEF Handling
  <2>4. ~QueuedOf(s)
    BY <1>1, <2>3 DEF QueuedOf
  <2> QED
    BY <1>2, <2>2, <2>4
<1> QED
  BY <1>0, <1>4, <1>5, <1>6, <1>7

(* A poll has read a final status and the text of that verdict.            *)
LEMMA ShowsService ==
  ASSUME ServiceInv, [Next]_vars, NEW h \in HttpThreads, PrintText(h)
  PROVE  \/ \E s \in Submissions : Service!Show(h, s)
         \/ UNCHANGED <<answer, QueuedNow, Len(taken), JudgingNow, VerdictNow, ShownNow>>
<1>1. /\ ReadInv /\ Inv /\ RingOK /\ Settled /\ Handling /\ TypeOK /\ HttpStep(h)
  BY DEF ServiceInv, ReadInv, JudgeInv, Inv, HttpStep
<1>2. /\ hpc[h] = "text" /\ hpc'[h] = "check" /\ htext'[h] = msgText[hid[h]]
      /\ UNCHANGED <<given, answer, hid, hstatus, msgPath>>
  BY <1>1 DEF PrintText, HttpAt, TypeOK, jqVars, jsqVars
<1>3. QueuedNow' = QueuedNow
  BY <1>1, <1>2, QueuedSame
<1>4. /\ taken' = taken /\ JudgingNow' = JudgingNow /\ VerdictNow' = VerdictNow
      /\ \A g \in HttpThreads : g # h => ShownNow'[g] = ShownNow[g]
  BY <1>1, HttpLeaves
<1>5. /\ ShownNow = [g \in HttpThreads |-> ShownNow[g]]
      /\ ShownNow' = [g \in HttpThreads |-> ShownNow'[g]]
  BY DEF ShownNow
<1>6. CASE hstatus[h] \notin Final
  <2>1. ShownNow[h] = None /\ ShownNow'[h] = None
    BY <1>2, <1>6 DEF ShownNow
  <2>2. ShownNow' = ShownNow
    BY <1>4, <1>5, <2>1
  <2> QED
    BY <1>2, <1>3, <1>4, <2>2
<1>7. CASE hstatus[h] \in Final
  <2>1. PICK i \in Slots : i = hid[h]
    BY <1>1 DEF TypeOK
  <2>2. msgStatus[i] = hstatus[h]
    BY <1>1, <1>2, <1>7, <2>1 DEF ReadInv, PollOK
  <2>3. msgPath[i] \in Submissions
    <3>1. msgPath[i] # None
      BY <1>1, <1>7, <2>2, RingFacts DEF Settled
    <3> QED
      BY <1>1, <3>1, PartTypes, Names DEF MQP!Types
  <2>4. VerdictNow[msgPath[i]] = VerdictAt(i)
    BY <1>1, <1>7, <2>2, <2>3, VerdictIs DEF VerdictOK
  <2>5. VerdictAt(i) # None
    <3>1. VerdictAt(i) \in Sound
      BY <1>1, <1>7, <2>2 DEF ServiceInv, ReadInv, WholeOK
    <3> QED
      BY <3>1, SoundVerdicts, NoneAssumption
  <2>6. ShownNow'[h] = [of |-> msgPath[i], status |-> VerdictAt(i).status,
                        text |-> VerdictAt(i).text]
    BY <1>2, <1>7, <2>1, <2>2 DEF ShownNow, VerdictAt
  <2>7. ShownNow' = [ShownNow EXCEPT ![h] = [of |-> msgPath[i],
                       status |-> VerdictAt(i).status, text |-> VerdictAt(i).text]]
    BY <1>4, <1>5, <2>6
  <2> QED
    BY <1>2, <1>3, <1>4, <2>3, <2>4, <2>5, <2>7, ServiceActions
<1> QED
  BY <1>6, <1>7

(* The end of a poll.                                                      *)
LEMMA FinishesService ==
  ASSUME ServiceInv, [Next]_vars, NEW h \in HttpThreads, PrintShort(h) \/ PrintResults(h)
  PROVE  Service!Finish(h)
<1>1. /\ ReadInv /\ Inv /\ RingOK /\ TypeOK /\ HttpStep(h)
  BY DEF ServiceInv, ReadInv, JudgeInv, Inv, HttpStep
<1>2. hpc'[h] = "idle" /\ UNCHANGED <<given, answer>>
  BY <1>1 DEF PrintShort, PrintResults, Polled, HttpAt, TypeOK, jqVars
<1>3. QueuedNow' = QueuedNow
  BY <1>1, <1>2, QueuedSame
<1>4. /\ taken' = taken /\ JudgingNow' = JudgingNow /\ VerdictNow' = VerdictNow
      /\ \A g \in HttpThreads : g # h => ShownNow'[g] = ShownNow[g]
  BY <1>1, HttpLeaves
<1>5. ShownNow'[h] = None
  BY <1>2 DEF ShownNow
<1>6. /\ ShownNow = [g \in HttpThreads |-> ShownNow[g]]
      /\ ShownNow' = [g \in HttpThreads |-> ShownNow'[g]]
  BY DEF ShownNow
<1>7. ShownNow' = [ShownNow EXCEPT ![h] = None]
  BY <1>4, <1>5, <1>6
<1> QED
  BY <1>2, <1>3, <1>4, <1>7, ServiceActions

(* A judge thread reads the oldest id of the ring.                         *)
LEMMA TakesService ==
  ASSUME ServiceInv, [Next]_vars, NEW w \in Workers, Reads(w)
  PROVE  Service!Take(w)
<1>1. /\ ReadInv /\ JudgeInv /\ Inv /\ Inv' /\ RingOK /\ WorkStep(w)
      /\ Len(taken) \in Nat /\ Len(given) \in Nat /\ taken \in Seq(Slots)
  BY InvStep, RingFacts DEF ServiceInv, ReadInv, JudgeInv, Reads, WorkStep
<1>2. PICK n \in Slots :
        /\ n = given[Len(taken) + 1]
        /\ qpc[w] = "d_read" /\ wpc[w] = "deque" /\ wpc'[w] = "deque"
        /\ qpc'[w] = "d_release" /\ qid'[w] = n
  BY <1>1, ReadsNew
<1>3. ~StoreStatus(w)
  BY <1>2 DEF StoreStatus, WorkAt
<1>4. /\ answer' = answer /\ QueuedNow' = QueuedNow /\ ShownNow' = ShownNow
      /\ VerdictNow' = VerdictNow
      /\ \A v \in Workers : v # w => ~Reads(v) /\ ~StoreStatus(v)
  BY <1>1, <1>3, WorkLeaves
<1>5. /\ Len(taken) < Len(given) /\ Len(taken') = Len(taken) + 1
  BY <1>1 DEF Reads
<1>6. /\ Len(QueuedNow) = Len(given)
      /\ QueuedNow[Len(taken) + 1] = msgPath[n]
  BY <1>1, <1>2, <1>5, QueuedFacts
<1>7. Taken(w) = None
  BY <1>2 DEF Taken, Judging
<1>8. Taken(w)' = msgPath[n]
  <2>1. msgPath' = msgPath
    BY <1>1, WorkFrame
  <2> QED
    BY <1>2, <2>1 DEF Taken, Judging
<1>9. \A v \in Workers : v # w => Taken(v)' = Taken(v)
  BY <1>1, <1>4, TakenSame
<1>10. JudgingNow' = [JudgingNow EXCEPT ![w] = QueuedNow[Len(taken) + 1]]
  BY <1>6, <1>8, <1>9 DEF JudgingNow
<1>11. JudgingNow[w] = None
  BY <1>7 DEF JudgingNow
<1> QED
  BY <1>4, <1>5, <1>6, <1>10, <1>11, ServiceActions

(* It stores the status, after everything else.                            *)
LEMMA JudgesService ==
  ASSUME ServiceInv, [Next]_vars, NEW w \in Workers, StoreStatus(w)
  PROVE  wres[w] \in Sound /\ Service!Judge(w, wres[w])
<1>1. /\ ReadInv /\ JudgeInv /\ Inv /\ Handling /\ TypeOK /\ WorkStep(w)
      /\ None \notin Submissions /\ ~fellOff
  BY JudgeWorkerAssumption DEF ServiceInv, ReadInv, JudgeInv, Inv, WorkStep
<1>2. /\ msgPath[wid[w]] \in Submissions /\ wres[w] \in Sound
      /\ VerdictNow' = [VerdictNow EXCEPT ![msgPath[wid[w]]] = wres[w]]
  BY <1>1, VerdictStored
<1>3. wpc[w] = "status" /\ wpc'[w] = "print" /\ qpc' = qpc /\ qpc[w] = "idle"
  BY <1>1 DEF StoreStatus, WorkAt, TypeOK, jqVars, Inv, Calls
<1>4. Taken(w) = msgPath[wid[w]]
  BY <1>3 DEF Taken, Judging, WorkPC
<1>5. Taken(w)' = None
  BY <1>3 DEF Taken, Judging
<1>6. ~Reads(w)
  BY <1>3 DEF Reads, JQP!DeqRead, JQP!Goto
<1>7. /\ answer' = answer /\ QueuedNow' = QueuedNow /\ ShownNow' = ShownNow
      /\ \A v \in Workers : v # w => ~Reads(v) /\ ~StoreStatus(v)
      /\ taken' = taken
  BY <1>1, <1>6, WorkLeaves
<1>8. \A v \in Workers : v # w => Taken(v)' = Taken(v)
  BY <1>1, <1>7, TakenSame
<1>9. JudgingNow' = [JudgingNow EXCEPT ![w] = None]
  BY <1>5, <1>8 DEF JudgingNow
<1>10. JudgingNow[w] = msgPath[wid[w]]
  BY <1>4 DEF JudgingNow
<1> QED
  BY <1>1, <1>2, <1>7, <1>9, <1>10, ServiceActions

(* Every step is one of these or changes nothing a client can tell.        *)
LEMMA ServiceNext ==
  /\ \A s \in Submissions :
       Service!Submit(s) \/ Service!Tell(s) => Service!Next
  /\ \A w \in Workers :
       Service!Take(w) \/ (\E v \in Sound : Service!Judge(w, v)) => Service!Next
  /\ \A h \in HttpThreads :
       Service!Finish(h) \/ (\E s \in Submissions : Service!Show(h, s)) => Service!Next
BY DEF Service!Next, Sound

LEMMA ServiceStep ==
  ASSUME ServiceInv, [Next]_vars
  PROVE  [Service!Next]_(Service!serviceVars)
<1> DEFINE Stutters ==
      UNCHANGED <<answer, QueuedNow, Len(taken), JudgingNow, VerdictNow, ShownNow>>
<1>1. Stutters => UNCHANGED Service!serviceVars
  BY DEF Service!serviceVars, QueuedNow, JudgingNow, VerdictNow, ShownNow
<1>2. ReadInv /\ Inv /\ RingOK
  BY DEF ServiceInv, ReadInv, JudgeInv
<1>3. ASSUME NEW h \in HttpThreads, HttpStep(h) \/ Begins(h)
      PROVE  Service!Next \/ Stutters
  <2>1. CASE QueueStep(h) /\ JQP!EnqTicket(h)
    BY <2>1, SubmitsService, ServiceNext
  <2>2. CASE \/ IssueFull(h) \/ SaveFileThrows(h) \/ Notify(h)
             \/ \E s \in Submissions : PostUnsupported(h, s)
    BY <2>2, TellsService, ServiceNext
  <2>3. CASE PrintText(h)
    BY <2>3, ShowsService, ServiceNext
  <2>4. CASE PrintShort(h) \/ PrintResults(h)
    BY <2>4, FinishesService, ServiceNext
  <2>5. CASE ~(\/ QueueStep(h) /\ JQP!EnqTicket(h)
               \/ IssueFull(h) \/ SaveFileThrows(h) \/ Notify(h)
               \/ \E s \in Submissions : PostUnsupported(h, s)
               \/ PrintText(h) \/ PrintShort(h) \/ PrintResults(h))
    <3>1. /\ taken' = taken /\ JudgingNow' = JudgingNow /\ VerdictNow' = VerdictNow
          /\ \A g \in HttpThreads : g # h => ShownNow'[g] = ShownNow[g]
          /\ given' = given
      BY <1>3, <2>5, HttpLeaves
    <3>2. QueuedNow' = QueuedNow
      BY <1>2, <3>1, QueuedSame
    <3>3. ShownNow' = ShownNow
      <4>1. ShownNow'[h] = ShownNow[h]
        BY <1>2, <1>3, <2>5, ShownOwn
      <4>2. /\ ShownNow = [g \in HttpThreads |-> ShownNow[g]]
            /\ ShownNow' = [g \in HttpThreads |-> ShownNow'[g]]
        BY DEF ShownNow
      <4> QED
        BY <3>1, <4>1, <4>2
    <3>4. answer' = answer
      BY <1>3, <2>5 DEF HttpStep, IssueStep, Issued, SaveFile, Enque, QueueStep,
         Queued, PrintStatus, CheckEnd, PrintTorn, Die, Begins, PostJudge, Poll,
         PollUndefined, httpVars
    <3> QED
      BY <3>1, <3>2, <3>3, <3>4
  <2> QED
    BY <2>1, <2>2, <2>3, <2>4, <2>5
<1>4. ASSUME NEW w \in Workers, WorkStep(w) \/ SpuriousWakeup(w)
      PROVE  Service!Next \/ Stutters
  <2>1. CASE Reads(w)
    BY <2>1, TakesService, ServiceNext
  <2>2. CASE StoreStatus(w)
    BY <2>2, JudgesService, ServiceNext
  <2>3. CASE ~Reads(w) /\ ~StoreStatus(w)
    <3>1. /\ answer' = answer /\ QueuedNow' = QueuedNow /\ ShownNow' = ShownNow
          /\ VerdictNow' = VerdictNow /\ taken' = taken
          /\ \A v \in Workers : ~Reads(v) /\ ~StoreStatus(v)
      BY <1>4, <2>3, WorkLeaves
    <3>2. \A v \in Workers : Taken(v)' = Taken(v)
      BY <3>1, TakenSame DEF ServiceInv, ReadInv
    <3>3. JudgingNow' = JudgingNow
      BY <3>2 DEF JudgingNow
    <3> QED
      BY <3>1, <3>3
  <2> QED
    BY <2>1, <2>2, <2>3
<1>5. ASSUME UNCHANGED vars PROVE Stutters
  <2>1. /\ QueuedNow' = QueuedNow /\ VerdictNow' = VerdictNow
    BY <1>5 DEF vars, jqVars, jsqVars, msgVars, QueuedNow, VerdictNow, FinalOf
  <2>2. JudgingNow' = JudgingNow
    BY <1>5 DEF vars, jqVars, jsqVars, workVars, JudgingNow, Taken
  <2>3. ShownNow' = ShownNow
    BY <1>5 DEF vars, jsqVars, httpVars, ShownNow
  <2> QED
    BY <1>5, <2>1, <2>2, <2>3 DEF vars, jqVars, httpVars
<1> QED
  BY <1>1, <1>3, <1>4, <1>5 DEF Next, HttpThreads, Begins

LEMMA ServiceInit == Init => Service!Init
<1> SUFFICES ASSUME Init PROVE Service!Init
  OBVIOUS
<1>1. JQP!Init /\ MQP!Init
  BY RingInit, StoreInit DEF Init
<1>2. given = <<>> /\ taken = <<>> /\ \A w \in Workers : qpc[w] = "idle"
  BY <1>1, Names DEF JQP!Init
<1>3. msgStatus = [i \in Slots |-> "WAITING"]
  BY <1>1, Names DEF MQP!Init
<1>4. QueuedNow = <<>> /\ Len(taken) = 0
  BY <1>2 DEF QueuedNow
<1>5. JudgingNow = [w \in Workers |-> None]
  <2>1. \A w \in Workers : Taken(w) = None
    BY <1>2 DEF Init, Taken, Judging
  <2> QED
    BY <2>1 DEF JudgingNow
<1>6. VerdictNow = [s \in Submissions |-> None]
  <2>1. \A s \in Submissions : FinalOf(s) = {}
    BY <1>3 DEF FinalOf, Final
  <2> QED
    BY <2>1 DEF VerdictNow
<1>7. ShownNow = [h \in HttpThreads |-> None]
  BY DEF Init, ShownNow
<1>8. answer = [s \in Submissions |-> "none"]
  BY DEF Init
<1>9. Service!Init <=>
        /\ answer = [s \in Submissions |-> "none"]
        /\ QueuedNow = <<>> /\ Len(taken) = 0
        /\ JudgingNow = [w \in Workers |-> None]
        /\ VerdictNow = [s \in Submissions |-> None]
        /\ ShownNow = [h \in HttpThreads |-> None]
  BY DEF Service!Init, QueuedNow, JudgingNow, VerdictNow, ShownNow
<1> QED
  BY <1>4, <1>5, <1>6, <1>7, <1>8, <1>9

(* Any number of threads that submit, judge and poll keep what             *)
(* JudgeService promises, until an id is published before an earlier one   *)
(* is written or run falls off its end, where the ring is as large as the  *)
(* store, as in main.cpp (line 11).                                        *)
THEOREM KeepsPromise ==
  ASSUME JsqSize <= JqSize
  PROVE  Spec => ServiceUntilUndefined
<1> DEFINE K == /\ Inv /\ (overtaken \/ ReadInv)
                /\ Handling /\ Queuing
<1>1. Init => K
  BY ReadInit, HandlingInit, QueuingInit
<1>2. K /\ [Next]_vars => K'
  <2> SUFFICES ASSUME K, [Next]_vars PROVE K'
    OBVIOUS
  <2>1. Handling'
    BY HandlingStep
  <2>2. Queuing'
    BY QueuingStep
  <2>3. (Inv /\ (overtaken \/ ReadInv))'
    BY ReadStep
  <2> QED
    BY <2>1, <2>2, <2>3
<1>3. K /\ [Next]_vars =>
        [overtaken \/ fellOff \/ Service!Next]_(Service!serviceVars)
  <2> SUFFICES ASSUME K, [Next]_vars, ~overtaken, ~fellOff
               PROVE  [Service!Next]_(Service!serviceVars)
    OBVIOUS
  <2>1. ServiceInv
    BY DEF ServiceInv
  <2> QED
    BY <2>1, ServiceStep
<1> QED
  BY <1>1, <1>2, <1>3, ServiceInit, PTL DEF Spec, ServiceUntilUndefined
=============================================================================
