---------------------------- MODULE JudgeWorker ----------------------------
(***************************************************************************)
(* JudgeWorker of src/src/judge/exec_judge.hpp with the two handlers of    *)
(* src/src/main.cpp that use it: POST /judge issues an id (MsgQueue),      *)
(* saves the code, puts the id on the ring (JudgeQueue) and notifies; the  *)
(* judge threads wait on the condition variable, judge and store the       *)
(* verdict; GET /result/<id>/json reads it without any lock.               *)
(*                                                                         *)
(* _run is never set to false and _idlThrNum is never read: neither is     *)
(* modelled.  The process dies (alive) when an exception leaves a thread   *)
(* or a null pointer is read.  A definition marked "mutant" is a plausible *)
(* mistake in the one that follows it, used to show that the properties    *)
(* notice it.                                                              *)
(***************************************************************************)
EXTENDS Integers, Sequences, FiniteSets

CONSTANTS JsqSize, JqSize,  \* template parameters jsq_size and jq_size
          Posters,          \* the HTTP threads that serve POST /judge
          Pollers,          \* those that serve GET /result; every thread of
                            \* the pool may serve both
          Workers,          \* the judge threads, poolsize of them
          Submissions,      \* the POST /judge requests the clients make
          Unsupported,      \* those whose lang is not supported
          Outcomes,         \* how Judger::run may end
          SaveEnds,         \* how writing the code to its file may end
          PollIds,          \* the ids the clients ask the result of
          None

HttpThreads == Posters \cup Pollers

ASSUME JudgeWorkerAssumption ==
  /\ JsqSize \in Nat \ {0}
  /\ JqSize \in Nat \ {0}
  /\ IsFiniteSet(HttpThreads)
  /\ IsFiniteSet(Workers)
  /\ HttpThreads \cap Workers = {}
  /\ Unsupported \subseteq Submissions
  /\ Outcomes \subseteq {"tests", "no_tests", "compile_error",
                         "compile_throws", "undefined"}
  /\ SaveEnds \subseteq {"written", "unwritten"}
  /\ PollIds \subseteq Nat
  /\ None \notin Submissions

VARIABLES
  \* judge_queue: jq
  q, qhead, qtail, readableCnt, writeableCnt, qpc, qid, qpos,
  offered, given, taken, overtaken,
  \* judge_msg_queue: jsq
  mhead, msgRequest, msgStatus, msgPath, mpc, mpos, mwho,
  msgText,       \* per slot: msg::msg
  msgResults,    \* per slot: whether msg::results has elements
  msgFile,       \* per slot: what became of the file at msg::code_path
  \* the HTTP threads
  hpc,           \* where each of them is in its handler
  hwho,          \* the submission it handles
  hid,           \* the local id
  hstatus,       \* what it has printed of the slot it polls
  htext,
  answer,        \* the reply to each submission, "none" before it
  \* the judge threads
  wpc,           \* where each of them is in doWork and judge
  wid,           \* the id it judges
  wres,          \* the local res of judge
  fellOff,       \* history: whether a run has fallen off its end
  alive          \* whether the process runs

jqVars   == <<q, qhead, qtail, readableCnt, writeableCnt, qpc, qid, qpos,
              offered, given, taken, overtaken>>
jsqVars  == <<mhead, msgRequest, msgStatus, msgPath, mpc, mpos, mwho>>
msgVars  == <<msgText, msgResults, msgFile>>
httpVars == <<hpc, hwho, hid, hstatus, htext, answer>>
workVars == <<wpc, wid, wres, fellOff>>
vars     == <<jqVars, jsqVars, msgVars, httpVars, workVars, alive>>

JQ == INSTANCE JudgeQueue WITH
        Size <- JqSize, Producers <- HttpThreads, Consumers <- Workers,
        Ids <- 0..(JsqSize - 1), head <- qhead, tail <- qtail

MQ == INSTANCE MsgQueue WITH
        Size <- JsqSize, Threads <- HttpThreads, head <- mhead

Slots == 0..(JsqSize - 1)
Final == {"END", "COMPILE_ERROR"}

(* What Judger::run returns: a status, a text and the result of each test. *)
(* In a slot, "torn" is a string or a vector that a judge thread is busy   *)
(* assigning to: a thread that reads it then reads anything.               *)
Texts    == {"", "compiler_output"}
Results  == {"none", "some"}
Verdicts == [status : MQ!STATUS, text : Texts, results : Results]
NoResult == [status |-> "WAITING", text |-> "", results |-> "none"]

ASSUME NoneAssumption == None \notin Verdicts

VerdictsOf(outcome) ==
  CASE outcome = "tests" ->
         {[status |-> "END", text |-> "", results |-> "some"]}
    [] outcome = "no_tests" ->
         {[status |-> "END", text |-> "", results |-> "none"]}
    [] outcome = "compile_error" ->
         {[status |-> "COMPILE_ERROR", text |-> "compiler_output",
           results |-> "none"]}
    \* run() falls off its end: the tuple is whatever the stack holds
    [] outcome = "undefined" -> Verdicts
    [] outcome = "compile_throws" -> {}

Init ==
  /\ JQ!Init
  /\ MQ!Init
  /\ msgText = [i \in Slots |-> ""]
  /\ msgResults = [i \in Slots |-> "none"]
  /\ msgFile = [i \in Slots |-> "none"]
  /\ hpc = [h \in HttpThreads |-> "idle"]
  /\ hwho = [h \in HttpThreads |-> None]
  /\ hid = [h \in HttpThreads |-> 0]
  /\ hstatus = [h \in HttpThreads |-> "WAITING"]
  /\ htext = [h \in HttpThreads |-> ""]
  /\ answer = [s \in Submissions |-> "none"]
  /\ wpc = [w \in Workers |-> "lock"]
  /\ wid = [w \in Workers |-> 0]
  /\ wres = [w \in Workers |-> NoResult]
  /\ fellOff = FALSE
  /\ alive = TRUE

HttpAt(h, from, to) ==
  /\ hpc[h] = from
  /\ hpc' = [hpc EXCEPT ![h] = to]

WorkAt(w, from, to) ==
  /\ wpc[w] = from
  /\ wpc' = [wpc EXCEPT ![w] = to]

(* The process is gone: the program has no handler for either cause. *)
Die ==
  /\ alive' = FALSE
  /\ UNCHANGED <<jqVars, jsqVars, msgVars, httpVars, workVars>>

-----------------------------------------------------------------------------
(* POST /judge and JudgeWorker::enque *)

(* The answer to submission h handles; its locals are gone. *)
Reply(h, what) ==
  /\ answer' = [answer EXCEPT ![hwho[h]] = what]
  /\ hwho' = [hwho EXCEPT ![h] = None]
  /\ hid' = [hid EXCEPT ![h] = 0]
  /\ UNCHANGED <<hstatus, htext>>

(* A submission arrives once: a client that posts again makes another one. *)
Arrives(h, s) ==
  /\ answer[s] = "none"
  /\ \A g \in HttpThreads : hwho[g] # s

PostUnsupported(h, s) ==
  /\ hpc[h] = "idle"
  /\ Arrives(h, s)
  /\ s \in Unsupported
  /\ answer' = [answer EXCEPT ![s] = "not_support_lang"]
  /\ UNCHANGED <<jqVars, jsqVars, msgVars, workVars, alive,
                 hpc, hwho, hid, hstatus, htext>>

(* jsq.enque(request_ip, pid, lang, status) begins *)
PostJudge(h, s) ==
  /\ HttpAt(h, "idle", "issue")
  /\ Arrives(h, s)
  /\ s \notin Unsupported
  /\ hwho' = [hwho EXCEPT ![h] = s]
  /\ MQ!Claim(h, s)
  /\ UNCHANGED <<jqVars, msgVars, workVars, alive, hid, hstatus, htext, answer>>

IssueStep(h) ==
  /\ MQ!Step(h)
  /\ UNCHANGED <<jqVars, msgVars, httpVars, workVars, alive>>

HasAnyId(h) == mpc[h] \in {"issued", "full"}  \* mutant: -1 is an id
HasId(h)    == mpc[h] = "issued"

Issued(h) ==
  /\ HasId(h)
  /\ HttpAt(h, "issue", "save")
  /\ hid' = [hid EXCEPT ![h] = mpos[h]]
  /\ MQ!Return(h)
  /\ UNCHANGED <<jqVars, msgVars, workVars, alive, hwho, hstatus, htext, answer>>

(* id == -1: the exception is caught in the handler, the reply stays unset *)
(* and is sent as 500.                                                     *)
IssueFull(h) ==
  /\ mpc[h] = "full"
  /\ HttpAt(h, "issue", "idle")
  /\ Reply(h, "500")
  /\ MQ!Return(h)
  /\ UNCHANGED <<jqVars, msgVars, workVars, alive>>

(* saveFile(code, jsq.get_msg(id).code_path): whether the file could be    *)
(* opened and written is not looked at, true is returned in any case, and  *)
(* the job goes on with whatever the path held before.                     *)
SaveFile(h) ==
  /\ MQ!GetMsg(hid[h])
  /\ HttpAt(h, "save", "enque")
  /\ \E how \in SaveEnds :
       msgFile' = [msgFile EXCEPT ![hid[h]] = how]
  /\ UNCHANGED <<jqVars, jsqVars, msgText, msgResults, workVars, alive,
                 hwho, hid, hstatus, htext, answer>>

(* get_msg or create_directories throws: also a 500, and the slot stays    *)
(* as it is.                                                               *)
SaveFileThrows(h) ==
  /\ HttpAt(h, "save", "idle")
  /\ Reply(h, "500")
  /\ UNCHANGED <<jqVars, jsqVars, msgVars, workVars, alive>>

(* jq.enque(id) begins *)
Enque(h) ==
  /\ HttpAt(h, "enque", "queue")
  /\ JQ!EnqReserve(h, hid[h])
  /\ UNCHANGED <<jsqVars, msgVars, workVars, alive,
                 hwho, hid, hstatus, htext, answer>>

QueueStep(h) ==
  /\ JQ!EnqStep(h)
  /\ UNCHANGED <<jsqVars, msgVars, httpVars, workVars, alive>>

(* What jq.enque returns is not looked at. *)
Queued(h) ==
  /\ qpc[h] \in {"e_true", "e_false"}
  /\ HttpAt(h, "queue", "notify")
  /\ JQ!Return(h)
  /\ UNCHANGED <<jsqVars, msgVars, workVars, alive,
                 hwho, hid, hstatus, htext, answer>>

(* The judge threads blocked in _task_cv.wait. *)
Sleepers == {w \in Workers : wpc[w] = "asleep"}

(* _task_cv.notify_one() outside the lock: it wakes one thread, if one is  *)
(* already blocked.                                                        *)
NotifyNobody == UNCHANGED wpc  \* mutant: the call is missing
NotifyOne ==
  \/ Sleepers = {} /\ UNCHANGED wpc
  \/ \E w \in Sleepers : wpc' = [wpc EXCEPT ![w] = "lock"]

(* The handler replies with the id. *)
Notify(h) ==
  /\ HttpAt(h, "notify", "idle")
  /\ NotifyOne
  /\ Reply(h, "id")
  /\ UNCHANGED <<jqVars, jsqVars, msgVars, wid, wres, fellOff, alive>>

-----------------------------------------------------------------------------
(* GET /result/<id>/json and judge_result_to_json *)

(* get_msg lets the id through and it is inside the array. *)
Poll(h, id) ==
  /\ HttpAt(h, "idle", "status")
  /\ MQ!GetMsg(id) /\ id \in Slots
  /\ hid' = [hid EXCEPT ![h] = id]
  /\ UNCHANGED <<jqVars, jsqVars, msgVars, workVars, alive,
                 hwho, hstatus, htext, answer>>

(* get_msg throws and the function falls off its end, or it returns a      *)
(* reference past the array: the reply is arbitrary, or the process dies.  *)
PollUndefined(h, id) ==
  /\ hpc[h] = "idle"
  /\ ~(MQ!GetMsg(id) /\ id \in Slots)
  /\ Die

(* The status is read first, *)
PrintStatus(h) ==
  /\ HttpAt(h, "status", "text")
  /\ hstatus' = [hstatus EXCEPT ![h] = msgStatus[hid[h]]]
  /\ UNCHANGED <<jqVars, jsqVars, msgVars, workVars, alive,
                 hwho, hid, htext, answer>>

(* then the text, *)
PrintText(h) ==
  /\ HttpAt(h, "text", "check")
  /\ htext' = [htext EXCEPT ![h] = msgText[hid[h]]]
  /\ UNCHANGED <<jqVars, jsqVars, msgVars, workVars, alive,
                 hwho, hid, hstatus, answer>>

Polled(h) ==
  /\ hid' = [hid EXCEPT ![h] = 0]
  /\ hstatus' = [hstatus EXCEPT ![h] = "WAITING"]
  /\ htext' = [htext EXCEPT ![h] = ""]
  /\ UNCHANGED <<jqVars, jsqVars, msgVars, workVars, alive, hwho, answer>>

(* then the status again, which decides whether the results follow. *)
PrintShort(h) ==
  /\ msgStatus[hid[h]] # "END"
  /\ HttpAt(h, "check", "idle")
  /\ Polled(h)

(* Mutant: the results are printed whatever the status. *)
CheckNothing(h) ==
  /\ HttpAt(h, "check", "results")
  /\ UNCHANGED <<jqVars, jsqVars, msgVars, workVars, alive,
                 hwho, hid, hstatus, htext, answer>>

CheckEnd(h) ==
  /\ msgStatus[hid[h]] = "END"
  /\ HttpAt(h, "check", "results")
  /\ UNCHANGED <<jqVars, jsqVars, msgVars, workVars, alive,
                 hwho, hid, hstatus, htext, answer>>

PrintResults(h) ==
  /\ HttpAt(h, "results", "idle")
  /\ Polled(h)

(* A vector read while it is assigned to may have a size and no elements.  *)
PrintTorn(h) ==
  /\ hpc[h] = "results"
  /\ msgResults[hid[h]] = "torn"
  /\ Die

-----------------------------------------------------------------------------
(* doWork: the loop of a judge thread *)

(* _lock is held from the first evaluation of the predicate to its last    *)
(* step, or to the moment wait has put the thread to sleep.                *)
NeverLocked == TRUE  \* mutant: a waiting thread does not take the lock
Unlocked == \A w \in Workers : wpc[w] # "deque"

(* The lock is taken and the predicate calls jq.deque(&id). *)
Lock(w) ==
  /\ Unlocked
  /\ WorkAt(w, "lock", "deque")
  /\ JQ!DeqReserve(w)
  /\ UNCHANGED <<jsqVars, msgVars, httpVars, wid, wres, fellOff, alive>>

DequeStep(w) ==
  /\ JQ!DeqStep(w)
  /\ UNCHANGED <<jsqVars, msgVars, httpVars, workVars, alive>>

Dequed(w) ==
  /\ qpc[w] = "d_true"
  /\ WorkAt(w, "deque", "judge")
  /\ wid' = [wid EXCEPT ![w] = qid[w]]
  /\ JQ!Return(w)
  /\ UNCHANGED <<jsqVars, msgVars, httpVars, wres, fellOff, alive>>

(* The predicate was false: wait unlocks and blocks in one step. *)
Sleep(w) ==
  /\ qpc[w] = "d_false"
  /\ WorkAt(w, "deque", "asleep")
  /\ JQ!Return(w)
  /\ UNCHANGED <<jsqVars, msgVars, httpVars, wid, wres, fellOff, alive>>

SpuriousWakeup(w) ==
  /\ WorkAt(w, "asleep", "lock")
  /\ UNCHANGED <<jqVars, jsqVars, msgVars, httpVars, wid, wres, fellOff, alive>>

-----------------------------------------------------------------------------
(* judge(id) *)

(* The submission of the slot is judged.  One that is not filled yet has   *)
(* an empty lang or path, and judging it is undefined; one whose file was  *)
(* not written is compiled from nothing, or from what an earlier process   *)
(* has left in the directory (JudgeRun).                                   *)
OutcomesOf(id) ==
  IF msgPath[id] = None THEN {"undefined"}
  ELSE IF msgFile[id] = "written" THEN Outcomes ELSE Outcomes \cup {"compile_error"}

(* Mutant: the status is stored as soon as run returns. *)
RunThenStatus(w) ==
  /\ MQ!GetMsg(wid[w])
  /\ WorkAt(w, "judge", "text")
  /\ \E o \in OutcomesOf(wid[w]) : \E v \in VerdictsOf(o) :
       /\ wres' = [wres EXCEPT ![w] = v]
       /\ fellOff' = (fellOff \/ o = "undefined")
       /\ MQ!SetStatus(wid[w], v.status)
  /\ UNCHANGED <<jqVars, msgVars, httpVars, wid, alive>>

Run(w) ==
  /\ MQ!GetMsg(wid[w])
  /\ WorkAt(w, "judge", "text")
  /\ \E o \in OutcomesOf(wid[w]) : \E v \in VerdictsOf(o) :
       /\ wres' = [wres EXCEPT ![w] = v]
       /\ fellOff' = (fellOff \/ o = "undefined")
  /\ UNCHANGED <<jqVars, jsqVars, msgVars, httpVars, wid, alive>>

(* An exception leaves the thread, or the garbage kills the process. *)
RunDies(w) ==
  /\ wpc[w] = "judge"
  /\ \/ ~MQ!GetMsg(wid[w])
     \/ OutcomesOf(wid[w]) \cap {"compile_throws", "undefined"} # {}
  /\ Die

(* msg.msg and msg.results are assigned without a lock, and the status     *)
(* only after both.                                                        *)
StoreText(w) ==
  \/ /\ WorkAt(w, "text", "text_done")
     /\ msgText' = [msgText EXCEPT ![wid[w]] = "torn"]
     /\ UNCHANGED <<jqVars, jsqVars, msgResults, msgFile, httpVars,
                    wid, wres, fellOff, alive>>
  \/ /\ WorkAt(w, "text_done", "results")
     /\ msgText' = [msgText EXCEPT ![wid[w]] = wres[w].text]
     /\ UNCHANGED <<jqVars, jsqVars, msgResults, msgFile, httpVars,
                    wid, wres, fellOff, alive>>

StoreResults(w) ==
  \/ /\ WorkAt(w, "results", "results_done")
     /\ msgResults' = [msgResults EXCEPT ![wid[w]] = "torn"]
     /\ UNCHANGED <<jqVars, jsqVars, msgText, msgFile, httpVars,
                    wid, wres, fellOff, alive>>
  \/ /\ WorkAt(w, "results_done", "status")
     /\ msgResults' = [msgResults EXCEPT ![wid[w]] = wres[w].results]
     /\ UNCHANGED <<jqVars, jsqVars, msgText, msgFile, httpVars,
                    wid, wres, fellOff, alive>>

StoreStatus(w) ==
  /\ WorkAt(w, "status", "print")
  /\ MQ!SetStatus(wid[w], wres[w].status)
  /\ UNCHANGED <<jqVars, msgVars, httpVars, wid, wres, fellOff, alive>>

(* The loop i <= results.size()-1 prints every result; with none of them   *)
(* the bound wraps around and results[0] is read through a null pointer.   *)
PrintVerdict(w) ==
  /\ msgResults[wid[w]] # "none"
  /\ WorkAt(w, "print", "lock")
  /\ wid' = [wid EXCEPT ![w] = 0]
  /\ wres' = [wres EXCEPT ![w] = NoResult]
  /\ UNCHANGED <<jqVars, jsqVars, msgVars, httpVars, fellOff, alive>>

PrintNothing(w) ==
  /\ wpc[w] = "print"
  /\ msgResults[wid[w]] \in {"none", "torn"}
  /\ Die

-----------------------------------------------------------------------------
(* The steps of a handler that has begun, and those of a judge thread.     *)
HttpStep(h) ==
  \/ IssueStep(h)
  \/ Issued(h)
  \/ IssueFull(h)
  \/ SaveFile(h)
  \/ SaveFileThrows(h)
  \/ Enque(h)
  \/ QueueStep(h)
  \/ Queued(h)
  \/ Notify(h)
  \/ PrintStatus(h)
  \/ PrintText(h)
  \/ PrintShort(h)
  \/ CheckEnd(h)
  \/ PrintResults(h)
  \/ PrintTorn(h)

WorkStep(w) ==
  \/ Lock(w)
  \/ DequeStep(w)
  \/ Dequed(w)
  \/ Sleep(w)
  \/ Run(w)
  \/ RunDies(w)
  \/ StoreText(w)
  \/ StoreResults(w)
  \/ StoreStatus(w)
  \/ PrintVerdict(w)
  \/ PrintNothing(w)

Next ==
  /\ alive
  /\ \/ \E h \in HttpThreads : HttpStep(h)
     \/ \E h \in Posters, s \in Submissions :
          PostJudge(h, s) \/ PostUnsupported(h, s)
     \/ \E h \in Pollers, id \in PollIds :
          Poll(h, id) \/ PollUndefined(h, id)
     \/ \E w \in Workers : WorkStep(w) \/ SpuriousWakeup(w)

Spec == Init /\ [][Next]_vars

(* A handler that has begun and a judge thread that is not asleep go on:   *)
(* they only wait for judger_core, which has a time limit, and for a lock  *)
(* that is held for the few steps of deque.  Nothing is assumed about the  *)
(* clients or about spurious wakeups.                                      *)
FairSpec ==
  /\ Spec
  /\ \A h \in HttpThreads : WF_vars(alive /\ HttpStep(h))
  /\ \A w \in Workers : WF_vars(alive /\ WorkStep(w))

-----------------------------------------------------------------------------
HttpPC == {"idle", "issue", "save", "enque", "queue", "notify",
           "status", "text", "check", "results"}
WorkPC == {"lock", "deque", "asleep", "judge", "text", "text_done",
           "results", "results_done", "status", "print"}
Judging == WorkPC \ {"lock", "deque", "asleep"}

(* Type correctness of the handlers', the judge threads' and the slots'    *)
(* state: in particular every id a thread works with is inside the array.  *)
TypeOK ==
  /\ msgText \in [Slots -> Texts \cup {"torn"}]
  /\ msgResults \in [Slots -> Results \cup {"torn"}]
  /\ msgFile \in [Slots -> {"none", "written", "unwritten"}]
  /\ hpc \in [HttpThreads -> HttpPC]
  /\ hwho \in [HttpThreads -> Submissions \cup {None}]
  /\ hid \in [HttpThreads -> Slots]
  /\ hstatus \in [HttpThreads -> MQ!STATUS]
  /\ htext \in [HttpThreads -> Texts \cup {"torn"}]
  /\ answer \in [Submissions -> {"none", "id", "500", "not_support_lang"}]
  /\ wpc \in [Workers -> WorkPC]
  /\ wid \in [Workers -> Slots]
  /\ wres \in [Workers -> Verdicts]
  /\ fellOff \in BOOLEAN
  /\ alive \in BOOLEAN

(* get_msg never throws in a judge thread, where nothing would catch it    *)
(* (line 247): whatever id the ring hands out, stale ones included, has    *)
(* been issued before, and rejected submissions do not take it back.       *)
HandedIdReadable == \A w \in Workers : wpc[w] \in Judging => MQ!GetMsg(wid[w])

(* The ring has a place for every id that can be issued, so ignoring what  *)
(* jq.enque returns (line 163) loses nothing: the id of every submission   *)
(* whose client was given one has had its turn on the ring.                *)
AnsweredIsQueued ==
  \A s \in Submissions : answer[s] = "id" =>
    \E i \in Slots : msgPath[i] = s /\ \E k \in 1..Len(given) : given[k] = i

(* Until an id is published before an earlier one is written (overtaken),  *)
(* two judge threads never work on the same submission, and the slot they  *)
(* work on was filled, and its file saved, before: neither the reference   *)
(* get_msg gives (line 247) nor the fields of the slot nor the directory   *)
(* are shared with another writer, for any number of threads that submit.  *)
ExclusiveJudging ==
  ~overtaken =>
    /\ \A w \in Workers : wpc[w] \in Judging =>
         msgPath[wid[w]] # None /\ msgFile[wid[w]] # "none"
    /\ \A v, w \in Workers :
         wpc[v] \in Judging /\ wpc[w] \in Judging /\ wid[v] = wid[w] => v = w

(* A poll that prints a final status prints the text stored with that very *)
(* status, never one that is being assigned to, and one that goes on to    *)
(* the results finds a whole vector, although it reads the fields one by   *)
(* one, the status twice, while a judge thread writes them (lines 177-198  *)
(* against 255-257), whatever run has returned.                            *)
ReplyConsistent ==
  ~overtaken => \A h \in HttpThreads :
    /\ hpc[h] \in {"check", "results"} /\ hstatus[h] \in Final
         => /\ msgStatus[hid[h]] = hstatus[h]
            /\ htext[h] = msgText[hid[h]] /\ htext[h] # "torn"
    /\ hpc[h] = "results" => msgResults[hid[h]] # "torn"

(* Once a client can see a final status, nothing of the slot changes any   *)
(* more: two polls never disagree (lines 255-257), until an id is          *)
(* published before an earlier one is written.                             *)
FinalVerdictStable ==
  [][\A i \in Slots : ~overtaken /\ msgStatus[i] \in Final =>
       /\ msgStatus'[i] = msgStatus[i]
       /\ msgText'[i] = msgText[i]
       /\ msgResults'[i] = msgResults[i]]_vars

(* The handlers and the judge threads use the ring the way JudgeQueue      *)
(* assumes: each id is offered once, and deque is never called twice at    *)
(* the same time.                                                          *)
UsesJudgeQueue == JQ!Spec

(* The threads that submit, judge and poll are together what JudgeService  *)
(* promises, until an id is published before an earlier one is written     *)
(* (overtaken) or run falls off its end and returns what the stack holds   *)
(* (fellOff).  A submission is queued when its id has its turn, taken when *)
(* the id is read, and judged when the status is stored.                   *)
Taken(w) == CASE qpc[w] \in {"d_release", "d_true"} -> msgPath[qid[w]]
              [] wpc[w] \in Judging \ {"print"} -> msgPath[wid[w]]
              [] OTHER -> None

FinalOf(s) == {i \in Slots : msgPath[i] = s /\ msgStatus[i] \in Final}

Service == INSTANCE JudgeService WITH
  Readers <- HttpThreads,
  Verdicts <- UNION {VerdictsOf(o) : o \in {"tests", "no_tests", "compile_error"}},
  Refusals <- {"500", "not_support_lang"},
  queued <- [k \in 1..Len(given) |-> msgPath[given[k]]],
  begun <- Len(taken),
  judging <- [w \in Workers |-> Taken(w)],
  verdict <- [s \in Submissions |->
    IF FinalOf(s) = {} THEN None
    ELSE LET i == CHOOSE i \in FinalOf(s) : TRUE
         IN [status |-> msgStatus[i], text |-> msgText[i],
             results |-> msgResults[i]]],
  shown <- [h \in HttpThreads |->
    IF hpc[h] \in {"check", "results"} /\ hstatus[h] \in Final
    THEN [of |-> msgPath[hid[h]], status |-> hstatus[h], text |-> htext[h]]
    ELSE None]

ServiceUntilUndefined ==
  Service!Init /\ [][overtaken \/ fellOff \/ Service!Next]_(Service!serviceVars)

Judged(s) == \E i \in Slots : msgPath[i] = s /\ msgStatus[i] \in Final

(* A job whose notify_one came while no thread was blocked is not left     *)
(* behind: with two threads that judge, every submission whose client was  *)
(* given an id reaches a final status, unless its id could get lost on the *)
(* ring (overtaken).                                                       *)
(* notify_one without the lock (line 164) loses the wakeup of the thread   *)
(* that has just found the queue empty, but the other one is then either   *)
(* blocked already, and woken, or still to look at the queue.              *)
EverySubmissionJudged ==
  \A s \in Submissions :
    answer[s] = "id" ~> Judged(s) \/ ~alive \/ overtaken

(* "A thread that keeps taking data out and judging it" (main.cpp, line    *)
(* 20): judging a submission does not end the process.                     *)
ServerSurvivesJudging == alive
=============================================================================
