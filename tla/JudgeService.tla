---------------------------- MODULE JudgeService ----------------------------
(***************************************************************************)
(* What JudgeWorker of src/src/judge/exec_judge.hpp promises the clients,  *)
(* without ring, store or lock: a submission that is put in the queue is   *)
(* judged once, in its turn, and the client is given its id; one that is   *)
(* refused is not judged; a verdict is whole and final, and a client that  *)
(* reads one reads that of the submission it asks for.                     *)
(***************************************************************************)
EXTENDS Naturals, Sequences

CONSTANTS Submissions,
          Workers,    \* the judge threads
          Readers,    \* the threads that show results
          Verdicts,   \* what judging may end with
          Refusals,   \* the answers that promise nothing
          None

VARIABLES answer,    \* what the client of each submission was told
          queued,    \* the submissions put in the queue, in order
          begun,     \* how many of them a judge thread has taken
          judging,   \* what each judge thread works on
          verdict,   \* of each submission
          shown      \* what each reader has read of a verdict

serviceVars == <<answer, queued, begun, judging, verdict, shown>>

Queued(s) == \E k \in 1..Len(queued) : queued[k] = s

Init ==
  /\ answer = [s \in Submissions |-> "none"]
  /\ queued = <<>>
  /\ begun = 0
  /\ judging = [w \in Workers |-> None]
  /\ verdict = [s \in Submissions |-> None]
  /\ shown = [h \in Readers |-> None]

Submit(s) ==
  /\ answer[s] = "none"
  /\ ~Queued(s)
  /\ queued' = Append(queued, s)
  /\ UNCHANGED <<answer, begun, judging, verdict, shown>>

(* The id may be told when the verdict is there already.                   *)
Tell(s) ==
  /\ answer[s] = "none"
  /\ \/ Queued(s) /\ answer' = [answer EXCEPT ![s] = "id"]
     \/ ~Queued(s) /\ \E r \in Refusals : answer' = [answer EXCEPT ![s] = r]
  /\ UNCHANGED <<queued, begun, judging, verdict, shown>>

Take(w) ==
  /\ judging[w] = None
  /\ begun < Len(queued)
  /\ judging' = [judging EXCEPT ![w] = queued[begun + 1]]
  /\ begun' = begun + 1
  /\ UNCHANGED <<answer, queued, verdict, shown>>

Judge(w, v) ==
  /\ judging[w] # None
  /\ verdict' = [verdict EXCEPT ![judging[w]] = v]
  /\ judging' = [judging EXCEPT ![w] = None]
  /\ UNCHANGED <<answer, queued, begun, shown>>

Show(h, s) ==
  /\ verdict[s] # None
  /\ shown' = [shown EXCEPT ![h] = [of |-> s, status |-> verdict[s].status,
                                    text |-> verdict[s].text]]
  /\ UNCHANGED <<answer, queued, begun, judging, verdict>>

Finish(h) ==
  /\ shown' = [shown EXCEPT ![h] = None]
  /\ UNCHANGED <<answer, queued, begun, judging, verdict>>

Next ==
  \/ \E s \in Submissions : Submit(s) \/ Tell(s)
  \/ \E w \in Workers : Take(w) \/ \E v \in Verdicts : Judge(w, v)
  \/ \E h \in Readers : Finish(h) \/ \E s \in Submissions : Show(h, s)

Spec == Init /\ [][Next]_serviceVars
=============================================================================
