------------------------------ MODULE MsgQueue ------------------------------
(***************************************************************************)
(* judge_msg_queue<size> of src/src/judge/exec_judge.hpp: the array of     *)
(* submissions, filled by the HTTP threads and never emptied.  The index   *)
(* of a submission in the array is the id its client polls.                *)
(*                                                                         *)
(* A submission stands for the strings that come with it (request_ip, pid  *)
(* and lang); code_path is computed from the slot and the caller's lang    *)
(* parameter, so it is identified by the submission it was computed for.   *)
(*                                                                         *)
(* A definition marked "mutant" is a plausible mistake in the one that     *)
(* follows it, used to show that the properties notice it.                 *)
(***************************************************************************)
EXTENDS Integers, FiniteSets

CONSTANTS Size,     \* the template parameter of judge_msg_queue
          Threads,  \* the HTTP threads, which call enque
          Submissions,
          None      \* the empty strings of a slot nobody has filled

ASSUME MsgQueueAssumption ==
  /\ Size \in Nat \ {0}
  /\ IsFiniteSet(Threads)
  /\ None \notin Submissions

VARIABLES
  head,       \* the next slot to issue
  msgRequest, \* per slot: whose request_ip, pid and lang it holds
  msgStatus,  \* per slot: msg::status
  msgPath,    \* per slot: whose code_path it holds
  mpc,        \* where each thread is inside enque
  mpos,       \* the local pos of the call; the result when it is done
  mwho        \* the submission of the call: its parameters

slots  == <<msgRequest, msgStatus, msgPath>>
locals == <<mpc, mpos, mwho>>
vars   == <<head, slots, locals>>

Slots  == 0..(Size - 1)
STATUS == {"WAITING", "JUDGING", "COMPILE_ERROR", "END"}
Fills  == {"request", "status", "path"}
PC     == {"idle", "undo", "issued", "full"} \cup Fills

Goto(t, from, to) ==
  /\ mpc[t] = from
  /\ mpc' = [mpc EXCEPT ![t] = to]

(* The array has static storage duration: status is 0, that is WAITING,    *)
(* and the strings are empty.                                              *)
Init ==
  /\ head = 0
  /\ msgRequest = [i \in Slots |-> None]
  /\ msgStatus = [i \in Slots |-> "WAITING"]
  /\ msgPath = [i \in Slots |-> None]
  /\ mpc = [t \in Threads |-> "idle"]
  /\ mpos = [t \in Threads |-> 0]
  /\ mwho = [t \in Threads |-> None]

FullLate  == head > Size       \* mutant: one slot too many
FullEarly == head >= Size - 1  \* mutant: the last slot is never used
Full      == head >= Size

(* Mutant: head is loaded, and only moved when the slot is refused. *)
ClaimUnmoved(t, s) ==
  /\ Goto(t, "idle", IF Full THEN "undo" ELSE "request")
  /\ mpos' = [mpos EXCEPT ![t] = head]
  /\ mwho' = [mwho EXCEPT ![t] = s]
  /\ head' = IF Full THEN head + 1 ELSE head
  /\ UNCHANGED slots

(* (pos = head.fetch_add(1)) >= size *)
Claim(t, s) ==
  /\ Goto(t, "idle", IF Full THEN "undo" ELSE "request")
  /\ mpos' = [mpos EXCEPT ![t] = head]
  /\ mwho' = [mwho EXCEPT ![t] = s]
  /\ head' = head + 1
  /\ UNCHANGED slots

(* No slot left: head goes back and enque returns -1. *)
Undo(t) ==
  /\ Goto(t, "undo", "full")
  /\ head' = head - 1
  /\ mpos' = [mpos EXCEPT ![t] = -1]
  /\ UNCHANGED <<slots, mwho>>

FillRequest(t) ==
  /\ Goto(t, "request", "status")
  /\ msgRequest' = [msgRequest EXCEPT ![mpos[t]] = mwho[t]]
  /\ UNCHANGED <<head, msgStatus, msgPath, mpos, mwho>>

(* The status parameter is not used: every slot starts as JUDGING. *)
FillStatus(t) ==
  /\ Goto(t, "status", "path")
  /\ msgStatus' = [msgStatus EXCEPT ![mpos[t]] = "JUDGING"]
  /\ UNCHANGED <<head, msgRequest, msgPath, mpos, mwho>>

(* code_path = _mcp(pos, lang), the last assignment; enque returns pos. *)
FillPath(t) ==
  /\ Goto(t, "path", "issued")
  /\ msgPath' = [msgPath EXCEPT ![mpos[t]] = mwho[t]]
  /\ UNCHANGED <<head, msgRequest, msgStatus, mpos, mwho>>

Return(t) ==
  /\ mpc[t] \in {"issued", "full"}
  /\ mpc' = [mpc EXCEPT ![t] = "idle"]
  /\ mpos' = [mpos EXCEPT ![t] = 0]
  /\ mwho' = [mwho EXCEPT ![t] = None]
  /\ UNCHANGED <<head, slots>>

Step(t) ==
  \/ Undo(t)
  \/ FillRequest(t)
  \/ FillStatus(t)
  \/ FillPath(t)

(* The test of get_msg: whether it returns msg_que[id] or throws. *)
GetMsgBelow(id) == ~(id < 0 \/ id >= head - 1)  \* mutant: off by one
GetMsg(id) == ~(id < 0 \/ id >= head)

(* A judge thread stores a status through the reference get_msg gave it. *)
SetStatus(id, st) ==
  /\ msgStatus' = [msgStatus EXCEPT ![id] = st]
  /\ UNCHANGED <<head, msgRequest, msgPath, locals>>

Next ==
  \/ \E t \in Threads :
       \/ Step(t)
       \/ Return(t)
       \/ \E s \in Submissions : Claim(t, s)
  \/ \E id \in Slots, st \in STATUS : GetMsg(id) /\ SetStatus(id, st)

Spec == Init /\ [][Next]_vars

-----------------------------------------------------------------------------
(* Type correctness: a slot is only written inside the array, and head     *)
(* never becomes negative.                                                 *)
TypeOK ==
  /\ head \in Nat
  /\ msgRequest \in [Slots -> Submissions \cup {None}]
  /\ msgStatus \in [Slots -> STATUS]
  /\ msgPath \in [Slots -> Submissions \cup {None}]
  /\ mpc \in [Threads -> PC]
  /\ mpos \in [Threads -> Int]
  /\ mwho \in [Threads -> Submissions \cup {None}]
  /\ \A t \in Threads : mpc[t] \in Fills => mpos[t] \in Slots

Filling(t, i) == mpc[t] \in Fills \cup {"issued"} /\ mpos[t] = i

(* No two submissions get the same id, and so no slot mixes the strings of *)
(* two of them, although the failing path moves head back while others     *)
(* move it forward (lines 106-107 and 110-114).                            *)
OneSubmissionPerSlot ==
  /\ \A t, u \in Threads, i \in Slots : Filling(t, i) /\ Filling(u, i) => t = u
  /\ \A i \in Slots : msgPath[i] # None => msgRequest[i] = msgPath[i]

(* An id that was handed to a client stays readable: get_msg never throws  *)
(* for it, whatever the rejected submissions do to head (lines 107, 124).  *)
IssuedStayReadable ==
  \A i \in Slots :
    msgPath[i] # None \/ (\E t \in Threads : Filling(t, i)) => GetMsg(i)

(* enque returns -1 only if every slot has been issued (line 106).         *)
RejectOnlyWhenFull ==
  (\E t \in Threads : mpc[t] = "undo")
    => \A i \in Slots : msgPath[i] # None \/ \E t \in Threads : Filling(t, i)

(* A slot is filled once: the strings of an issued id never change, so a   *)
(* judge thread and a poller may hold a reference to it (line 126).        *)
FilledOnce ==
  [][\A i \in Slots : msgPath[i] # None
       => msgRequest'[i] = msgRequest[i] /\ msgPath'[i] = msgPath[i]]_vars

(* get_msg throws "invalid_argument id" (line 125) for an id outside the   *)
(* array: it never returns a reference past its end.                       *)
GetMsgInBounds ==
  \A id \in -1..(Size + Cardinality(Threads)) : GetMsg(id) => id \in Slots
=============================================================================
