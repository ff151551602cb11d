--------------------------- MODULE MsgQueueProofs ---------------------------
(***************************************************************************)
(* What holds of the submissions' array for every size and any number of   *)
(* threads.                                                                *)
(*                                                                         *)
(* head alone does not say how many slots are issued: a rejected           *)
(* submission has incremented it and has still to take that back.  Less    *)
(* those (Base), it does, and while any of them is under way Base is       *)
(* exactly Size, so a thread that is given a slot is given slot Base: the  *)
(* first one that nobody has.                                              *)
(***************************************************************************)
EXTENDS MsgQueue, FiniteSetTheorems, TLAPS

Undoing == {t \in Threads : mpc[t] = "undo"}
Base    == head - Cardinality(Undoing)

Types ==
  /\ head \in Int
  /\ msgRequest \in [Slots -> Submissions \cup {None}]
  /\ msgStatus \in [Slots -> STATUS]
  /\ msgPath \in [Slots -> Submissions \cup {None}]
  /\ mpc \in [Threads -> PC]
  /\ mpos \in [Threads -> Int]
  /\ mwho \in [Threads -> Submissions \cup {None}]

(* No thread undoes anything before all slots are issued. *)
BaseOK ==
  /\ Base \in 0..Size
  /\ Undoing # {} => Base = Size

Holds(t) == mpc[t] \in Fills \cup {"issued"}

(* A slot below Base is filled or being filled by one thread, and none     *)
(* above it is touched.                                                    *)
SlotsOK ==
  /\ \A t \in Threads : Holds(t) => mpos[t] \in 0..(Base - 1)
  /\ \A t, u \in Threads : Holds(t) /\ Holds(u) /\ mpos[t] = mpos[u] => t = u
  /\ \A i \in Slots : msgPath[i] # None => i < Base
  /\ \A i \in Slots : i < Base =>
       msgPath[i] # None \/ \E t \in Threads : Holds(t) /\ mpos[t] = i

(* A thread that fills a slot has a submission to put there, and the slot  *)
(* has no path before its last step.                                       *)
FillsOK ==
  /\ \A t \in Threads : mpc[t] \in Fills =>
       mwho[t] \in Submissions /\ msgPath[mpos[t]] = None
  /\ \A t \in Threads : mpc[t] \in {"status", "path"} =>
       msgRequest[mpos[t]] = mwho[t]
  /\ \A t \in Threads : mpc[t] = "issued" => msgPath[mpos[t]] # None
  /\ \A i \in Slots : msgPath[i] # None => msgRequest[i] = msgPath[i]

IInv == Types /\ BaseOK /\ SlotsOK /\ FillsOK

-----------------------------------------------------------------------------
(* The number of threads that undo a claim, and how a step changes it. *)
LEMMA UndoingType ==
  /\ IsFiniteSet(Undoing)
  /\ Cardinality(Undoing) \in Nat
  /\ Cardinality(Undoing) = 0 <=> Undoing = {}
<1>1. IsFiniteSet(Undoing)
  BY MsgQueueAssumption, FS_Subset DEF Undoing
<1> QED
  BY <1>1, FS_CardinalityType, FS_EmptySet

LEMMA UndoingAdds ==
  ASSUME Types, NEW t \in Threads, mpc[t] # "undo",
         mpc' = [mpc EXCEPT ![t] = "undo"]
  PROVE  Cardinality(Undoing)' = Cardinality(Undoing) + 1
<1>1. Undoing' = Undoing \cup {t} /\ t \notin Undoing
  BY DEF Types, Undoing
<1>2. IsFiniteSet(Undoing)
  BY UndoingType
<1>3. Cardinality(Undoing \cup {t}) = Cardinality(Undoing) + 1
  BY <1>1, <1>2, FS_AddElement
<1> QED
  BY <1>1, <1>3

LEMMA UndoingRemoves ==
  ASSUME Types, NEW t \in Threads, mpc[t] = "undo", NEW to, to # "undo",
         mpc' = [mpc EXCEPT ![t] = to]
  PROVE  Cardinality(Undoing)' = Cardinality(Undoing) - 1
<1>1. Undoing' = Undoing \ {t} /\ t \in Undoing
  BY DEF Types, Undoing
<1>2. IsFiniteSet(Undoing)
  BY UndoingType
<1>3. Cardinality(Undoing \ {t}) = Cardinality(Undoing) - 1
  BY <1>1, <1>2, FS_RemoveElement
<1> QED
  BY <1>1, <1>3

LEMMA UndoingKept ==
  ASSUME Types, NEW t \in Threads, mpc[t] # "undo", NEW to, to # "undo",
         mpc' = [mpc EXCEPT ![t] = to]
  PROVE  Undoing' = Undoing
  BY DEF Types, Undoing

-----------------------------------------------------------------------------
LEMMA InvInit == Init => IInv
<1> SUFFICES ASSUME Init PROVE IInv
  OBVIOUS
<1>1. Types
  BY DEF Init, Types, PC, STATUS
<1>2. Undoing = {}
  BY DEF Init, Undoing
<1>3. Base = 0
  BY <1>2, UndoingType DEF Init, Base
<1>4. Size \in Nat
  BY MsgQueueAssumption
<1>5. BaseOK
  BY <1>2, <1>3, <1>4 DEF BaseOK
<1>6. SlotsOK
  BY <1>3 DEF Init, SlotsOK, Holds, Slots, Fills
<1>7. FillsOK
  BY DEF Init, FillsOK, Fills
<1> QED
  BY <1>1, <1>5, <1>6, <1>7 DEF IInv

(* A claim that succeeds is given slot Base, one that fails leaves Base.   *)
LEMMA ClaimStep ==
  ASSUME IInv, NEW t \in Threads, NEW s \in Submissions, Claim(t, s)
  PROVE  IInv'
<1> USE DEF Goto, slots
<1>1. Types /\ BaseOK /\ SlotsOK /\ FillsOK
  BY DEF IInv
<1>2. Types'
  BY <1>1 DEF Claim, Types, PC, Fills
<1>3. head \in Int /\ Size \in Nat /\ Cardinality(Undoing) \in Nat
  BY <1>1, MsgQueueAssumption, UndoingType DEF Types
<1>4. CASE Full
  <2>1. Cardinality(Undoing)' = Cardinality(Undoing) + 1
    BY <1>1, <1>4, UndoingAdds DEF Claim
  <2>2. Base' = Base
    BY <1>3, <2>1 DEF Claim, Base
  <2>3. Base = Size
    <3>1. CASE Undoing = {}
      <4>1. Base = head
        BY <1>3, <3>1, UndoingType DEF Base
      <4>2. Base \in 0..Size /\ head >= Size
        BY <1>1, <1>4 DEF BaseOK, Full
      <4> QED
        BY <1>3, <4>1, <4>2
    <3> QED
      BY <1>1, <3>1 DEF BaseOK
  <2>4. BaseOK'
    BY <1>1, <2>2, <2>3 DEF BaseOK
  <2>5. \A u \in Threads : /\ mpc'[u] = IF u = t THEN "undo" ELSE mpc[u]
                           /\ u # t => mpos'[u] = mpos[u] /\ mwho'[u] = mwho[u]
    BY <1>1, <1>4 DEF Claim, Types
  <2>6. mpc[t] = "idle" /\ msgPath' = msgPath /\ msgRequest' = msgRequest
    BY DEF Claim
  <2>7. SlotsOK'
    BY <1>1, <2>2, <2>5, <2>6 DEF SlotsOK, Holds, Fills
  <2>8. FillsOK'
    BY <1>1, <2>5, <2>6 DEF FillsOK, Fills
  <2> QED
    BY <1>2, <2>4, <2>7, <2>8 DEF IInv
<1>5. CASE ~Full
  <2>1. Undoing' = Undoing
    BY <1>1, <1>5, UndoingKept DEF Claim
  <2>2. Base' = Base + 1
    BY <1>3, <2>1 DEF Claim, Base
  <2>3. Undoing = {} /\ Base = head /\ head < Size
    <3>1. head < Size
      BY <1>3, <1>5 DEF Full
    <3>2. Undoing = {}
      BY <1>1, <1>3, <3>1 DEF BaseOK, Base
    <3> QED
      BY <1>3, <3>1, <3>2, UndoingType DEF Base
  <2>4. BaseOK'
    BY <1>1, <1>3, <2>1, <2>2, <2>3 DEF BaseOK
  <2>5. \A u \in Threads : /\ mpc'[u] = IF u = t THEN "request" ELSE mpc[u]
                           /\ mpos'[u] = IF u = t THEN head ELSE mpos[u]
                           /\ mwho'[u] = IF u = t THEN s ELSE mwho[u]
    BY <1>1, <1>5 DEF Claim, Types
  <2>6. mpc[t] = "idle" /\ msgPath' = msgPath /\ msgRequest' = msgRequest
    BY DEF Claim
  <2>7. Base \in Nat
    BY <1>1 DEF BaseOK
  <2>8. SlotsOK'
    <3>1. \A u \in Threads : Holds(u)' => mpos'[u] \in 0..(Base' - 1)
      BY <1>1, <2>2, <2>3, <2>5, <2>7 DEF SlotsOK, Holds
    <3>2. \A u, v \in Threads :
            Holds(u)' /\ Holds(v)' /\ mpos'[u] = mpos'[v] => u = v
      BY <1>1, <2>3, <2>5, <2>7 DEF SlotsOK, Holds
    <3>3. \A i \in Slots : msgPath'[i] # None => i < Base'
      BY <1>1, <1>3, <2>2, <2>6, <2>7 DEF SlotsOK, Slots
    <3>4. \A i \in Slots : i < Base' =>
            msgPath'[i] # None \/ \E u \in Threads : Holds(u)' /\ mpos'[u] = i
      <4> SUFFICES ASSUME NEW i \in Slots, i < Base', msgPath'[i] = None
                   PROVE  \E u \in Threads : Holds(u)' /\ mpos'[u] = i
        OBVIOUS
      <4>1. CASE i = head
        BY <2>5, <4>1 DEF Holds, Fills
      <4>2. CASE i # head
        <5>1. i < Base
          BY <1>3, <2>2, <2>3, <2>7, <4>2 DEF Slots
        <5>2. PICK u \in Threads : Holds(u) /\ mpos[u] = i
          BY <1>1, <2>6, <5>1 DEF SlotsOK
        <5>3. u # t
          BY <2>6, <5>2 DEF Holds, Fills
        <5> QED
          BY <2>5, <5>2, <5>3 DEF Holds
      <4> QED
        BY <4>1, <4>2
    <3> QED
      BY <3>1, <3>2, <3>3, <3>4 DEF SlotsOK
  <2>9. FillsOK'
    <3>1. msgPath[head] = None
      BY <1>1, <1>3, <2>3, <2>7 DEF SlotsOK, Slots
    <3> QED
      BY <1>1, <2>5, <2>6, <3>1 DEF FillsOK, Fills
  <2> QED
    BY <1>2, <2>4, <2>8, <2>9 DEF IInv
<1> QED
  BY <1>4, <1>5

(* A thread that takes back its claim leaves Base as it is. *)
LEMMA UndoStep ==
  ASSUME IInv, NEW t \in Threads, Undo(t)
  PROVE  IInv'
<1> USE DEF Goto, slots
<1>1. Types /\ BaseOK /\ SlotsOK /\ FillsOK
  BY DEF IInv
<1>2. Types'
  BY <1>1 DEF Undo, Types, PC, Fills
<1>3. head \in Int /\ Cardinality(Undoing) \in Nat
  BY <1>1, UndoingType DEF Types
<1>4. Cardinality(Undoing)' = Cardinality(Undoing) - 1
  BY <1>1, UndoingRemoves DEF Undo
<1>5. Base' = Base
  BY <1>3, <1>4 DEF Undo, Base
<1>6. t \in Undoing
  BY DEF Undo, Undoing
<1>7. BaseOK'
  BY <1>1, <1>5, <1>6 DEF BaseOK
<1>8. \A u \in Threads : /\ mpc'[u] = IF u = t THEN "full" ELSE mpc[u]
                         /\ u # t => mpos'[u] = mpos[u] /\ mwho'[u] = mwho[u]
  BY <1>1 DEF Undo, Types
<1>9. mpc[t] = "undo" /\ msgPath' = msgPath /\ msgRequest' = msgRequest
  BY DEF Undo
<1>10. SlotsOK'
  BY <1>1, <1>5, <1>8, <1>9 DEF SlotsOK, Holds, Fills
<1>11. FillsOK'
  BY <1>1, <1>8, <1>9 DEF FillsOK, Fills
<1> QED
  BY <1>2, <1>7, <1>10, <1>11 DEF IInv

(* The other steps of a call leave head and the undoing threads alone. *)
LEMMA BaseKept ==
  ASSUME Types, BaseOK, NEW t \in Threads, mpc[t] # "undo",
         NEW to, to # "undo", mpc' = [mpc EXCEPT ![t] = to], head' = head
  PROVE  Base' = Base /\ BaseOK'
<1>1. Undoing' = Undoing
  BY UndoingKept
<1>2. Base' = Base
  BY <1>1 DEF Base
<1> QED
  BY <1>1, <1>2 DEF BaseOK

(* A thread that fills writes its own slot, which is inside the array. *)
LEMMA FillsInside ==
  ASSUME Types, BaseOK, SlotsOK, NEW t \in Threads, Holds(t)
  PROVE  mpos[t] \in Slots
<1>1. mpos[t] \in 0..(Base - 1) /\ Base \in 0..Size /\ Size \in Nat
  BY MsgQueueAssumption DEF SlotsOK, BaseOK
<1> QED
  BY <1>1 DEF Slots

LEMMA FillRequestStep ==
  ASSUME IInv, NEW t \in Threads, FillRequest(t)
  PROVE  IInv'
<1> USE DEF Goto
<1>1. Types /\ BaseOK /\ SlotsOK /\ FillsOK
  BY DEF IInv
<1>2. mpc[t] = "request" /\ msgPath' = msgPath /\ mpos' = mpos /\ mwho' = mwho
  BY DEF FillRequest
<1>3. Holds(t) /\ mpos[t] \in Slots
  BY <1>1, <1>2, FillsInside DEF Holds, Fills
<1>4. mwho[t] \in Submissions /\ msgPath[mpos[t]] = None
  BY <1>1, <1>2 DEF FillsOK, Fills
<1>5. Types'
  BY <1>1, <1>3, <1>4 DEF FillRequest, Types, PC, Fills
<1>6. Base' = Base /\ BaseOK'
  BY <1>1, <1>2, BaseKept DEF FillRequest
<1>7. \A u \in Threads : mpc'[u] = IF u = t THEN "status" ELSE mpc[u]
  BY <1>1 DEF FillRequest, Types
<1>8. \A i \in Slots : msgRequest'[i] = IF i = mpos[t] THEN mwho[t] ELSE msgRequest[i]
  BY <1>1, <1>3 DEF FillRequest, Types
<1>9. SlotsOK'
  BY <1>1, <1>2, <1>6, <1>7 DEF SlotsOK, Holds, Fills
<1>10. \A u \in Threads : Holds(u) /\ u # t => mpos[u] # mpos[t]
  BY <1>1, <1>3 DEF SlotsOK
<1>11. \A u \in Threads : Holds(u) => mpos[u] \in Slots
  BY <1>1, FillsInside
<1>12. FillsOK'
  BY <1>1, <1>2, <1>3, <1>4, <1>7, <1>8, <1>10, <1>11 DEF FillsOK, Holds, Fills
<1> QED
  BY <1>5, <1>6, <1>9, <1>12 DEF IInv

LEMMA FillStatusStep ==
  ASSUME IInv, NEW t \in Threads, FillStatus(t)
  PROVE  IInv'
<1> USE DEF Goto
<1>1. Types /\ BaseOK /\ SlotsOK /\ FillsOK
  BY DEF IInv
<1>2. /\ mpc[t] = "status" /\ msgPath' = msgPath /\ msgRequest' = msgRequest
      /\ mpos' = mpos /\ mwho' = mwho
  BY DEF FillStatus
<1>3. Types'
  BY <1>1 DEF FillStatus, Types, PC, Fills, STATUS
<1>4. Base' = Base /\ BaseOK'
  BY <1>1, <1>2, BaseKept DEF FillStatus
<1>5. \A u \in Threads : mpc'[u] = IF u = t THEN "path" ELSE mpc[u]
  BY <1>1 DEF FillStatus, Types
<1>6. SlotsOK'
  BY <1>1, <1>2, <1>4, <1>5 DEF SlotsOK, Holds, Fills
<1>7. FillsOK'
  BY <1>1, <1>2, <1>5 DEF FillsOK, Fills
<1> QED
  BY <1>3, <1>4, <1>6, <1>7 DEF IInv

LEMMA FillPathStep ==
  ASSUME IInv, NEW t \in Threads, FillPath(t)
  PROVE  IInv'
<1> USE DEF Goto
<1>1. Types /\ BaseOK /\ SlotsOK /\ FillsOK
  BY DEF IInv
<1>2. /\ mpc[t] = "path" /\ msgRequest' = msgRequest
      /\ mpos' = mpos /\ mwho' = mwho
  BY DEF FillPath
<1>3. Holds(t) /\ mpos[t] \in Slots
  BY <1>1, <1>2, FillsInside DEF Holds, Fills
<1>4. mwho[t] \in Submissions /\ mwho[t] # None /\ msgRequest[mpos[t]] = mwho[t]
  BY <1>1, <1>2, MsgQueueAssumption DEF FillsOK, Fills
<1>5. Types'
  BY <1>1, <1>3, <1>4 DEF FillPath, Types, PC, Fills
<1>6. Base' = Base /\ BaseOK'
  BY <1>1, <1>2, BaseKept DEF FillPath
<1>7. \A u \in Threads : mpc'[u] = IF u = t THEN "issued" ELSE mpc[u]
  BY <1>1 DEF FillPath, Types
<1>8. \A i \in Slots : msgPath'[i] = IF i = mpos[t] THEN mwho[t] ELSE msgPath[i]
  BY <1>1, <1>3 DEF FillPath, Types
<1>9. \A u \in Threads : Holds(u) => mpos[u] \in Slots
  BY <1>1, FillsInside
<1>10. Base \in Int /\ mpos[t] < Base
  BY <1>1, <1>3, MsgQueueAssumption DEF SlotsOK, BaseOK
<1>11. SlotsOK'
  BY <1>1, <1>2, <1>3, <1>4, <1>6, <1>7, <1>8, <1>10 DEF SlotsOK, Holds, Fills
<1>12. \A u \in Threads : Holds(u) /\ u # t => mpos[u] # mpos[t]
  BY <1>1, <1>3 DEF SlotsOK
<1>13. FillsOK'
  BY <1>1, <1>2, <1>3, <1>4, <1>7, <1>8, <1>9, <1>12 DEF FillsOK, Holds, Fills
<1> QED
  BY <1>5, <1>6, <1>11, <1>13 DEF IInv

LEMMA ReturnStep ==
  ASSUME IInv, NEW t \in Threads, Return(t)
  PROVE  IInv'
<1>1. Types /\ BaseOK /\ SlotsOK /\ FillsOK
  BY DEF IInv
<1>2. /\ mpc[t] \in {"issued", "full"}
      /\ msgPath' = msgPath /\ msgRequest' = msgRequest
  BY DEF Return, slots
<1>3. Types'
  BY <1>1 DEF Return, slots, Types, PC
<1>4. Base' = Base /\ BaseOK'
  BY <1>1, <1>2, BaseKept DEF Return
<1>5. \A u \in Threads : /\ mpc'[u] = IF u = t THEN "idle" ELSE mpc[u]
                         /\ u # t => mpos'[u] = mpos[u] /\ mwho'[u] = mwho[u]
  BY <1>1 DEF Return, Types
<1>6. Holds(t) => msgPath[mpos[t]] # None
  BY <1>1, <1>2 DEF FillsOK, Holds, Fills
<1>7. SlotsOK'
  BY <1>1, <1>2, <1>4, <1>5, <1>6 DEF SlotsOK, Holds, Fills
<1>8. FillsOK'
  BY <1>1, <1>2, <1>5 DEF FillsOK, Fills
<1> QED
  BY <1>3, <1>4, <1>7, <1>8 DEF IInv

LEMMA SetStatusStep ==
  ASSUME IInv, NEW id \in Slots, NEW st \in STATUS, SetStatus(id, st)
  PROVE  IInv'
<1>1. Types'
  BY DEF IInv, SetStatus, locals, Types
<1> QED
  BY <1>1 DEF IInv, SetStatus, locals, Undoing, Base, BaseOK, SlotsOK, Holds, FillsOK

-----------------------------------------------------------------------------
LEMMA InvStep == IInv /\ [Next]_vars => IInv'
<1> SUFFICES ASSUME IInv, [Next]_vars PROVE IInv'
  OBVIOUS
<1>1. ASSUME NEW t \in Threads, Step(t) PROVE IInv'
  BY <1>1, UndoStep, FillRequestStep, FillStatusStep, FillPathStep DEF Step
<1>2. ASSUME NEW t \in Threads, Return(t) PROVE IInv'
  BY <1>2, ReturnStep
<1>3. ASSUME NEW t \in Threads, NEW s \in Submissions, Claim(t, s) PROVE IInv'
  BY <1>3, ClaimStep
<1>4. ASSUME NEW id \in Slots, NEW st \in STATUS, SetStatus(id, st) PROVE IInv'
  BY <1>4, SetStatusStep
<1>5. CASE UNCHANGED vars
  BY <1>5 DEF vars, slots, locals, IInv, Types, Undoing, Base, BaseOK, SlotsOK,
              Holds, FillsOK
<1> QED
  BY <1>1, <1>2, <1>3, <1>4, <1>5 DEF Next

(* The invariant the results below follow from. *)
THEOREM Inductive == Spec => []IInv
  BY InvInit, InvStep, PTL DEF Spec

(* A filling thread's pos is an index of the array, and head is never      *)
(* negative, however many rejected submissions move it back.               *)
THEOREM TypeCorrect == Spec => []TypeOK
<1>1. ASSUME IInv PROVE TypeOK
  <2>1. Types /\ BaseOK /\ SlotsOK
    BY <1>1 DEF IInv
  <2>2. head \in Nat
    <3>1. head \in Int /\ Cardinality(Undoing) \in Nat /\ Base \in Nat
      BY <2>1, UndoingType DEF Types, BaseOK
    <3> QED
      BY <3>1 DEF Base
  <2>3. \A t \in Threads : mpc[t] \in Fills => mpos[t] \in Slots
    BY <2>1, FillsInside DEF Holds
  <2> QED
    BY <2>1, <2>2, <2>3 DEF Types, TypeOK
<1> QED
  BY <1>1, Inductive, PTL

(* No two submissions are given the same id, for any number of HTTP        *)
(* threads and any number of rejected submissions among them (105-115).    *)
THEOREM DistinctSlots == Spec => []OneSubmissionPerSlot
<1>1. ASSUME IInv PROVE OneSubmissionPerSlot
  BY <1>1 DEF IInv, SlotsOK, FillsOK, Holds, Filling, OneSubmissionPerSlot
<1> QED
  BY <1>1, Inductive, PTL

(* An id a client was given is one get_msg accepts for ever (124).         *)
THEOREM StayReadable == Spec => []IssuedStayReadable
<1>1. ASSUME IInv PROVE IssuedStayReadable
  <2> SUFFICES ASSUME NEW i \in Slots,
                      msgPath[i] # None \/ \E t \in Threads : Filling(t, i)
               PROVE  GetMsg(i)
    BY DEF IssuedStayReadable
  <2>1. Types /\ BaseOK /\ SlotsOK
    BY <1>1 DEF IInv
  <2>2. i \in Nat /\ Base \in Nat
    BY <2>1 DEF Slots, BaseOK
  <2>3. i < Base
    <3>1. CASE msgPath[i] # None
      BY <2>1, <3>1 DEF SlotsOK
    <3>2. CASE \E t \in Threads : Filling(t, i)
      <4>1. PICK t \in Threads : Holds(t) /\ mpos[t] = i
        BY <3>2 DEF Filling, Holds
      <4>2. i \in 0..(Base - 1)
        BY <2>1, <4>1 DEF SlotsOK
      <4> QED
        BY <2>2, <4>2
    <3> QED
      BY <3>1, <3>2
  <2>4. head \in Int /\ Cardinality(Undoing) \in Nat
    BY <2>1, UndoingType DEF Types
  <2>5. Base <= head
    BY <2>4 DEF Base
  <2> QED
    BY <2>2, <2>3, <2>4, <2>5 DEF GetMsg
<1> QED
  BY <1>1, Inductive, PTL

(* A submission is refused only when every slot of the array is issued:    *)
(* the claims that are being taken back never make it look full (106).     *)
THEOREM RefusedOnlyWhenFull == Spec => []RejectOnlyWhenFull
<1>1. ASSUME IInv PROVE RejectOnlyWhenFull
  <2> SUFFICES ASSUME NEW t \in Threads, mpc[t] = "undo", NEW i \in Slots
               PROVE  msgPath[i] # None \/ \E u \in Threads : Filling(u, i)
    BY DEF RejectOnlyWhenFull
  <2>1. BaseOK /\ SlotsOK
    BY <1>1 DEF IInv
  <2>2. Base = Size
    BY <2>1 DEF BaseOK, Undoing
  <2>3. i < Base
    BY <2>2, MsgQueueAssumption DEF Slots
  <2> QED
    BY <2>1, <2>3 DEF SlotsOK, Holds, Filling
<1> QED
  BY <1>1, Inductive, PTL

LEMMA Kept ==
  ASSUME IInv, [Next]_vars, NEW i \in Slots, msgPath[i] # None
  PROVE  msgRequest'[i] = msgRequest[i] /\ msgPath'[i] = msgPath[i]
<1>1. Types /\ FillsOK
  BY DEF IInv
<1>2. ASSUME NEW t \in Threads, FillRequest(t) \/ FillPath(t)
      PROVE  msgRequest'[i] = msgRequest[i] /\ msgPath'[i] = msgPath[i]
  <2>1. i # mpos[t]
    BY <1>1, <1>2 DEF FillsOK, Fills, FillRequest, FillPath, Goto
  <2> QED
    BY <1>1, <1>2, <2>1 DEF FillRequest, FillPath, Types
<1>3. ASSUME NEW t \in Threads, \/ Undo(t) \/ FillStatus(t) \/ Return(t)
                                \/ \E s \in Submissions : Claim(t, s)
      PROVE  msgRequest' = msgRequest /\ msgPath' = msgPath
  BY <1>3 DEF Undo, FillStatus, Return, Claim, slots
<1>4. ASSUME NEW id \in Slots, NEW st \in STATUS, SetStatus(id, st)
      PROVE  msgRequest' = msgRequest /\ msgPath' = msgPath
  BY <1>4 DEF SetStatus
<1>5. CASE UNCHANGED vars
  BY <1>5 DEF vars, slots
<1> QED
  BY <1>2, <1>3, <1>4, <1>5 DEF Next, Step

(* The strings of an issued slot never change: a reference get_msg returned *)
(* stays good while other submissions are stored (126).                    *)
THEOREM NeverRefilled == Spec => FilledOnce
<1>1. IInv /\ [Next]_vars =>
        [\A i \in Slots : msgPath[i] # None
           => msgRequest'[i] = msgRequest[i] /\ msgPath'[i] = msgPath[i]]_vars
  BY Kept
<1> QED
  BY <1>1, Inductive, PTL DEF Spec, FilledOnce

-----------------------------------------------------------------------------
(* What a caller of the store relies on.  A thread that has been issued a  *)
(* slot finds its own submission there;                                    *)
IssuedOwn ==
  \A t \in Threads : mpc[t] = "issued" => msgPath[mpos[t]] = mwho[t]

LEMMA IssuedOwnInit == Init => IssuedOwn
  BY DEF Init, IssuedOwn

LEMMA IssuedOwnStep == IInv /\ IssuedOwn /\ [Next]_vars => IssuedOwn'
<1> SUFFICES ASSUME IInv, IssuedOwn, [Next]_vars, NEW u \in Threads,
                    mpc'[u] = "issued"
             PROVE  msgPath'[mpos'[u]] = mwho'[u]
  BY DEF IssuedOwn
<1>1. Types /\ BaseOK /\ SlotsOK /\ FillsOK
  BY DEF IInv
<1>2. CASE \E t \in Threads : t = u /\ FillPath(t)
  <2>1. FillPath(u) /\ Holds(u)
    BY <1>2 DEF FillPath, Goto, Holds, Fills
  <2>2. mpos[u] \in Slots
    BY <1>1, <2>1, FillsInside
  <2> QED
    BY <1>1, <2>1, <2>2 DEF FillPath, Types
<1>3. CASE ~\E t \in Threads : t = u /\ FillPath(t)
  <2>1. mpc[u] = "issued" /\ mpos'[u] = mpos[u] /\ mwho'[u] = mwho[u]
    BY <1>1, <1>3 DEF Next, Step, Undo, FillRequest, FillStatus, FillPath, Return,
      Claim, SetStatus, Goto, Types, vars, locals
  <2>2. mpos[u] \in Slots /\ msgPath[mpos[u]] # None
    BY <1>1, <2>1, FillsInside DEF FillsOK, Holds
  <2>3. msgPath[mpos[u]] = mwho[u]
    BY <2>1 DEF IssuedOwn
  <2> QED
    BY <2>1, <2>2, <2>3, Kept
<1> QED
  BY <1>2, <1>3

(* a slot with a path is readable, and so is every one below it;           *)
LEMMA PathBelow ==
  ASSUME IInv, NEW i \in Slots, msgPath[i] # None
  PROVE  GetMsg(i) /\ GetMsg(0) /\ head > i
<1>1. i < Base /\ Base <= head /\ head \in Int
  BY UndoingType DEF IInv, Types, SlotsOK, Base
<1>2. Base \in Int /\ i \in Nat
  BY MsgQueueAssumption DEF IInv, BaseOK, Slots
<1> QED
  BY <1>1, <1>2 DEF GetMsg

(* the slot of a claim that succeeds is nobody's;                          *)
LEMMA ClaimFrame ==
  ASSUME IInv, NEW t \in Threads, NEW s, Claim(t, s)
  PROVE  /\ \A u \in Threads : u # t =>
               mpc'[u] = mpc[u] /\ mpos'[u] = mpos[u] /\ mwho'[u] = mwho[u]
         /\ mpc'[t] \in {"undo", "request"} /\ mpos'[t] = head /\ mwho'[t] = s
         /\ mpc[t] = "idle" /\ msgPath' = msgPath
         /\ \A u \in Threads : Holds(u) => mpos[u] < head
<1>1. Base <= head /\ head \in Int /\ Base \in Int
  BY UndoingType, MsgQueueAssumption DEF IInv, Types, BaseOK, Base
<1>2. \A u \in Threads : Holds(u) => mpos[u] < head
  BY <1>1 DEF IInv, SlotsOK
<1> QED
  BY <1>2 DEF IInv, Types, Claim, Goto, slots

(* and a step of the call keeps to the thread and to its slot.             *)
LEMMA StepFrame ==
  ASSUME IInv, NEW t \in Threads, Step(t)
  PROVE  /\ \A u \in Threads : u # t => mpc'[u] = mpc[u] /\ mpos'[u] = mpos[u]
         /\ mwho' = mwho
         /\ mpc[t] # "idle"
         /\ Holds(t)' => Holds(t) /\ mpos'[t] = mpos[t]
  BY DEF IInv, Types, Step, Undo, FillRequest, FillStatus, FillPath, Goto, Holds, Fills

LEMMA ReturnFrame ==
  ASSUME IInv, NEW t \in Threads, Return(t)
  PROVE  /\ \A u \in Threads : u # t =>
               mpc'[u] = mpc[u] /\ mpos'[u] = mpos[u] /\ mwho'[u] = mwho[u]
         /\ mpc'[t] = "idle" /\ ~Holds(t)'
         /\ msgPath' = msgPath
  BY DEF IInv, Types, Return, slots, Holds, Fills
=============================================================================
