------------------------------- MODULE Checker -------------------------------
(***************************************************************************)
(* Reader and Check::noipstyle_check of src/src/judge/check.hpp, and the   *)
(* comparisons by lines that the properties speak of.                      *)
(*                                                                         *)
(* A file is a sequence of characters: "eol" is CR or LF, "ff" the byte    *)
(* 0xFF, which fs.get() narrowed to char makes equal to EOF.  A missing    *)
(* file reads like an empty one.                                           *)
(***************************************************************************)
EXTENDS Naturals, Sequences, SequencesExt

CONSTANT Visible  \* the characters that are none of "SP", "eol" and "ff"

ASSUME CheckerAssumption == "EOF" \notin Visible

Character == Visible \cup {"SP", "eol", "ff"}

(* What the i-th getNextChar of a file gives.                              *)
CharAt(t, i) == IF i > Len(t) \/ t[i] = "ff" THEN "EOF" ELSE t[i]

(* readLine from position i: the line ends before an end of line or EOF,   *)
(* and readEoln goes on to the last of the ends of line that follow.       *)
FirstOf(s) == CHOOSE n \in s : \A m \in s : n <= m
LineEnd(t, i) == FirstOf({n \in i + 1..Len(t) + 1 : CharAt(t, n) \in {"eol", "EOF"}})
OneEol(t, i) == i  \* mutant: readLine does not call readEoln
EolsEnd(t, i) == FirstOf({n \in i..Len(t) + 1 : CharAt(t, n + 1) # "eol"})

ReadLine(t, i) ==
  LET e == LineEnd(t, i)
      n == EolsEnd(t, e)
  IN [line |-> SubSeq(t, i + 1, e - 1),
      next |-> IF n > Len(t) THEN Len(t) ELSE n,
      eof  |-> n = e /\ CharAt(t, e) = "EOF"]

(* del_line_back_space                                                     *)
Strip(line) == SubSeq(line, 1, SelectLastInSeq(line, LAMBDA c : c # "SP"))

(* The loop, from positions i of the answer and k of the output.           *)
NoipstyleCheck(user, std) ==
  LET same[n \in 0..Len(std)] == [k \in 0..Len(user) |->
        LET j == ReadLine(std, n)
            p == ReadLine(user, k)
        IN \/ Strip(j.line) = <<>> /\ j.eof
           \/ /\ Strip(j.line) = Strip(p.line)
              /\ j.eof \/ same[j.next][p.next]]
  IN same[0][0]

-----------------------------------------------------------------------------
(* The lines of a file without 0xFF, each without the blanks at its end;   *)
(* consecutive ends of line count as one.                                  *)
Starts(t, p) == p = 1 \/ (t[p - 1] = "eol" /\ t[p] # "eol")
LineAt(t, p) ==
  LET e == FirstOf({n \in p..Len(t) + 1 : n = Len(t) + 1 \/ t[n] = "eol"})
  IN Strip(SubSeq(t, p, e - 1))
LinesOf(t) ==
  LET from[p \in 1..Len(t) + 1] ==
        IF p = Len(t) + 1 THEN <<>>
        ELSE (IF Starts(t, p) THEN <<LineAt(t, p)>> ELSE <<>>) \o from[p + 1]
  IN from[1]

(* "true means the same" (lines 57-58): the same lines, but for blank ones *)
(* at the end of either file.                                              *)
LineOr(lines, k) == IF k <= Len(lines) THEN lines[k] ELSE <<>>
SameText(user, std) ==
  LET u == LinesOf(user)
      s == LinesOf(std)
  IN \A k \in 1..Len(u) + Len(s) : LineOr(u, k) = LineOr(s, k)

(* The output begins with the lines of the answer, of which a blank last   *)
(* one without an end of line does not count.                              *)
AnswerLeads(user, std) ==
  LET u == LinesOf(user)
      s == LinesOf(std)
      ends == std # <<>> /\ std[Len(std)] = "eol"
  IN \A k \in 1..Len(s) :
       \/ s[k] = LineOr(u, k)
       \/ k = Len(s) /\ s[k] = <<>> /\ ~ends
=============================================================================
