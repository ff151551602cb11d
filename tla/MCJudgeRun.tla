----------------------------- MODULE MCJudgeRun -----------------------------
(* Instances of JudgeRun for TLC.                                          *)
EXTENDS JudgeRun

TextsOver(chars, n) == UNION {[1..k -> chars] : k \in 0..n}
File(stem, num, ext, text) == [stem |-> stem, num |-> num, ext |-> ext, text |-> text]
In(stem, num) == File(stem, num, "in", <<>>)
Problem(files) == [exists |-> TRUE, files |-> files]

(* One test, with every answer of at most three characters and one with    *)
(* 0xFF, and every output of at most two, three longer ones and one with   *)
(* 0xFF.                                                                   *)
Chars == {"a", "SP", "eol"}
Printed == TextsOver(Chars, 2)
             \cup {<<"a", "eol", "a">>, <<"a", "SP", "eol">>, <<"SP", "eol", "a">>, <<"a", "ff">>}
OneTest == {[lang |-> "CPP",
             problem |-> Problem({In("a", 1), File("a", 1, "out", s)}),
             outputs |-> {u}] : s \in TextsOver(Chars, 3) \cup {<<"ff">>}, u \in Printed}

(* Several files: numbers, stems and extensions in different orders, names *)
(* that do not match, an answer too few, no directory.                     *)
A == <<"a">>
B == <<"b">>
ManyFiles == {
  Problem({In("a", 2), In("b", 1), File("a", 1, "ans", A), File("b", 2, "out", B)}),
  Problem({In("b", 1), In("a", 10), File("a", 1, "out", A), File("a", 10, "ans", B),
           File("-", 1, "out", B), File("b", -1, "out", B), File("a", 3, "txt", <<>>)}),
  Problem({In("a", 1), In("b", 1), File("b", 1, "ans", A), File("a", 1, "out", B)}),
  Problem({In("a", 1), In("a", 2), File("a", 2, "out", A)}),
  Problem({}),
  [exists |-> FALSE, files |-> {}]}
ManyTests == [lang : {"CPP", "PY3"}, problem : ManyFiles, outputs : {{A, B}}]

MCCases == OneTest \cup ManyTests

(* Three tests, the answer of the second with 0xFF in its middle.          *)
MCUndeserved == {
  [lang |-> "CPP",
   problem |-> Problem({In("a", 1), In("a", 2), In("a", 3), File("a", 1, "out", A),
                        File("a", 2, "out", <<"a", "ff", "b">>), File("a", 3, "out", B)}),
   outputs |-> {A, B, <<"a", "eol", "b">>}]}
=============================================================================
