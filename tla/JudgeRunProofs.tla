--------------------------- MODULE JudgeRunProofs ---------------------------
(***************************************************************************)
(* What holds of Judger::run for any problems, programs and number of      *)
(* submissions that use one directory.                                     *)
(*                                                                         *)
(* That tests are paired by number is an argument about two strictly       *)
(* increasing sequences with the same values (SameRange): by the smallest  *)
(* place in which they differ.  That the program is the submission's own   *)
(* is an invariant that follows the source from saveFile to the executable *)
(* and keeps at each place the causes for which it may not be (Own).  That *)
(* a verdict fits rests on what the checker accepts of any two texts       *)
(* (CheckedRight), which is an argument about where lines start, and on an *)
(* invariant that says what each result was made of (Judged).              *)
(***************************************************************************)
EXTENDS JudgeRun, SequenceTheorems, FiniteSetTheorems, TLAPS

(* Two strictly increasing sequences of integers with the same values are  *)
(* the same sequence, as far as both go.                                   *)
Increasing(s) == \A j, k \in DOMAIN s : j < k => s[j] < s[k]

LEMMA SameRange ==
  ASSUME NEW m \in Nat, NEW n \in Nat,
         NEW a \in [1..m -> Int], NEW b \in [1..n -> Int],
         Increasing(a), Increasing(b),
         \A j \in 1..m : \E k \in 1..n : a[j] = b[k],
         \A k \in 1..n : \E j \in 1..m : b[k] = a[j]
  PROVE  \A k \in 1..m : k <= n => a[k] = b[k]
<1> DEFINE Bad == {k \in 1..m : k <= n /\ a[k] # b[k]}
<1>1. SUFFICES ASSUME Bad # {} PROVE FALSE
  OBVIOUS
<1>2. PICK k \in Bad : \A j \in Bad : ~(j < k)
  <2> DEFINE R == {r \in Nat \X Nat : r[1] < r[2]}
  <2>1. IsWellFoundedOn(R, Nat)
    BY NatLessThanWellFounded, Zenon DEF OpToRel
  <2>2. Bad \subseteq Nat
    OBVIOUS
  <2>3. \E k \in Bad : \A j \in Bad : <<j, k>> \notin R
    <3> HIDE DEF Bad, R
    <3> QED
      BY <1>1, <2>1, <2>2, WFMin, Zenon
  <2> QED
    BY <2>2, <2>3
<1>3. \A j \in 1..m : j < k => a[j] = b[j]
  BY <1>2
<1>4. PICK p \in 1..n : a[k] = b[p]
  OBVIOUS
<1>5. PICK o \in 1..m : b[k] = a[o]
  BY <1>2
<1>6. CASE p < k
  <2>1. p \in 1..m /\ a[p] = b[p]
    BY <1>2, <1>3, <1>6
  <2>2. a[p] < a[k]
    BY <1>2, <1>6, <2>1 DEF Increasing
  <2> QED
    BY <1>2, <1>4, <2>1, <2>2
<1>7. CASE p > k
  <2>1. b[k] < b[p]
    BY <1>2, <1>7 DEF Increasing
  <2>2. CASE o < k
    <3>1. o \in 1..n /\ a[o] = b[o]
      BY <1>2, <1>3, <2>2
    <3>2. b[o] < b[k]
      BY <1>2, <2>2, <3>1 DEF Increasing
    <3> QED
      BY <1>5, <3>1, <3>2
  <2>3. CASE o > k
    <3>1. a[k] < a[o]
      BY <1>2, <2>3 DEF Increasing
    <3> QED
      BY <1>2, <1>4, <1>5, <2>1, <3>1
  <2>4. CASE o = k
    BY <1>2, <1>5, <2>4
  <2> QED
    BY <2>2, <2>3, <2>4, <1>2
<1>8. CASE p = k
  BY <1>2, <1>4, <1>8
<1> QED
  BY <1>2, <1>6, <1>7, <1>8

LEMMA DistinctNumbers ==
  ASSUME NEW S, IsFiniteSet(S), Cardinality(Numbers(S)) = Cardinality(S)
  PROVE  \A f, g \in S : f.num = g.num => f = g
<1> DEFINE num == [f \in S |-> f.num]
<1>1. num \in Surjection(S, Numbers(S))
  BY DEF Surjection, Numbers
<1>2. num \in Injection(S, Numbers(S))
  BY <1>1, FS_Surjection
<1> QED
  BY <1>2 DEF Injection, IsInjective

(* Before is irreflexive: the places it compares are numbers.              *)
LEMMA BeforeIrreflexive ==
  ASSUME NEW f, f.num \in Int, Before(f, f)
  PROVE  FALSE
<1>1. ASSUME NEW seq, Len(seq) = 3, NEW e
      PROVE  Rank(seq, e) \in Int
  <2> DEFINE I == {k \in 1..Len(seq) : seq[k] = e}
  <2>1. Rank(seq, e) = IF I # {} THEN Min(I) ELSE 0
    BY DEF Rank, SelectInSeq
  <2>2. ASSUME I # {} PROVE Min(I) \in Int
    <3>1. \E x \in I : \A y \in I : x =< y
      BY <1>1, <2>2
    <3>2. Min(I) \in I
      BY <3>1 DEF Min
    <3> QED
      BY <3>2
  <2> QED
    BY <2>1, <2>2
<1>2. Rank(Stems, f.stem) \in Int
  BY <1>1 DEF Stems
<1>3. Rank(<<"ans", "in", "out">>, f.ext) \in Int
  BY <1>1
<1> QED
  BY <1>2, <1>3 DEF Before

(* The numbers of a sorted list of files.                                  *)
Nums(s) == [k \in 1..Len(s) |-> s[k].num]

LEMMA NumsIncrease ==
  ASSUME NEW c \in Cases, NEW exts \in {{"in"}, {"out", "ans"}},
         Cardinality(Numbers(Matching(c.problem.files, exts)))
           = Cardinality(Matching(c.problem.files, exts))
  PROVE  LET files == Matching(c.problem.files, exts)
             s == Sorted(files)
         IN /\ s \in Seq(files)
            /\ Len(s) \in Nat
            /\ Nums(s) \in [1..Len(s) -> Int]
            /\ Increasing(Nums(s))
            /\ \A k \in 1..Len(s) : s[k].num \in Numbers(files)
            /\ \A n \in Numbers(files) : \E k \in 1..Len(s) : s[k].num = n
<1> DEFINE files == Matching(c.problem.files, exts)
           s == Sorted(files)
<1>1. /\ IsFiniteSet(files)
      /\ s \in Seq(files)
      /\ \A f \in files : \E k \in 1..Len(s) : s[k] = f
      /\ \A j, k \in 1..Len(s) : j < k => Before(s[j], s[k])
  BY SortAssumption
<1>2. \A f \in files : f.num \in Int
  BY JudgeRunAssumption DEF Matching
<1> HIDE DEF files, s
<1>3. Len(s) \in Nat /\ \A k \in 1..Len(s) : s[k] \in files
  BY <1>1
<1>4. \A k \in 1..Len(s) : s[k].num \in Int /\ s[k].num \in Numbers(files)
  BY <1>2, <1>3 DEF Numbers
<1>5. \A f, g \in files : f.num = g.num => f = g
  BY <1>1, DistinctNumbers DEF files
<1>6. ASSUME NEW j \in 1..Len(s), NEW k \in 1..Len(s), j < k
      PROVE  s[j].num < s[k].num
  <2>1. Before(s[j], s[k])
    BY <1>1, <1>6
  <2>2. CASE s[j].num < s[k].num
    BY <2>2
  <2>3. CASE s[j].num = s[k].num
    <3>1. s[j] = s[k]
      BY <1>3, <1>5, <2>3
    <3>2. Before(s[j], s[j])
      BY <2>1, <3>1
    <3> QED
      BY <1>4, <3>2, BeforeIrreflexive
  <2> QED
    BY <2>1, <2>2, <2>3 DEF Before
<1> QED
  BY <1>1, <1>3, <1>4, <1>6 DEF Nums, Increasing, Numbers, files, s

(* The two lists of a well-formed directory agree, place by place.         *)
LEMMA ListsPaired ==
  ASSUME NEW c \in Cases, WellFormedData(c.problem)
  PROVE  \A k \in 1..Len(Inputs(c.problem)) : k <= Len(Outputs(c.problem)) =>
           /\ Inputs(c.problem)[k].num = Outputs(c.problem)[k].num
           /\ k > 1 => Inputs(c.problem)[k - 1].num < Inputs(c.problem)[k].num
<1> DEFINE in  == Inputs(c.problem)
           out == Outputs(c.problem)
           numbers == Numbers(Matching(c.problem.files, {"in"}))
<1>1. /\ Len(in) \in Nat
      /\ Nums(in) \in [1..Len(in) -> Int]
      /\ Increasing(Nums(in))
      /\ \A k \in 1..Len(in) : in[k].num \in numbers
      /\ \A n \in numbers : \E k \in 1..Len(in) : in[k].num = n
  BY NumsIncrease DEF WellFormedData, Inputs
<1>2. /\ Len(out) \in Nat
      /\ Nums(out) \in [1..Len(out) -> Int]
      /\ Increasing(Nums(out))
      /\ \A k \in 1..Len(out) : out[k].num \in numbers
      /\ \A n \in numbers : \E k \in 1..Len(out) : out[k].num = n
  BY NumsIncrease DEF WellFormedData, Outputs
<1> HIDE DEF in, out, numbers
<1>3. /\ \A k \in 1..Len(in) : Nums(in)[k] = in[k].num
      /\ \A k \in 1..Len(out) : Nums(out)[k] = out[k].num
  BY DEF Nums
<1>4. \A k \in 1..Len(in) : k <= Len(out) => Nums(in)[k] = Nums(out)[k]
  <2>1. ASSUME NEW j \in 1..Len(in)
        PROVE  \E k \in 1..Len(out) : Nums(in)[j] = Nums(out)[k]
    <3>1. in[j].num \in numbers
      BY <1>1
    <3>2. PICK k \in 1..Len(out) : out[k].num = in[j].num
      BY <1>2, <3>1
    <3> QED
      BY <1>3, <3>2
  <2>2. ASSUME NEW k \in 1..Len(out)
        PROVE  \E j \in 1..Len(in) : Nums(out)[k] = Nums(in)[j]
    <3>1. out[k].num \in numbers
      BY <1>2
    <3>2. PICK j \in 1..Len(in) : in[j].num = out[k].num
      BY <1>1, <3>1
    <3> QED
      BY <1>3, <3>2
  <2> QED
    <3> DEFINE m == Len(in)
               n == Len(out)
               a == Nums(in)
               b == Nums(out)
    <3>1. /\ m \in Nat /\ n \in Nat
          /\ a \in [1..m -> Int] /\ b \in [1..n -> Int]
          /\ Increasing(a) /\ Increasing(b)
          /\ \A j \in 1..m : \E k \in 1..n : a[j] = b[k]
          /\ \A k \in 1..n : \E j \in 1..m : b[k] = a[j]
      BY <1>1, <1>2, <2>1, <2>2
    <3> HIDE DEF m, n, a, b
    <3>2. \A k \in 1..m : k <= n => a[k] = b[k]
      BY <3>1, SameRange
    <3> QED
      BY <3>2 DEF m, n, a, b
<1>5. ASSUME NEW k \in 1..Len(in), k > 1
      PROVE  in[k - 1].num < in[k].num
  <2>1. k - 1 \in 1..Len(in) /\ k - 1 < k
    BY <1>1, <1>5
  <2>2. Nums(in)[k - 1] < Nums(in)[k]
    BY <1>1, <1>5, <2>1 DEF Increasing
  <2> QED
    BY <1>3, <2>1, <2>2
<1>6. \A k \in 1..Len(in) : k <= Len(out) => in[k].num = out[k].num
  BY <1>2, <1>3, <1>4
<1> QED
  BY <1>5, <1>6 DEF in, out

-----------------------------------------------------------------------------
(* The checker.  ReadLine reads a line of LinesOf and leaves the rest: so  *)
(* the loop is a recursion on the lines (RestStep), and what it gives is   *)
(* AnswerLeads of what both files have left (CheckedFrom).                   *)
Recursion == INSTANCE Base64Proofs  \* for its lemmas on recursion

Plain(t) == t \in Seq(Character) /\ ~HasFf(t)

LEMMA FirstIs ==
  ASSUME NEW S \in SUBSET Nat, S # {}
  PROVE  FirstOf(S) \in S /\ \A m \in S : FirstOf(S) <= m
BY Recursion!SmallestOf DEF FirstOf

LEMMA PlainChar ==
  ASSUME NEW t, Plain(t), NEW n \in Nat \ {0}
  PROVE  /\ Len(t) \in Nat
         /\ n > Len(t) => CharAt(t, n) = "EOF"
         /\ n <= Len(t) => CharAt(t, n) = t[n] /\ t[n] # "EOF"
<1>1. t \in Seq(Character) /\ Len(t) \in Nat
  BY DEF Plain
<1>2. CASE n > Len(t)
  BY <1>1, <1>2 DEF CharAt
<1>3. CASE n <= Len(t)
  <2>1. n \in 1..Len(t)
    BY <1>1, <1>3
  <2>2. t[n] \in Character /\ t[n] # "ff"
    BY <1>1, <2>1 DEF Plain, HasFf
  <2>3. t[n] # "EOF"
    BY <2>2, CheckerAssumption DEF Character
  <2> QED
    BY <1>1, <2>1, <2>2, <2>3 DEF CharAt
<1> QED
  BY <1>1, <1>2, <1>3

LEMMA LineEndIs ==
  ASSUME NEW t, Plain(t), NEW n \in 0..Len(t)
  PROVE  LET e == LineEnd(t, n)
         IN /\ e \in n + 1..Len(t) + 1
            /\ e <= Len(t) => t[e] = "eol"
            /\ \A m \in n + 1..e - 1 : t[m] # "eol"
<1> DEFINE S == {m \in n + 1..Len(t) + 1 : CharAt(t, m) \in {"eol", "EOF"}}
           e == LineEnd(t, n)
<1>1. Len(t) \in Nat
  BY DEF Plain
<1>2. Len(t) + 1 \in n + 1..Len(t) + 1 /\ CharAt(t, Len(t) + 1) = "EOF"
  BY <1>1, PlainChar
<1>3. S \in SUBSET Nat /\ S # {} /\ e = FirstOf(S)
  BY <1>1, <1>2 DEF LineEnd
<1> HIDE DEF S, e
<1>4. e \in S /\ \A m \in S : e <= m
  BY <1>3, FirstIs
<1>5. e \in n + 1..Len(t) + 1 /\ CharAt(t, e) \in {"eol", "EOF"}
  BY <1>4 DEF S
<1>6. e <= Len(t) => t[e] = "eol"
  BY <1>1, <1>5, PlainChar
<1>7. ASSUME NEW m \in n + 1..e - 1 PROVE t[m] # "eol"
  <2>1. m \in n + 1..Len(t) + 1 /\ m \in Nat \ {0} /\ m <= Len(t) /\ ~(e <= m)
    BY <1>1, <1>5
  <2>2. CharAt(t, m) = t[m]
    BY <2>1, PlainChar
  <2>3. m \notin S
    BY <1>4, <2>1
  <2> QED
    BY <2>1, <2>2, <2>3 DEF S
<1> QED
  BY <1>5, <1>6, <1>7 DEF e

LEMMA EolsEndIs ==
  ASSUME NEW t, Plain(t), NEW e \in 1..Len(t) + 1, e <= Len(t) => t[e] = "eol"
  PROVE  LET q == EolsEnd(t, e)
         IN /\ q \in e..Len(t) + 1
            /\ q > Len(t) <=> e > Len(t)
            /\ \A m \in e..q : m <= Len(t) => t[m] = "eol"
            /\ q < Len(t) => t[q + 1] # "eol"
<1> DEFINE S == {n \in e..Len(t) + 1 : CharAt(t, n + 1) # "eol"}
           q == EolsEnd(t, e)
<1>1. Len(t) \in Nat
  BY DEF Plain
<1>2. \A n \in Nat : n >= Len(t) => CharAt(t, n + 1) # "eol"
  BY <1>1, PlainChar
<1>3. S \in SUBSET Nat /\ Len(t) + 1 \in S /\ (e <= Len(t) => Len(t) \in S) /\ q = FirstOf(S)
  BY <1>1, <1>2 DEF EolsEnd
<1> HIDE DEF S, q
<1>4. q \in S /\ \A m \in S : q <= m
  BY <1>3, FirstIs
<1>5. q \in e..Len(t) + 1 /\ CharAt(t, q + 1) # "eol"
  BY <1>4 DEF S
<1>6. q > Len(t) <=> e > Len(t)
  BY <1>1, <1>3, <1>4, <1>5
<1>7. ASSUME NEW m \in e..q, m <= Len(t) PROVE t[m] = "eol"
  <2>1. CASE m = e
    BY <1>7, <2>1
  <2>2. CASE m # e
    <3>1. m - 1 \in e..Len(t) + 1 /\ ~(q <= m - 1) /\ m \in Nat \ {0} /\ (m - 1) + 1 = m
      BY <1>1, <1>5, <2>2
    <3>2. m - 1 \notin S
      BY <1>4, <3>1
    <3>3. CharAt(t, m) = "eol"
      BY <3>1, <3>2 DEF S
    <3> QED
      BY <1>7, <3>1, <3>3, PlainChar
  <2> QED
    BY <2>1, <2>2
<1>8. q < Len(t) => t[q + 1] # "eol"
  BY <1>1, <1>5, PlainChar
<1> QED
  BY <1>5, <1>6, <1>7, <1>8 DEF q

(* What readLine reads from place n, in a file without 0xFF: a line, and   *)
(* the ends of line behind it, among which no line starts.                 *)
LEMMA ReadLineIs ==
  ASSUME NEW t, Plain(t), NEW n \in 0..Len(t)
  PROVE  LET r == ReadLine(t, n)
             e == LineEnd(t, n)
         IN /\ r.line = SubSeq(t, n + 1, e - 1)
            /\ r.next \in n..Len(t)
            /\ r.eof <=> e = Len(t) + 1
            /\ r.eof => r.next = Len(t)
            /\ ~r.eof => r.next > n /\ t[r.next] = "eol"
            /\ ~r.eof /\ r.next < Len(t) => Starts(t, r.next + 1)
            /\ \A p \in n + 2..r.next : ~Starts(t, p)
<1> DEFINE r == ReadLine(t, n)
           e == LineEnd(t, n)
           q == EolsEnd(t, e)
<1>1. Len(t) \in Nat /\ n \in Nat
  BY DEF Plain
<1>2. /\ e \in n + 1..Len(t) + 1
      /\ e <= Len(t) => t[e] = "eol"
      /\ \A m \in n + 1..e - 1 : t[m] # "eol"
  BY LineEndIs
<1>3. e \in 1..Len(t) + 1
  BY <1>1, <1>2
<1> HIDE DEF e
<1>4. /\ q \in e..Len(t) + 1
      /\ q > Len(t) <=> e > Len(t)
      /\ \A m \in e..q : m <= Len(t) => t[m] = "eol"
      /\ q < Len(t) => t[q + 1] # "eol"
  BY <1>2, <1>3, EolsEndIs
<1>5. /\ r.line = SubSeq(t, n + 1, e - 1)
      /\ r.next = (IF q > Len(t) THEN Len(t) ELSE q)
      /\ r.eof = (q = e /\ CharAt(t, e) = "EOF")
  BY DEF ReadLine, e
<1> HIDE DEF r, q
<1>6. r.eof <=> e = Len(t) + 1
  <2>1. CASE e = Len(t) + 1
    <3>1. q = e /\ CharAt(t, e) = "EOF"
      BY <1>1, <1>3, <1>4, <2>1, PlainChar
    <3> QED
      BY <1>5, <2>1, <3>1
  <2>2. CASE e # Len(t) + 1
    <3>1. e <= Len(t) /\ e \in Nat \ {0}
      BY <1>1, <1>3, <2>2
    <3>2. CharAt(t, e) # "EOF"
      BY <3>1, PlainChar
    <3> QED
      BY <1>5, <2>2, <3>2
  <2> QED
    BY <2>1, <2>2
<1>7. CASE r.eof
  <2>1. e = Len(t) + 1 /\ r.next = Len(t)
    BY <1>1, <1>4, <1>5, <1>6, <1>7
  <2>2. ASSUME NEW p \in n + 2..Len(t) PROVE ~Starts(t, p)
    <3>1. p - 1 \in n + 1..e - 1 /\ p # 1
      BY <1>1, <2>1
    <3> QED
      BY <1>2, <3>1 DEF Starts
  <2> QED
    BY <1>1, <1>5, <1>6, <1>7, <2>1, <2>2 DEF r, e
<1>8. CASE ~r.eof
  <2>1. e <= Len(t) /\ q <= Len(t) /\ r.next = q /\ q > n /\ q \in n..Len(t) /\ q \in Nat \ {0}
    BY <1>1, <1>2, <1>4, <1>5, <1>6, <1>8
  <2>2. t[q] = "eol"
    BY <1>4, <2>1
  <2>3. q < Len(t) => Starts(t, q + 1)
    <3>1. (q + 1) - 1 = q
      BY <2>1
    <3> QED
      BY <1>4, <2>2, <3>1 DEF Starts
  <2>4. ASSUME NEW p \in n + 2..q PROVE ~Starts(t, p)
    <3>1. p \in Nat /\ p # 1 /\ (p <= e => p - 1 \in n + 1..e - 1) /\ (p > e => p \in e..q /\ p <= Len(t))
      BY <1>1, <1>2, <2>1
    <3>2. CASE p <= e
      BY <1>2, <3>1, <3>2 DEF Starts
    <3>3. CASE p > e
      BY <1>4, <3>1, <3>3 DEF Starts
    <3> QED
      BY <1>2, <3>1, <3>2, <3>3
  <2> QED
    BY <1>5, <1>6, <1>8, <2>1, <2>2, <2>3, <2>4 DEF r, e
<1> QED
  BY <1>7, <1>8

LEMMA StripEmpty == Strip(<<>>) = <<>>
<1>1. SelectLastInSeq(<<>>, LAMBDA c : c # "SP") = 0
  BY DEF SelectLastInSeq
<1>2. SubSeq(<<>>, 1, 0) = <<>>
  OBVIOUS
<1> QED
  BY <1>1, <1>2 DEF Strip

(* LinesOf by its recursion: the lines that start at p or later.           *)
IsLines(t, f) ==
  \A p \in 1..Len(t) + 1 :
    f[p] = IF p = Len(t) + 1 THEN <<>>
           ELSE (IF Starts(t, p) THEN <<LineAt(t, p)>> ELSE <<>>) \o f[p + 1]

LEMMA LinesExist ==
  ASSUME NEW t, Len(t) \in Nat
  PROVE  \E f : /\ LinesOf(t) = f[1]
                /\ IsLines(t, f)
                /\ \E V : \A p \in 1..Len(t) + 1 : f[p] \in Seq(V)
<1> DEFINE n == Len(t)
           V == {LineAt(t, p) : p \in 1..n}
           at(k) == n + 1 - k
           head(p) == IF Starts(t, p) THEN <<LineAt(t, p)>> ELSE <<>>
           F == [x \in (1..n) \X Seq(V) |-> head(at(x[1])) \o x[2]]
<1>1. \A k \in 1..n : at(k) \in 1..n
  OBVIOUS
<1>2. \A p \in 1..n : head(p) \in Seq(V)
  <2>1. \A p \in 1..n : LineAt(t, p) \in V
    OBVIOUS
  <2>2. ASSUME NEW l \in V PROVE <<l>> \in Seq(V)
    OBVIOUS
  <2>3. <<>> \in Seq(V)
    OBVIOUS
  <2> HIDE DEF V
  <2> QED
    BY <2>1, <2>2, <2>3
<1> HIDE DEF head, at, V
<1>3. F \in [(1..n) \X Seq(V) -> Seq(V)]
  BY <1>1, <1>2
<1>4. <<>> \in Seq(V)
  OBVIOUS
<1>5. \A k \in 1..n, v \in Seq(V) : F[<<k, v>>] = head(at(k)) \o v
  OBVIOUS
<1> HIDE DEF F
<1>6. PICK g \in [0..n -> Seq(V)] : Recursion!ByRec(g, n, <<>>, F)
  <2> HIDE DEF n
  <2>1. n \in Nat
    BY DEF n
  <2> QED
    BY <1>3, <1>4, <2>1, Recursion!RecExists
<1>7. \A k \in 0..n : g[k] = IF k = 0 THEN <<>> ELSE F[<<k, g[k - 1]>>]
  BY <1>6 DEF Recursion!ByRec
<1> DEFINE f == [p \in 1..n + 1 |-> g[n + 1 - p]]
           Rec(h) == [p \in 1..n + 1 |->
                        IF p = n + 1 THEN <<>>
                        ELSE (IF Starts(t, p) THEN <<LineAt(t, p)>> ELSE <<>>) \o h[p + 1]]
           d == CHOOSE h : h = Rec(h)
<1>8. \A p \in 1..n + 1 : f[p] \in Seq(V)
  OBVIOUS
<1>9. ASSUME NEW p \in 1..n + 1
      PROVE  f[p] = IF p = n + 1 THEN <<>> ELSE head(p) \o f[p + 1]
  <2>1. CASE p = n + 1
    <3>1. n + 1 - p = 0 /\ 0 \in 0..n
      BY <2>1
    <3> QED
      BY <1>7, <2>1, <3>1
  <2>2. CASE p # n + 1
    <3> DEFINE k == n + 1 - p
    <3>1. k \in 1..n /\ k \in 0..n /\ k # 0 /\ k - 1 = n + 1 - (p + 1) /\ p + 1 \in 1..n + 1
      BY <2>2
    <3>2. at(k) = p
      BY DEF at
    <3>3. f[p] = g[k] /\ f[p + 1] = g[k - 1] /\ g[k - 1] \in Seq(V)
      BY <3>1
    <3> HIDE DEF k, f
    <3>4. g[k] = F[<<k, g[k - 1]>>]
      BY <1>7, <3>1
    <3>5. F[<<k, g[k - 1]>>] = head(p) \o g[k - 1]
      BY <1>5, <3>1, <3>2, <3>3
    <3> QED
      BY <2>2, <3>3, <3>4, <3>5
  <2> QED
    BY <2>1, <2>2
<1>10. \A p \in 1..n + 1 : f[p] = Rec(f)[p]
  <2> HIDE DEF f
  <2> QED
    BY <1>9 DEF head
<1>11. f = Rec(f)
  BY <1>10
<1> HIDE DEF f
<1>12. d = Rec(d)
  <2> HIDE DEF Rec
  <2> QED
    BY <1>11
<1>13. \A p \in 1..n + 1 : d[p] = Rec(d)[p]
  <2> HIDE DEF Rec, d
  <2> QED
    BY <1>12
<1>14. IsLines(t, d)
  <2> HIDE DEF d
  <2> QED
    BY <1>13 DEF IsLines
<1>15. LinesOf(t) = d[1]
  BY DEF LinesOf
<1> HIDE DEF d
<1>16. \A p \in 1..n + 1 : d[p] \in Seq(V)
  <2> DEFINE Bad == {k \in 0..n : d[n + 1 - k] \notin Seq(V)}
  <2>1. SUFFICES ASSUME Bad # {} PROVE FALSE
    <3>1. ASSUME NEW p \in 1..n + 1, Bad = {} PROVE d[p] \in Seq(V)
      <4>1. n + 1 - p \in 0..n /\ n + 1 - (n + 1 - p) = p
        OBVIOUS
      <4> QED
        BY <3>1, <4>1
    <3> QED
      BY <3>1
  <2>2. Bad \in SUBSET Nat
    OBVIOUS
  <2>3. PICK k \in Bad : \A m \in Bad : k <= m
    <3> HIDE DEF Bad
    <3> QED
      BY <2>1, <2>2, Recursion!SmallestOf
  <2>4. k \in 0..n /\ d[n + 1 - k] \notin Seq(V) /\ k - 1 \notin Bad /\ n + 1 - k \in 1..n + 1
    <3>1. k \in 0..n /\ d[n + 1 - k] \notin Seq(V)
      OBVIOUS
    <3>2. ~(k <= k - 1) /\ n + 1 - k \in 1..n + 1
      BY <3>1
    <3> HIDE DEF Bad
    <3> QED
      BY <2>3, <3>1, <3>2
  <2> HIDE DEF Bad
  <2>5. CASE k = 0
    <3>1. n + 1 - k = Len(t) + 1 /\ n + 1 \in 1..Len(t) + 1
      BY <2>5
    <3>2. d[Len(t) + 1] = <<>>
      BY <1>14, <3>1 DEF IsLines
    <3> QED
      BY <1>4, <2>4, <3>1, <3>2
  <2>6. CASE k # 0
    <3> DEFINE p == n + 1 - k
    <3>1. p \in 1..n /\ p + 1 = n + 1 - (k - 1) /\ k - 1 \in 0..n /\ p # Len(t) + 1 /\ p \in 1..Len(t) + 1
      BY <2>4, <2>6
    <3>2. d[p + 1] \in Seq(V)
      BY <2>4, <3>1 DEF Bad
    <3> HIDE DEF p
    <3>3. d[p] = head(p) \o d[p + 1]
      BY <1>14, <3>1 DEF IsLines, head
    <3>4. d[p] \in Seq(V)
      BY <1>2, <3>1, <3>2, <3>3
    <3> QED
      BY <2>4, <3>4 DEF p
  <2> QED
    BY <2>5, <2>6
<1> QED
  BY <1>14, <1>15, <1>16

LinesFrom(t) == CHOOSE f : /\ LinesOf(t) = f[1]
                           /\ IsLines(t, f)
                           /\ \E V : \A p \in 1..Len(t) + 1 : f[p] \in Seq(V)

LEMMA LinesFromIs ==
  ASSUME NEW t, Len(t) \in Nat
  PROVE  /\ LinesOf(t) = LinesFrom(t)[1]
         /\ IsLines(t, LinesFrom(t))
         /\ \E V : \A p \in 1..Len(t) + 1 : LinesFrom(t)[p] \in Seq(V)
BY LinesExist DEF LinesFrom

(* Where no line starts there is nothing to list.                          *)
LEMMA NoStarts ==
  ASSUME NEW t, Len(t) \in Nat, NEW p \in 1..Len(t) + 1, NEW q \in p - 1..Len(t),
         \A m \in p..q : ~Starts(t, m)
  PROVE  LinesFrom(t)[p] = LinesFrom(t)[q + 1]
<1> DEFINE f == LinesFrom(t)
           Bad == {m \in p..q + 1 : f[p] # f[m]}
<1>1. PICK V : \A m \in 1..Len(t) + 1 : f[m] \in Seq(V)
  BY LinesFromIs
<1>2. IsLines(t, f)
  BY LinesFromIs
<1> HIDE DEF f
<1>3. Bad = {}
  <2>1. SUFFICES ASSUME Bad # {} PROVE FALSE
    OBVIOUS
  <2>2. Bad \in SUBSET Nat
    OBVIOUS
  <2>3. PICK m \in Bad : \A k \in Bad : m <= k
    <3> HIDE DEF Bad
    <3> QED
      BY <2>1, <2>2, Recursion!SmallestOf
  <2>4. m \in p..q + 1 /\ f[p] # f[m]
    OBVIOUS
  <2>5. /\ m - 1 \in p..q /\ m - 1 \in p..q + 1 /\ ~(m <= m - 1)
        /\ m - 1 \in 1..Len(t) + 1 /\ m - 1 # Len(t) + 1 /\ (m - 1) + 1 = m
        /\ m \in 1..Len(t) + 1
    BY <2>4
  <2>6. f[m - 1] = f[p]
    BY <2>3, <2>5
  <2>7. f[m - 1] = <<>> \o f[m]
    BY <1>2, <2>5 DEF IsLines
  <2>8. f[m] \in Seq(V)
    BY <1>1, <2>5
  <2>9. <<>> \o f[m] = f[m]
    BY <2>8
  <2> QED
    BY <2>4, <2>6, <2>7, <2>9
<1>4. q + 1 \in p..q + 1
  OBVIOUS
<1> QED
  BY <1>3, <1>4 DEF f

(* What the loop has left of a file at place n, as lines.                  *)
Rest(t, n) ==
  LET r == ReadLine(t, n)
  IN IF n = Len(t) THEN <<>> ELSE <<Strip(r.line)>> \o LinesFrom(t)[r.next + 1]

LEMMA RestFrom ==
  ASSUME NEW t, Plain(t), NEW n \in 0..Len(t), n < Len(t) => Starts(t, n + 1)
  PROVE  Rest(t, n) = LinesFrom(t)[n + 1]
<1> DEFINE r == ReadLine(t, n)
           e == LineEnd(t, n)
           f == LinesFrom(t)
           S == {m \in n + 1..Len(t) + 1 : m = Len(t) + 1 \/ t[m] = "eol"}
<1>1. Len(t) \in Nat
  BY DEF Plain
<1>2. IsLines(t, f)
  BY <1>1, LinesFromIs
<1>3. CASE n = Len(t)
  <2>1. Len(t) + 1 \in 1..Len(t) + 1
    BY <1>1
  <2> HIDE DEF f
  <2>2. f[Len(t) + 1] = <<>>
    BY <1>2, <2>1 DEF IsLines
  <2> QED
    BY <1>3, <2>2 DEF Rest, f
<1>4. CASE n # Len(t)
  <2>1. n + 1 \in 1..Len(t) + 1 /\ n + 1 # Len(t) + 1 /\ Starts(t, n + 1) /\ (n + 1) + 1 = n + 2
    BY <1>1, <1>4
  <2>2. f[n + 1] = <<LineAt(t, n + 1)>> \o f[n + 2]
    BY <1>2, <2>1 DEF IsLines
  <2>3. /\ e \in n + 1..Len(t) + 1
        /\ e <= Len(t) => t[e] = "eol"
        /\ \A m \in n + 1..e - 1 : t[m] # "eol"
    BY LineEndIs
  <2>4. /\ r.line = SubSeq(t, n + 1, e - 1)
        /\ r.next \in n..Len(t)
        /\ r.eof => r.next = Len(t)
        /\ ~r.eof => r.next > n
        /\ \A p \in n + 2..r.next : ~Starts(t, p)
    BY ReadLineIs
  <2> HIDE DEF r, e
  <2>5. LineAt(t, n + 1) = Strip(r.line)
    <3>1. e \in S /\ \A m \in S : e <= m
      BY <1>1, <2>3
    <3>2. S \in SUBSET Nat /\ S # {}
      BY <3>1
    <3>3. FirstOf(S) \in S /\ \A m \in S : FirstOf(S) <= m
      <4> HIDE DEF S
      <4> QED
        BY <3>2, FirstIs
    <3>4. FirstOf(S) = e
      <4>1. FirstOf(S) <= e /\ e <= FirstOf(S)
        BY <3>1, <3>3
      <4>2. FirstOf(S) \in Nat /\ e \in Nat
        BY <3>1, <3>2, <3>3
      <4> HIDE DEF S
      <4> QED
        BY <4>1, <4>2
    <3> QED
      BY <2>4, <3>4 DEF LineAt
  <2>6. f[n + 2] = f[r.next + 1]
    <3>1. n + 2 \in 1..Len(t) + 1 /\ r.next \in (n + 2) - 1..Len(t)
      BY <1>1, <1>4, <2>4
    <3> QED
      BY <1>1, <2>4, <3>1, NoStarts
  <2> QED
    BY <1>4, <2>2, <2>5, <2>6 DEF Rest, r
<1> QED
  BY <1>3, <1>4

LEMMA RestStep ==
  ASSUME NEW t, Plain(t), NEW n \in 0..Len(t)
  PROVE  LET r == ReadLine(t, n)
         IN /\ r.next \in n..Len(t)
            /\ n < Len(t) => Rest(t, n) = <<Strip(r.line)>> \o Rest(t, r.next)
            /\ n = Len(t) => /\ Rest(t, n) = <<>> /\ Strip(r.line) = <<>>
                             /\ r.eof /\ r.next = n
            /\ r.eof => r.next = Len(t)
            /\ ~r.eof => n < r.next /\ t[r.next] = "eol"
            /\ r.eof /\ n < Len(t) => t[Len(t)] # "eol"
<1> DEFINE r == ReadLine(t, n)
           e == LineEnd(t, n)
<1>1. Len(t) \in Nat /\ t \in Seq(Character)
  BY DEF Plain
<1>2. /\ e \in n + 1..Len(t) + 1
      /\ e <= Len(t) => t[e] = "eol"
      /\ \A m \in n + 1..e - 1 : t[m] # "eol"
  BY LineEndIs
<1>3. /\ r.line = SubSeq(t, n + 1, e - 1)
      /\ r.next \in n..Len(t)
      /\ r.eof <=> e = Len(t) + 1
      /\ r.eof => r.next = Len(t)
      /\ ~r.eof => r.next > n /\ t[r.next] = "eol"
      /\ ~r.eof /\ r.next < Len(t) => Starts(t, r.next + 1)
  BY ReadLineIs
<1> HIDE DEF r, e
<1>4. ASSUME n < Len(t) PROVE Rest(t, n) = <<Strip(r.line)>> \o Rest(t, r.next)
  <2>1. r.next < Len(t) => Starts(t, r.next + 1)
    BY <1>1, <1>3
  <2>2. r.next \in 0..Len(t) /\ n # Len(t)
    BY <1>1, <1>3, <1>4
  <2>3. Rest(t, r.next) = LinesFrom(t)[r.next + 1]
    BY <2>1, <2>2, RestFrom
  <2> QED
    BY <2>2, <2>3 DEF Rest, r
<1>5. ASSUME n = Len(t)
      PROVE  Rest(t, n) = <<>> /\ Strip(r.line) = <<>> /\ r.eof /\ r.next = n
  <2>1. e = Len(t) + 1
    BY <1>1, <1>2, <1>5
  <2>2. SubSeq(t, Len(t) + 1, Len(t)) = <<>>
    BY <1>1
  <2>3. r.line = <<>>
    <3>1. (Len(t) + 1) - 1 = Len(t)
      BY <1>1
    <3> QED
      BY <1>3, <1>5, <2>1, <2>2, <3>1
  <2> QED
    BY <1>3, <1>5, <2>1, <2>3, StripEmpty DEF Rest
<1>6. ASSUME r.eof, n < Len(t) PROVE t[Len(t)] # "eol"
  <2>1. Len(t) \in n + 1..e - 1
    BY <1>1, <1>3, <1>6
  <2> QED
    BY <1>2, <2>1
<1> QED
  BY <1>1, <1>3, <1>4, <1>5, <1>6 DEF r

LEMMA RestType ==
  ASSUME NEW t, Plain(t)
  PROVE  /\ \E V : \A n \in 0..Len(t) : Rest(t, n) \in Seq(V)
         /\ Rest(t, 0) = LinesOf(t)
<1>1. Len(t) \in Nat /\ 0 \in 0..Len(t)
  BY DEF Plain
<1>2. PICK V : \A p \in 1..Len(t) + 1 : LinesFrom(t)[p] \in Seq(V)
  BY <1>1, LinesFromIs
<1> DEFINE W == V \cup {Strip(ReadLine(t, n).line) : n \in 0..Len(t)}
<1>3. ASSUME NEW n \in 0..Len(t) PROVE Rest(t, n) \in Seq(W)
  <2> DEFINE r == ReadLine(t, n)
             x == Strip(r.line)
  <2>1. r.next \in n..Len(t)
    BY RestStep
  <2>2. LinesFrom(t)[r.next + 1] \in Seq(V)
    <3>1. r.next + 1 \in 1..Len(t) + 1
      BY <1>1, <2>1
    <3> QED
      BY <1>2, <3>1
  <2>3. x \in W /\ V \subseteq W
    OBVIOUS
  <2>4. Rest(t, n) = IF n = Len(t) THEN <<>> ELSE <<x>> \o LinesFrom(t)[r.next + 1]
    BY DEF Rest
  <2> HIDE DEF r, x, W
  <2>5. <<x>> \in Seq(W) /\ LinesFrom(t)[r.next + 1] \in Seq(W) /\ <<>> \in Seq(W)
    BY <2>2, <2>3
  <2> QED
    BY <2>4, <2>5
<1>4. Rest(t, 0) = LinesOf(t)
  <2>1. Starts(t, 0 + 1)
    BY DEF Starts
  <2>2. Rest(t, 0) = LinesFrom(t)[0 + 1]
    BY <1>1, <2>1, RestFrom
  <2> QED
    BY <1>1, <2>2, LinesFromIs
<1> QED
  BY <1>3, <1>4

(* AnswerLeads of lists of lines.                                            *)
SameRest(s, u, ends) ==
  \A k \in 1..Len(s) :
    \/ s[k] = IF k <= Len(u) THEN u[k] ELSE <<>>
    \/ k = Len(s) /\ s[k] = <<>> /\ ~ends

EndsLine(t) == t # <<>> /\ t[Len(t)] = "eol"

(* l is the first line of s and v the rest; or nothing is left.            *)
Leads(l, v, s) == s = <<l>> \o v
LeadsOrBlank(x, v, u) == Leads(x, v, u) \/ (u = <<>> /\ v = <<>> /\ x = <<>>)

LEMMA SameRestStep ==
  ASSUME NEW V, NEW W, NEW s \in Seq(V), NEW u \in Seq(W), NEW v \in Seq(W), NEW ends \in BOOLEAN,
         NEW l, NEW x, NEW z, Leads(l, s, z), LeadsOrBlank(x, v, u)
  PROVE  SameRest(z, u, ends)
           <=> /\ l = x \/ (s = <<>> /\ l = <<>> /\ ~ends)
               /\ SameRest(s, v, ends)
<1> DEFINE at(w, k) == IF k <= Len(w) THEN w[k] ELSE <<>>
<1>1. /\ Len(s) \in Nat /\ Len(z) = Len(s) + 1 /\ z[1] = l
      /\ \A k \in 1..Len(s) : z[k + 1] = s[k]
  <2>1. s \in Seq(V \cup {l}) /\ <<l>> \in Seq(V \cup {l})
    OBVIOUS
  <2>2. z = <<l>> \o s
    BY DEF Leads
  <2> QED
    BY <2>1, <2>2
<1>2. at(u, 1) = x /\ \A k \in 1..Len(s) : at(u, k + 1) = at(v, k)
  <2>1. CASE u = <<x>> \o v
    <3>1. v \in Seq(W \cup {x}) /\ <<x>> \in Seq(W \cup {x})
      OBVIOUS
    <3>2. /\ Len(v) \in Nat /\ Len(u) = Len(v) + 1 /\ u[1] = x
          /\ \A k \in 1..Len(v) : u[k + 1] = v[k]
      BY <2>1, <3>1
    <3>3. ASSUME NEW k \in 1..Len(s) PROVE at(u, k + 1) = at(v, k)
      <4>1. k + 1 <= Len(u) <=> k <= Len(v)
        BY <1>1, <3>2
      <4>2. k <= Len(v) => k \in 1..Len(v)
        BY <1>1, <3>2
      <4> QED
        BY <3>2, <4>1, <4>2
    <3>4. 1 <= Len(u)
      BY <3>2
    <3> QED
      BY <3>2, <3>3, <3>4
  <2>2. CASE u = <<>> /\ v = <<>> /\ x = <<>>
    <3>1. Len(u) = 0 /\ Len(v) = 0
      BY <2>2
    <3>2. \A k \in 1..Len(s) : ~(k + 1 <= 0) /\ ~(k <= 0)
      BY <1>1
    <3>3. ~(1 <= 0)
      OBVIOUS
    <3> QED
      BY <2>2, <3>1, <3>2, <3>3
  <2> QED
    BY <2>1, <2>2 DEF LeadsOrBlank, Leads
<1>3. SameRest(z, u, ends) <=>
        /\ z[1] = at(u, 1) \/ (1 = Len(z) /\ z[1] = <<>> /\ ~ends)
        /\ \A k \in 1..Len(s) :
             \/ z[k + 1] = at(u, k + 1)
             \/ k + 1 = Len(z) /\ z[k + 1] = <<>> /\ ~ends
  <2> DEFINE P(k) == z[k] = at(u, k) \/ (k = Len(z) /\ z[k] = <<>> /\ ~ends)
  <2>1. SameRest(z, u, ends) <=> \A k \in 1..Len(z) : P(k)
    BY DEF SameRest
  <2>2. (\A k \in 1..Len(z) : P(k)) <=> P(1) /\ \A k \in 1..Len(s) : P(k + 1)
    <3>1. 1 \in 1..Len(z) /\ \A k \in 1..Len(s) : k + 1 \in 1..Len(z)
      BY <1>1
    <3>2. \A k \in 1..Len(z) : k = 1 \/ (k - 1 \in 1..Len(s) /\ (k - 1) + 1 = k)
      BY <1>1
    <3> HIDE DEF P
    <3>3. ASSUME \A k \in 1..Len(z) : P(k) PROVE P(1) /\ \A k \in 1..Len(s) : P(k + 1)
      BY <3>1, <3>3
    <3>4. ASSUME P(1), \A k \in 1..Len(s) : P(k + 1), NEW k \in 1..Len(z) PROVE P(k)
      <4>1. k = 1 \/ P((k - 1) + 1)
        BY <3>2, <3>4
      <4> QED
        BY <3>2, <3>4, <4>1
    <3> QED
      BY <3>3, <3>4
  <2> QED
    BY <2>1, <2>2
<1>4. 1 = Len(z) <=> s = <<>>
  <2>1. s = <<>> <=> Len(s) = 0
    OBVIOUS
  <2> QED
    BY <1>1, <2>1
<1>5. ASSUME NEW k \in 1..Len(s)
      PROVE  (z[k + 1] = at(u, k + 1) \/ (k + 1 = Len(z) /\ z[k + 1] = <<>> /\ ~ends))
               <=> (s[k] = at(v, k) \/ (k = Len(s) /\ s[k] = <<>> /\ ~ends))
  <2>1. k + 1 = Len(z) <=> k = Len(s)
    BY <1>1
  <2> HIDE DEF at
  <2> QED
    BY <1>1, <1>2, <2>1
<1>6. SameRest(s, v, ends) <=>
        \A k \in 1..Len(s) : s[k] = at(v, k) \/ (k = Len(s) /\ s[k] = <<>> /\ ~ends)
  BY DEF SameRest
<1> HIDE DEF at
<1> QED
  BY <1>1, <1>2, <1>3, <1>4, <1>5, <1>6

(* The turn of the loop is a step of SameRest.                             *)
Turn(user, std, n, k, same) ==
  LET j == ReadLine(std, n)
      p == ReadLine(user, k)
  IN \/ Strip(j.line) = <<>> /\ j.eof
     \/ /\ Strip(j.line) = Strip(p.line)
        /\ j.eof \/ same[j.next][p.next]

Left(user, std) ==
  [n \in 0..Len(std) |-> [k \in 0..Len(user) |->
     SameRest(Rest(std, n), Rest(user, k), EndsLine(std))]]

LEMMA LeftTurn ==
  ASSUME NEW user, Plain(user), NEW std, Plain(std),
         NEW n \in 0..Len(std), NEW k \in 0..Len(user)
  PROVE  SameRest(Rest(std, n), Rest(user, k), EndsLine(std))
           <=> Turn(user, std, n, k, Left(user, std))
<1> DEFINE j == ReadLine(std, n)
           p == ReadLine(user, k)
           l == Strip(j.line)
           x == Strip(p.line)
           s == Rest(std, j.next)
           v == Rest(user, p.next)
           u == Rest(user, k)
           ends == EndsLine(std)
<1>1. Len(std) \in Nat /\ Len(user) \in Nat /\ (std = <<>> <=> Len(std) = 0)
  <2>1. std \in Seq(Character) /\ user \in Seq(Character)
    BY DEF Plain
  <2> QED
    BY <2>1
<1>2. /\ j.next \in n..Len(std)
      /\ n < Len(std) => Rest(std, n) = <<l>> \o s
      /\ n = Len(std) => Rest(std, n) = <<>> /\ l = <<>> /\ j.eof
      /\ j.eof => j.next = Len(std)
      /\ ~j.eof => n < j.next /\ std[j.next] = "eol"
      /\ j.eof /\ n < Len(std) => std[Len(std)] # "eol"
  BY RestStep
<1>3. /\ p.next \in k..Len(user)
      /\ k < Len(user) => u = <<x>> \o v
      /\ k = Len(user) => u = <<>> /\ x = <<>> /\ p.next = k
  BY RestStep
<1>4. PICK V : \A m \in 0..Len(std) : Rest(std, m) \in Seq(V)
  BY RestType
<1>5. PICK W : \A m \in 0..Len(user) : Rest(user, m) \in Seq(W)
  BY RestType
<1>6. j.next \in 0..Len(std) /\ p.next \in 0..Len(user)
  BY <1>1, <1>2, <1>3
<1>7. s \in Seq(V) /\ v \in Seq(W) /\ u \in Seq(W)
  BY <1>4, <1>5, <1>6
<1>8. Left(user, std)[j.next][p.next] = SameRest(s, v, ends)
  BY <1>6 DEF Left
<1>9. Turn(user, std, n, k, Left(user, std)) <=>
        \/ l = <<>> /\ j.eof
        \/ l = x /\ (j.eof \/ SameRest(s, v, ends))
  BY <1>8 DEF Turn
<1>10. s = <<>> <=> j.next = Len(std)
  <2>1. j.next = Len(std) => s = <<>>
    <3>1. Len(std) \in 0..Len(std)
      BY <1>1
    <3> QED
      BY <3>1, RestStep
  <2>2. ASSUME j.next # Len(std) PROVE s # <<>>
    <3> DEFINE a == Strip(ReadLine(std, j.next).line)
               b == Rest(std, ReadLine(std, j.next).next)
    <3>1. j.next < Len(std)
      BY <1>1, <1>6, <2>2
    <3>2. s = <<a>> \o b /\ ReadLine(std, j.next).next \in j.next..Len(std)
      BY <1>6, <3>1, RestStep
    <3>3. ReadLine(std, j.next).next \in 0..Len(std)
      BY <1>1, <1>6, <3>2
    <3>4. b \in Seq(V)
      BY <1>4, <3>3
    <3> HIDE DEF a, b, s, j
    <3>5. <<a>> \in Seq(V \cup {a}) /\ b \in Seq(V \cup {a})
      BY <3>4
    <3> QED
      BY <3>2, <3>5
  <2> QED
    BY <2>1, <2>2
<1>11. u = <<x>> \o v \/ (u = <<>> /\ v = <<>> /\ x = <<>>)
  <2>1. k < Len(user) \/ k = Len(user)
    BY <1>1
  <2>2. p.next = k => v = u
    OBVIOUS
  <2> HIDE DEF p, x, v, u
  <2> QED
    BY <1>3, <2>1, <2>2
<1>12. \A y : SameRest(<<>>, y, ends)
  <2>1. Len(<<>>) = 0 /\ 1..0 = {}
    OBVIOUS
  <2> QED
    BY <2>1 DEF SameRest
<1> HIDE DEF j, p, l, x, s, v, u, ends
<1>13. CASE n = Len(std)
  BY <1>2, <1>9, <1>12, <1>13 DEF u, ends
<1>14. CASE n < Len(std)
  <2>0. ends \in BOOLEAN
    BY DEF ends, EndsLine
  <2>1. SameRest(Rest(std, n), u, ends) <=>
          /\ l = x \/ (s = <<>> /\ l = <<>> /\ ~ends)
          /\ SameRest(s, v, ends)
    <3>1. Rest(std, n) = <<l>> \o s
      BY <1>2, <1>14
    <3>2. LeadsOrBlank(x, v, u) /\ Leads(l, s, Rest(std, n))
      BY <1>11, <3>1 DEF LeadsOrBlank, Leads
    <3> QED
      BY <1>7, <2>0, <3>2, SameRestStep
  <2>2. CASE j.eof
    <3>1. s = <<>> /\ ~ends
      BY <1>2, <1>10, <1>14, <2>2 DEF ends, EndsLine
    <3> QED
      BY <1>9, <1>12, <2>1, <2>2, <3>1 DEF u, ends
  <2>3. CASE ~j.eof
    <3>1. s = <<>> => ends
      <4>1. ASSUME s = <<>> PROVE std[Len(std)] = "eol" /\ std # <<>>
        BY <1>1, <1>2, <1>10, <1>14, <2>3, <4>1
      <4> QED
        BY <4>1 DEF ends, EndsLine
    <3> QED
      BY <1>9, <2>1, <2>3, <3>1 DEF u, ends
  <2> QED
    BY <2>2, <2>3
<1>15. n = Len(std) \/ n < Len(std)
  BY <1>1
<1> QED
  BY <1>13, <1>14, <1>15 DEF u, ends

(* So the loop, which is a recursion, gives what Left does: by the largest *)
(* place of the answer at which they would differ.                         *)
LEMMA CheckedRight ==
  ASSUME NEW user, Plain(user), NEW std, Plain(std)
  PROVE  NoipstyleCheck(user, std) <=> AnswerLeads(user, std)
<1> DEFINE N == Len(std)
           left == Left(user, std)
           Rec(h) == [n \in 0..Len(std) |-> [k \in 0..Len(user) |->
                        LET j == ReadLine(std, n)
                            p == ReadLine(user, k)
                        IN \/ Strip(j.line) = <<>> /\ j.eof
                           \/ /\ Strip(j.line) = Strip(p.line)
                              /\ j.eof \/ h[j.next][p.next]]]
           same == CHOOSE h : h = Rec(h)
           Bad == {m \in 0..N : same[N - m] # left[N - m]}
<1>1. Len(std) \in Nat /\ Len(user) \in Nat /\ 0 \in 0..Len(std) /\ 0 \in 0..Len(user)
  BY DEF Plain
<1>2. NoipstyleCheck(user, std) = same[0][0]
  BY DEF NoipstyleCheck
<1>3. \A h : Rec(h) = [n \in 0..Len(std) |-> [k \in 0..Len(user) |->
                         Turn(user, std, n, k, h)]]
  BY DEF Turn
<1> HIDE DEF Rec, left
<1>4. left = Rec(left)
  <2>1. ASSUME NEW n \in 0..Len(std), NEW k \in 0..Len(user)
        PROVE  SameRest(Rest(std, n), Rest(user, k), EndsLine(std))
                 = Turn(user, std, n, k, left)
    <3>1. SameRest(Rest(std, n), Rest(user, k), EndsLine(std))
            <=> Turn(user, std, n, k, left)
      BY LeftTurn DEF left
    <3>2. /\ SameRest(Rest(std, n), Rest(user, k), EndsLine(std)) \in BOOLEAN
          /\ Turn(user, std, n, k, left) \in BOOLEAN
      BY DEF SameRest, Turn
    <3> QED
      BY <3>1, <3>2
  <2>2. left = [n \in 0..Len(std) |-> [k \in 0..Len(user) |->
                  Turn(user, std, n, k, left)]]
    <3>1. left = [n \in 0..Len(std) |-> [k \in 0..Len(user) |->
                    SameRest(Rest(std, n), Rest(user, k), EndsLine(std))]]
      BY DEF left, Left
    <3> QED
      BY <2>1, <3>1
  <2> QED
    BY <1>3, <2>2
<1>5. same = Rec(same)
  BY <1>4
<1> HIDE DEF same
<1>6. \A n \in 0..Len(std) :
        /\ same[n] = [k \in 0..Len(user) |-> Turn(user, std, n, k, same)]
        /\ left[n] = [k \in 0..Len(user) |-> Turn(user, std, n, k, left)]
  <2>1. \A h : \A n \in 0..Len(std) :
          Rec(h)[n] = [k \in 0..Len(user) |-> Turn(user, std, n, k, h)]
    BY <1>3
  <2> QED
    BY <1>4, <1>5, <2>1
<1>7. Bad = {}
  <2>1. SUFFICES ASSUME Bad # {} PROVE FALSE
    OBVIOUS
  <2>2. Bad \in SUBSET Nat
    OBVIOUS
  <2>3. PICK m \in Bad : \A q \in Bad : m <= q
    <3> HIDE DEF Bad
    <3> QED
      BY <2>1, <2>2, Recursion!SmallestOf
  <2> DEFINE n == N - m
  <2>4. m \in 0..N /\ same[n] # left[n]
    OBVIOUS
  <2>5. n \in 0..Len(std) /\ m \in Nat
    BY <1>1, <2>4
  <2>6. ASSUME NEW q \in n + 1..Len(std) PROVE same[q] = left[q]
    <3>1. N - q \in 0..N /\ ~(m <= N - q) /\ N - (N - q) = q
      BY <1>1, <2>4
    <3> QED
      BY <2>3, <3>1
  <2> HIDE DEF n, Bad
  <2>7. ASSUME NEW k \in 0..Len(user)
        PROVE  Turn(user, std, n, k, same) = Turn(user, std, n, k, left)
    <3> DEFINE j == ReadLine(std, n)
    <3>1. j.next \in n..Len(std) /\ (~j.eof => n < j.next)
      BY <2>5, RestStep
    <3>2. ~j.eof => j.next \in n + 1..Len(std)
      BY <1>1, <2>5, <3>1
    <3> HIDE DEF j
    <3>3. ~j.eof => same[j.next] = left[j.next]
      BY <2>6, <3>2
    <3> QED
      BY <3>3 DEF Turn, j
  <2>8. same[n] = left[n]
    BY <1>6, <2>5, <2>7
  <2> QED
    BY <2>4, <2>8
<1>8. same[0] = left[0]
  <2>1. N \in 0..N /\ N - N = 0
    BY <1>1
  <2> QED
    BY <1>7, <2>1
<1>9. left[0][0] = SameRest(LinesOf(std), LinesOf(user), EndsLine(std))
  <2>1. left[0][0] = SameRest(Rest(std, 0), Rest(user, 0), EndsLine(std))
    BY <1>1 DEF left, Left
  <2> QED
    BY <2>1, RestType
<1>10. SameRest(LinesOf(std), LinesOf(user), EndsLine(std)) <=> AnswerLeads(user, std)
  BY DEF SameRest, AnswerLeads, LineOr, EndsLine
<1> QED
  BY <1>2, <1>8, <1>9, <1>10

LEMMA LinesCounted ==
  ASSUME NEW t, Plain(t)
  PROVE  Len(LinesOf(t)) \in Nat
<1>1. Len(t) \in Nat /\ 0 \in 0..Len(t)
  BY DEF Plain
<1>2. PICK V : \A n \in 0..Len(t) : Rest(t, n) \in Seq(V)
  BY RestType
<1>3. LinesOf(t) \in Seq(V)
  BY <1>1, <1>2, RestType
<1> QED
  BY <1>3, LenProperties

(* A text that is the same as the answer begins with it.                   *)
LEMMA SameLeads ==
  ASSUME NEW user, NEW std, Len(LinesOf(user)) \in Nat, Len(LinesOf(std)) \in Nat,
         SameText(user, std)
  PROVE  AnswerLeads(user, std)
<1>1. \A k \in 1..Len(LinesOf(std)) : k \in 1..Len(LinesOf(user)) + Len(LinesOf(std))
  OBVIOUS
<1>2. \A k \in 1..Len(LinesOf(std)) : LinesOf(std)[k] = LineOr(LinesOf(user), k)
  BY <1>1 DEF SameText, LineOr
<1> QED
  BY <1>2 DEF AnswerLeads

-----------------------------------------------------------------------------
IsSeq(s) == \E S : s \in Seq(S)

(* A sorted list of files has each of them once.                           *)
LEMMA SortedCount ==
  ASSUME NEW c \in Cases
  PROVE  Len(Inputs(c.problem)) = Cardinality(Matching(c.problem.files, {"in"}))
<1> DEFINE files == Matching(c.problem.files, {"in"})
           s == Sorted(files)
<1>1. /\ IsFiniteSet(files)
      /\ s \in Seq(files)
      /\ \A f \in files : \E k \in 1..Len(s) : s[k] = f
      /\ \A j, k \in 1..Len(s) : j < k => Before(s[j], s[k])
  BY SortAssumption
<1>2. \A f \in files : f.num \in Int
  BY JudgeRunAssumption DEF Matching
<1>3. Inputs(c.problem) = s
  BY DEF Inputs
<1> HIDE DEF files, s
<1>4. Len(s) \in Nat /\ s \in [1..Len(s) -> files]
  BY <1>1
<1>5. ASSUME NEW j \in 1..Len(s), NEW k \in 1..Len(s), j < k PROVE s[j] # s[k]
  <2>1. Before(s[j], s[k]) /\ s[j] \in files
    BY <1>1, <1>4, <1>5
  <2> QED
    BY <1>2, <2>1, BeforeIrreflexive
<1>6. ASSUME NEW j \in 1..Len(s), NEW k \in 1..Len(s), s[j] = s[k] PROVE j = k
  <2>1. ~(j < k) /\ ~(k < j)
    BY <1>5, <1>6
  <2> QED
    BY <1>4, <2>1
<1>7. s \in Bijection(1..Len(s), files)
  BY <1>1, <1>4, <1>6 DEF Bijection, Injection, IsInjective, Surjection
<1>8. Cardinality(1..Len(s)) = Len(s) /\ IsFiniteSet(1..Len(s))
  BY <1>4, FS_Interval
<1>9. Cardinality(files) = Len(s)
  <2>1. ExistsBijection(1..Len(s), files)
    BY <1>7 DEF ExistsBijection
  <2> QED
    BY <1>8, <2>1, FS_Bijection
<1> QED
  BY <1>3, <1>9 DEF files

(* What Result makes of an answer of the core, given how the program ended *)
(* and what the checker says.                                              *)
LEMMA ResultFits ==
  ASSUME NEW end \in Ends \ {"silent"}, NEW r \in Core(end), NEW user, NEW std
  PROVE  LET x == Result(r, user, std)
         IN /\ end # "finished" => x = r.result
            /\ end = "finished" =>
                 /\ x \in {0, WRONG_ANSWER, MEMORY_LIMIT_EXCEEDED}
                 /\ x = MEMORY_LIMIT_EXCEEDED => r.memory >= LimitInMB
                 /\ x = WRONG_ANSWER => ~NoipstyleCheck(user, std)
                 /\ x = 0 => NoipstyleCheck(user, std)
<1>0. MemoryLimit \in Nat /\ MemoryLimit >= LimitInMB /\ LimitInMB \in Nat
  BY DEF MemoryLimit, LimitInMB
<1>1. CASE end = "finished"
  <2>1. r.error = 0 /\ r.result = 0 /\ r.memory \in Nat
    BY <1>1, JudgeRunAssumption DEF Core
  <2>2. r.memory >= MemoryLimit => r.memory >= LimitInMB
    BY <1>0, <2>1
  <2> QED
    BY <1>1, <2>1, <2>2 DEF Result, MEMORY_LIMIT_EXCEEDED, WRONG_ANSWER
<1>2. CASE end = "failed"
  <2>1. r.error = 0 /\ r.result = 4
    BY <1>2 DEF Core
  <2> QED
    BY <1>2, <2>1 DEF Result
<1>3. CASE end = "killed"
  <2>1. r.error = 0 /\ r.result \in {1, 2, 4}
    BY <1>3 DEF Core, Killed
  <2> QED
    BY <1>3, <2>1 DEF Result
<1>4. CASE end = "refused"
  <2>1. r.error = -10 /\ r.result = 5
    BY <1>4 DEF Core
  <2> QED
    BY <1>4, <2>1 DEF Result
<1> QED
  BY <1>1, <1>2, <1>3, <1>4 DEF Ends

LEMMA ResultSet ==
  ASSUME NEW end \in Ends, NEW r \in Core(end), NEW x
  PROVE  [r EXCEPT !.result = x].result = x
<1>1. \E A, B, C, D : r \in [error : A, result : B, exit_code : C, memory : D]
  <2>1. CASE end = "finished"
    BY <2>1 DEF Core
  <2>2. CASE end = "failed"
    BY <2>2 DEF Core
  <2>3. CASE end = "killed"
    BY <2>3 DEF Core
  <2>4. CASE end = "refused"
    BY <2>4 DEF Core
  <2>5. CASE end = "silent"
    BY <2>5 DEF Core
  <2> QED
    BY <2>1, <2>2, <2>3, <2>4, <2>5 DEF Ends
<1> QED
  BY <1>1

(* What a program writes is where the check looks for it.                  *)
LEMMA PutFile ==
  ASSUME IsSeq(outs), i \in Nat, NEW file
  PROVE  IsSeq(Put(file)) /\ Put(file)[i + 1] = file
<1> DEFINE m == IF i < Len(outs) THEN Len(outs) ELSE i + 1
           e(k) == IF k = i + 1 THEN file ELSE outs[k]
<1>1. Len(outs) \in Nat
  BY DEF IsSeq
<1>2. m \in Nat /\ i + 1 \in 1..m
  BY <1>1
<1> DEFINE V == {e(k) : k \in 1..m}
<1>3. Put(file) = [k \in 1..m |-> e(k)]
  BY DEF Put
<1> HIDE DEF m
<1>4. [k \in 1..m |-> e(k)] \in Seq(V)
  BY <1>2
<1>5. [k \in 1..m |-> e(k)][i + 1] = e(i + 1)
  BY <1>2
<1> QED
  BY <1>3, <1>4, <1>5 DEF IsSeq

(* The file that the check reads is of the submission or of a stray.       *)
LEMMA FileKept ==
  ASSUME IsSeq(outs), i \in Nat, NEW end \in Ends, NEW after \in OwnOuts(end) \cup StrayOuts
  PROVE  /\ IsSeq(after)
         /\ end \notin {"refused", "silent"} =>
              /\ after[i + 1].text \in case.outputs
              /\ after \in OwnOuts(end) => after[i + 1].of = sub
<1>1. CASE after \in OwnOuts(end) /\ end \in {"refused", "silent"}
  <2>1. after = outs \/ after = Put(NoFile)
    BY <1>1 DEF OwnOuts
  <2> QED
    BY <1>1, <2>1, PutFile
<1>2. CASE after \in OwnOuts(end) /\ end \notin {"refused", "silent"}
  <2>1. PICK t \in case.outputs : after = Put([of |-> sub, text |-> t])
    BY <1>2 DEF OwnOuts
  <2> DEFINE file == [of |-> sub, text |-> t]
  <2>2. file.of = sub /\ file.text \in case.outputs
    OBVIOUS
  <2> HIDE DEF file
  <2>3. IsSeq(after) /\ after[i + 1] = file
    BY <2>1, PutFile DEF file
  <2> QED
    BY <2>2, <2>3
<1>3. CASE after \notin OwnOuts(end)
  <2>1. PICK s \in strays, t \in case.outputs : after = Put([of |-> s.from, text |-> t])
    BY <1>3 DEF StrayOuts
  <2> DEFINE file == [of |-> s.from, text |-> t]
  <2>2. file.text \in case.outputs
    OBVIOUS
  <2> HIDE DEF file
  <2>3. IsSeq(after) /\ after[i + 1] = file
    BY <2>1, PutFile DEF file
  <2> QED
    BY <1>3, <2>2, <2>3
<1> QED
  BY <1>1, <1>2, <1>3

-----------------------------------------------------------------------------
(* The inductive invariant.                                                *)
Lists ==
  /\ case \in Cases
  /\ \/ input = <<>> /\ output = <<>>
     \/ input = Inputs(case.problem) /\ output = Outputs(case.problem)
  /\ IsSeq(trace) /\ IsSeq(results)
  /\ \A k \in 1..i : trace[k].input = input[k] /\ trace[k].answer = output[k]

Stages ==
  /\ pc \in {"save", "compile", "load"} => input = <<>> /\ i = 0
  /\ pc \in {"save", "compile"} => built = "none"
  /\ pc # "done" => verdict = NoVerdict
  /\ pc = "test" \/ verdict.status = "END" => input = Inputs(case.problem)
  /\ verdict.status = "END" => i = Len(input)

(* Once it has been saved the source is the submission's own; once the     *)
(* compiler has ended so is what is run: but for the causes named.         *)
Own ==
  /\ pc # "save" => source = sub \/ saved = "unwritten"
  /\ pc \in {"load", "test"} =>
       \/ exe = sub
       \/ saved = "unwritten" \/ strayed
       \/ case.lang = "CPP" /\ built \in UnseenEnd

(* A result is made of the core's answer and of the file of its own test.  *)
MadeOf(e, t, texts) ==
  /\ t.end \in Ends /\ t.core \in Core(t.end)
  /\ t.end \notin {"refused", "silent"} => t.out.text \in texts
  /\ e.result = Result(t.core, t.out.text, t.answer.text)

Judged ==
  /\ IsSeq(outs)
  /\ \A k \in 1..i : MadeOf(results[k], trace[k], case.outputs)

Inv == TypeOK /\ Lists /\ Stages /\ Own /\ Judged /\ JudgesOwnProgram

LEMMA Empty == Len(<<>>) = 0 /\ IsSeq(<<>>) /\ \A k \in 1..Len(<<>>) : FALSE
<1>1. <<>> \in Seq({}) /\ Len(<<>>) = 0
  OBVIOUS
<1>2. \A k \in 1..0 : FALSE
  OBVIOUS
<1> QED
  BY <1>1, <1>2 DEF IsSeq

LEMMA Longer ==
  ASSUME NEW s, IsSeq(s), NEW e
  PROVE  /\ IsSeq(Append(s, e))
         /\ Len(s) \in Nat
         /\ Len(Append(s, e)) = Len(s) + 1
         /\ \A k \in 1..Len(s) : Append(s, e)[k] = s[k]
         /\ Append(s, e)[Len(s) + 1] = e
<1>1. PICK S : s \in Seq(S)
  BY DEF IsSeq
<1>2. s \in Seq(S \cup {e}) /\ e \in S \cup {e}
  BY <1>1
<1>3. /\ Append(s, e) \in Seq(S \cup {e})
      /\ Len(s) \in Nat
      /\ Len(Append(s, e)) = Len(s) + 1
      /\ \A k \in 1..Len(s) : Append(s, e)[k] = s[k]
      /\ Append(s, e)[Len(s) + 1] = e
  BY <1>2
<1> QED
  BY <1>3 DEF IsSeq

LEMMA Returned ==
  ASSUME NEW status, NEW text, Returns(status, text)
  PROVE  pc' = "done" /\ verdict'.status = status
  BY DEF Returns

LEMMA NothingReturned ==
  ASSUME NEW v, v = NoVerdict
  PROVE  v.status = "none"
  BY DEF NoVerdict

LEMMA InvInit == Init => Inv
<1> SUFFICES ASSUME Init PROVE Inv
  OBVIOUS
<1>1. verdict.status = "none"
  BY NothingReturned DEF Init
<1>2. TypeOK
  BY <1>1, Empty, JudgeRunAssumption DEF Init, TypeOK
<1>3. Lists
  BY Empty DEF Init, Lists
<1>4. Stages /\ Own
  BY <1>1 DEF Init, Stages, Own
<1>5. JudgesOwnProgram
  BY <1>1, Empty DEF Init, JudgesOwnProgram
<1>6. Judged
  BY Empty DEF Init, Judged
<1> QED
  BY <1>2, <1>3, <1>4, <1>5, <1>6 DEF Inv

LEMMA LoadedLists ==
  ASSUME NEW c \in Cases
  PROVE  Len(Inputs(c.problem)) \in Nat /\ Len(Outputs(c.problem)) \in Nat
<1>1. /\ Sorted(Matching(c.problem.files, {"in"})) \in Seq(Matching(c.problem.files, {"in"}))
      /\ Sorted(Matching(c.problem.files, {"out", "ans"}))
           \in Seq(Matching(c.problem.files, {"out", "ans"}))
  BY SortAssumption
<1> QED
  BY <1>1, LenProperties DEF Inputs, Outputs

(* The compiler that finishes has succeeded; one that fails has not.       *)
LEMMA CompilerAnswers ==
  ASSUME NEW end \in Ends, NEW r \in Core(end)
  PROVE  /\ end = "finished" => Succeeded(r)
         /\ end \in {"failed", "refused"} => ~Succeeded(r)
<1>1. CASE end = "finished"
  BY <1>1 DEF Core, Succeeded
<1>2. CASE end = "failed"
  BY <1>2 DEF Core, Succeeded
<1>3. CASE end = "refused"
  BY <1>3 DEF Core, Succeeded
<1> QED
  BY <1>1, <1>2, <1>3

LEMMA InvNext == Inv /\ [Next]_vars => Inv'
<1> SUFFICES ASSUME Inv, [Next]_vars PROVE Inv'
  OBVIOUS
<1> USE DEF Inv
<1>0. exe \in 0..sub /\ source \in 0..sub /\ sub \in 0..sub /\ \A k \in 1..0 : FALSE
  BY JudgeRunAssumption DEF TypeOK
<1>9. CASE Save
  <2>1. /\ pc = "save" /\ pc' = "compile"
        /\ \/ saved' = "written" /\ source' = sub
           \/ saved' = "unwritten" /\ source' \in {source, 0}
        /\ UNCHANGED <<case, sub, exe, outs, loopVars, verdict, strays, built, strayed>>
    BY <1>9 DEF Save
  <2>2. /\ UNCHANGED <<i, input, output, results, trace>>
        /\ i = 0 /\ built = "none" /\ verdict = NoVerdict /\ verdict.status = "none"
    BY <2>1, NothingReturned DEF Stages, loopVars
  <2>3. TypeOK'
    BY <1>0, <2>1, <2>2 DEF TypeOK
  <2>4. Lists' /\ Judged'
    BY <2>1, <2>2 DEF Lists, Judged
  <2>5. Stages' /\ Own'
    BY <2>1, <2>2 DEF Stages, Own
  <2>6. JudgesOwnProgram'
    <3>1. \A k \in 1..Len(trace') : FALSE
      BY <1>0, <2>2 DEF TypeOK
    <3> QED
      BY <2>1, <2>2, <3>1 DEF JudgesOwnProgram
  <2> QED
    BY <2>3, <2>4, <2>5, <2>6
<1>1. CASE Compile
  <2>0. PICK end \in Ends : \E r \in Core(end) : \E err, out \in {"", "output"} :
          /\ built' = end
          /\ exe' = IF case.lang = "PY3" \/ end = "finished" THEN source ELSE exe
          /\ IF Succeeded(r) THEN pc' = "load" /\ UNCHANGED verdict
             ELSE Returns("COMPILE_ERROR", Message(err, out))
    BY <1>1 DEF Compile
  <2>1. PICK r \in Core(end), err \in {"", "output"}, out \in {"", "output"} :
          /\ built' = end
          /\ exe' = IF case.lang = "PY3" \/ end = "finished" THEN source ELSE exe
          /\ IF Succeeded(r) THEN pc' = "load" /\ UNCHANGED verdict
             ELSE Returns("COMPILE_ERROR", Message(err, out))
    BY <2>0
  <2>2. /\ pc = "compile"
        /\ UNCHANGED <<case, sub, source, outs, i, input, output, results, trace,
                       strays, saved, strayed>>
    BY <1>1 DEF Compile, loopVars
  <2>3. /\ end = "finished" => Succeeded(r)
        /\ end \in {"failed", "refused"} => ~Succeeded(r)
    BY CompilerAnswers
  <2>4. i = 0 /\ input = <<>> /\ verdict.status = "none" /\ verdict = NoVerdict
    BY <2>2, NothingReturned DEF Stages
  <2>10. \/ Succeeded(r) /\ pc' = "load" /\ verdict' = verdict
         \/ ~Succeeded(r) /\ pc' = "done" /\ verdict'.status = "COMPILE_ERROR"
    BY <2>1, Returned
  <2>5. TypeOK'
    <3>1. exe' \in 0..sub
      <4>1. exe' = source \/ exe' = exe
        BY <2>1
      <4> QED
        BY <1>0, <4>1
    <3>2. verdict'.status \in {"none", "COMPILE_ERROR"} /\ pc' \in {"load", "done"}
      BY <2>4, <2>10
    <3>3. built' \in Ends
      BY <2>1
    <3> QED
      BY <2>2, <3>1, <3>2, <3>3 DEF TypeOK
  <2>6. Lists'
    BY <2>2 DEF Lists
  <2>7. Stages'
    BY <2>1, <2>2, <2>4, <2>10 DEF Stages
  <2>8. Own'
    <3>1. source = sub \/ saved = "unwritten"
      BY <2>2 DEF Own
    <3>2. pc' = "load" => exe' = source \/ (case.lang # "PY3" /\ end \in UnseenEnd)
      BY <2>1, <2>3, <2>10 DEF Ends, UnseenEnd
    <3>3. case.lang \in {"CPP", "PY3"}
      BY JudgeRunAssumption DEF Lists
    <3> QED
      BY <2>1, <2>2, <2>10, <3>1, <3>2, <3>3 DEF Own
  <2>11. Judged'
    BY <2>2 DEF Judged
  <2>9. JudgesOwnProgram'
    <3>1. trace' = trace /\ Len(trace) = 0 /\ built' = end /\ sub' = sub
      BY <2>1, <2>2, <2>4 DEF TypeOK
    <3>2. \A k \in 1..Len(trace') : FALSE
      BY <1>0, <3>1
    <3>3. end \notin UnseenEnd =>
            (verdict'.status = "COMPILE_ERROR" <=> end \in {"failed", "refused"})
      BY <2>3, <2>4, <2>10 DEF Ends, UnseenEnd
    <3> QED
      BY <3>1, <3>2, <3>3 DEF JudgesOwnProgram
  <2> QED
    BY <2>5, <2>6, <2>7, <2>8, <2>9, <2>11
<1>2. CASE CompileThrows
  <2>1. /\ pc = "compile" /\ Returns("throws", "compile_throw_error")
        /\ UNCHANGED <<case, sub, source, exe, outs, i, input, output, results, trace,
                       strays, saved, built, strayed>>
    BY <1>2 DEF CompileThrows, dirVars, loopVars
  <2>2. pc' = "done" /\ verdict'.status = "throws" /\ built = "none"
    BY <2>1, Returned DEF Stages
  <2>3. verdict.status = "none"
    BY <2>1, NothingReturned DEF Stages
  <2> QED
    BY <2>1, <2>2, <2>3 DEF TypeOK, Lists, Stages, Own, Judged, JudgesOwnProgram
<1>3. CASE Load
  <2>1. /\ pc = "load" /\ pc' = "test" /\ Loads(case.problem)
        /\ input' = Inputs(case.problem) /\ output' = Outputs(case.problem)
        /\ UNCHANGED <<case, sub, source, exe, outs, i, results, verdict, trace,
                       strays, saved, built, strayed>>
    BY <1>3 DEF Load, dirVars
  <2>2. i = 0
    BY <2>1 DEF Stages
  <2>3. Len(input') \in Nat /\ Len(input') = Len(output')
    BY <2>1, LoadedLists DEF Lists, Loads
  <2>4. TypeOK'
    BY <2>1, <2>2, <2>3 DEF TypeOK
  <2>5. Lists'
    BY <2>1, <2>2 DEF Lists
  <2>6. Judged'
    BY <2>1 DEF Judged
  <2> QED
    BY <2>1, <2>4, <2>5, <2>6 DEF Stages, Own, JudgesOwnProgram
<1>4. CASE FallsOff
  <2>1. /\ pc \in {"load", "test"} /\ Returns("undefined", "")
        /\ UNCHANGED <<case, sub, source, exe, outs, i, input, output, results, trace,
                       strays, saved, built, strayed>>
    BY <1>4 DEF FallsOff, dirVars, loopVars
  <2>2. pc' = "done" /\ verdict'.status = "undefined"
    BY <2>1, Returned
  <2>3. verdict.status = "none"
    BY <2>1, NothingReturned DEF Stages
  <2> QED
    BY <2>1, <2>2, <2>3 DEF TypeOK, Lists, Stages, Own, Judged, JudgesOwnProgram
<1>5. CASE Test
  <2>0. PICK end \in Ends : \E r \in Core(end) : \E after \in OwnOuts(end) \cup StrayOuts :
          /\ results' = Append(results,
               [r EXCEPT !.result = Result(r, after[i + 1].text, output[i + 1].text)])
          /\ trace' = Append(trace,
               [exe |-> exe, input |-> input[i + 1], answer |-> output[i + 1],
                end |-> end, core |-> r, out |-> after[i + 1]])
          /\ outs' = after /\ strayed' = (strayed \/ after \notin OwnOuts(end))
    BY <1>5 DEF Test
  <2>1. PICK r \in Core(end), after \in OwnOuts(end) \cup StrayOuts :
          /\ results' = Append(results,
               [r EXCEPT !.result = Result(r, after[i + 1].text, output[i + 1].text)])
          /\ trace' = Append(trace,
               [exe |-> exe, input |-> input[i + 1], answer |-> output[i + 1],
                end |-> end, core |-> r, out |-> after[i + 1]])
          /\ outs' = after /\ strayed' = (strayed \/ after \notin OwnOuts(end))
    BY <2>0
  <2>2. /\ pc = "test" /\ i < Len(input) /\ i' = i + 1
        /\ UNCHANGED <<case, sub, pc, source, exe, input, output, verdict, strays,
                       saved, built>>
    BY <1>5 DEF Test
  <2> DEFINE t == [exe |-> exe, input |-> input[i + 1], answer |-> output[i + 1],
                   end |-> end, core |-> r, out |-> after[i + 1]]
  <2>3. /\ IsSeq(trace')
        /\ Len(trace) = i /\ Len(trace') = i + 1
        /\ \A k \in 1..i : trace'[k] = trace[k]
        /\ trace'[i + 1] = t
    <3>1. IsSeq(trace) /\ Len(trace) = i
      BY DEF Lists, TypeOK
    <3>2. trace' = Append(trace, t)
      BY <2>1
    <3> HIDE DEF t
    <3> QED
      BY <3>1, <3>2, Longer
  <2>4. /\ IsSeq(results') /\ Len(results') = i + 1
        /\ \A k \in 1..i : results'[k] = results[k]
        /\ results'[i + 1].result = Result(r, after[i + 1].text, output[i + 1].text)
    <3> DEFINE e == [r EXCEPT !.result = Result(r, after[i + 1].text, output[i + 1].text)]
    <3>1. IsSeq(results) /\ Len(results) = i
      BY DEF Lists, TypeOK
    <3>2. results' = Append(results, e)
      BY <2>1
    <3>3. e.result = Result(r, after[i + 1].text, output[i + 1].text)
      BY ResultSet
    <3> HIDE DEF e
    <3> QED
      BY <3>1, <3>2, <3>3, Longer
  <2>5. /\ t.exe = exe /\ t.input = input[i + 1] /\ t.answer = output[i + 1]
        /\ t.end = end /\ t.core = r /\ t.out = after[i + 1]
    OBVIOUS
  <2> HIDE DEF t
  <2>6. i \in Nat /\ Len(input) \in Nat /\ \A k \in 1..i + 1 : k \in 1..i \/ k = i + 1
    <3>1. input = <<>> \/ input = Inputs(case.problem)
      BY DEF Lists
    <3>2. Len(input) \in Nat
      BY <3>1, Empty, LoadedLists DEF Lists
    <3> QED
      BY <3>2 DEF TypeOK
  <2>7. TypeOK'
    BY <2>2, <2>3, <2>4, <2>6 DEF TypeOK
  <2>8. Lists'
    <3>1. \A k \in 1..i' : /\ trace'[k].input = input'[k]
                           /\ trace'[k].answer = output'[k]
      BY <2>2, <2>3, <2>5, <2>6 DEF Lists
    <3> QED
      BY <2>2, <2>3, <2>4, <3>1 DEF Lists
  <2>12. strayed => strayed'
    BY <2>1
  <2>9. Stages' /\ Own'
    BY <2>2, <2>12 DEF Stages, Own
  <2>13. /\ IsSeq(after)
         /\ end \notin {"refused", "silent"} =>
              /\ after[i + 1].text \in case.outputs
              /\ after[i + 1].of = sub \/ strayed'
    <3>1. after \notin OwnOuts(end) => strayed'
      BY <2>1
    <3> QED
      BY <2>6, <3>1, FileKept DEF Judged
  <2>10. JudgesOwnProgram'
    <3> DEFINE Fits(x) == /\ \/ x.exe = sub
                             \/ saved = "unwritten" \/ strayed'
                             \/ case.lang = "CPP" /\ built \in UnseenEnd
                          /\ x.end \notin {"refused", "silent"} => x.out.of = sub \/ strayed'
    <3>1. Fits(trace'[i + 1])
      BY <2>2, <2>3, <2>5, <2>12, <2>13 DEF Own
    <3>2. \A k \in 1..i : Fits(trace'[k])
      BY <2>3, <2>12 DEF JudgesOwnProgram
    <3>3. \A k \in 1..Len(trace') : Fits(trace'[k])
      BY <2>3, <2>6, <3>1, <3>2
    <3> QED
      BY <2>2, <3>3 DEF JudgesOwnProgram
  <2>11. Judged'
    <3>2. MadeOf(results'[i + 1], trace'[i + 1], case'.outputs)
      BY <2>2, <2>3, <2>4, <2>5, <2>13 DEF MadeOf
    <3>3. \A k \in 1..i : MadeOf(results'[k], trace'[k], case'.outputs)
      BY <2>2, <2>3, <2>4 DEF Judged
    <3> QED
      BY <2>1, <2>2, <2>6, <2>13, <3>2, <3>3 DEF Judged
  <2> QED
    BY <2>7, <2>8, <2>9, <2>10, <2>11
<1>6. CASE Finish
  <2>1. /\ pc = "test" /\ i = Len(input) /\ Returns("END", "")
        /\ UNCHANGED <<case, sub, source, exe, outs, i, input, output, results, trace,
                       strays, saved, built, strayed>>
    BY <1>6 DEF Finish, dirVars, loopVars
  <2>2. pc' = "done" /\ verdict'.status = "END"
    BY <2>1, Returned
  <2>3. verdict.status = "none"
    BY <2>1, NothingReturned DEF Stages
  <2>4. Stages'
    BY <2>1, <2>2 DEF Stages
  <2> QED
    BY <2>1, <2>2, <2>3, <2>4 DEF TypeOK, Lists, Own, Judged, JudgesOwnProgram
<1>7. CASE Restart
  <2>1. /\ sub < Submissions /\ sub' = sub + 1 /\ pc' = "save" /\ i' = 0
        /\ input' = <<>> /\ output' = <<>> /\ results' = <<>> /\ trace' = <<>>
        /\ verdict' = NoVerdict /\ saved' = "none" /\ built' = "none"
        /\ strays' = strays \cup Child
        /\ UNCHANGED <<case, source, exe, outs>>
    BY <1>7 DEF Restart, dirVars
  <2>4. verdict'.status = "none"
    BY <2>1, NothingReturned
  <2>5. \A s \in Child : s.from \in {source, sub}
    BY DEF Child
  <2>6. sub' \in 1..Submissions /\ sub' - 1 = sub /\ sub \in Nat
    BY <2>1, JudgeRunAssumption DEF TypeOK
  <2>7. \A s \in strays' : s.from \in 0..sub' - 1
    <3>1. \A s \in strays : s.from \in 0..sub
      BY <2>6 DEF TypeOK
    <3> QED
      BY <1>0, <2>1, <2>5, <2>6, <3>1
  <2>8. source' \in 0..sub' /\ exe' \in 0..sub'
    BY <1>0, <2>1, <2>6
  <2>2. TypeOK'
    BY Empty, <2>1, <2>4, <2>6, <2>7, <2>8 DEF TypeOK
  <2>3. Lists'
    BY Empty, <2>1 DEF Lists
  <2>9. UnseenEnd = {"killed", "silent"}
    BY DEF UnseenEnd
  <2> QED
    BY Empty, <2>1, <2>2, <2>3, <2>4, <2>9 DEF Stages, Own, Judged, JudgesOwnProgram
<1>10. CASE StrayLinks \/ StrayEnds
  <2>1. /\ UNCHANGED <<case, sub, pc, source, outs, i, input, output, results, trace,
                       verdict, saved, built>>
        /\ strayed => strayed'
        /\ strays' \subseteq strays
    <3>1. CASE StrayLinks
      BY <3>1 DEF StrayLinks, loopVars
    <3>2. CASE StrayEnds
      BY <3>2 DEF StrayEnds, dirVars, loopVars
    <3> QED
      BY <1>10, <3>1, <3>2
  <2>2. exe' \in 0..sub
    <3>1. CASE StrayLinks
      <4>1. PICK s \in strays : exe' \in {s.from, source}
        BY <3>1 DEF StrayLinks
      <4>2. s.from \in 0..sub
        BY JudgeRunAssumption DEF TypeOK
      <4> QED
        BY <1>0, <4>1, <4>2
    <3>2. CASE StrayEnds
      BY <1>0, <3>2 DEF StrayEnds, dirVars
    <3> QED
      BY <1>10, <3>1, <3>2
  <2>3. TypeOK'
    BY <2>1, <2>2 DEF TypeOK
  <2>4. Lists' /\ Stages' /\ Judged'
    BY <2>1 DEF Lists, Stages, Judged
  <2>5. Own'
    <3>1. exe' = exe \/ strayed' \/ pc \notin {"load", "test"}
      BY <1>10 DEF StrayLinks, StrayEnds, dirVars
    <3> QED
      BY <2>1, <3>1 DEF Own
  <2>6. JudgesOwnProgram'
    BY <2>1 DEF JudgesOwnProgram
  <2> QED
    BY <2>3, <2>4, <2>5, <2>6
<1>8. CASE UNCHANGED vars
  BY <1>8 DEF vars, dirVars, loopVars, TypeOK, Lists, Stages, Own, Judged, JudgesOwnProgram
<1> QED
  BY <1>1, <1>2, <1>3, <1>4, <1>5, <1>6, <1>7, <1>8, <1>9, <1>10 DEF Next

LEMMA InvAlways == Spec => []Inv
  BY InvInit, InvNext, PTL DEF Spec

-----------------------------------------------------------------------------
(* Input, output, results and the loop variable stay together, and no      *)
(* program is of a submission that is still to come.                       *)
THEOREM TypeCorrect == Spec => []TypeOK
<1>1. Inv => TypeOK
  BY DEF Inv
<1> QED
  BY <1>1, InvAlways, PTL

(* In a well-formed data directory each input is judged against the answer *)
(* of its number and in the order of the numbers, for any number of files, *)
(* whatever their names (judge.hpp, lines 229-233).                        *)
THEOREM TestsPair == Spec => []TestsPaired
<1>1. Inv => TestsPaired
  <2> SUFFICES ASSUME Inv, WellFormedData(case.problem), NEW k \in 1..Len(trace)
               PROVE  /\ trace[k].input.num = trace[k].answer.num
                      /\ k > 1 => trace[k - 1].input.num < trace[k].input.num
    BY DEF TestsPaired
  <2>1. /\ case \in Cases /\ Len(trace) = i /\ i \in 0..Len(input)
        /\ Len(output) = Len(input)
        /\ \A j \in 1..i : trace[j].input = input[j] /\ trace[j].answer = output[j]
    BY DEF Inv, TypeOK, Lists
  <2>2. input = Inputs(case.problem) /\ output = Outputs(case.problem)
    <3>1. CASE input = <<>>
      BY <2>1, <3>1
    <3> QED
      BY <3>1 DEF Inv, Lists
  <2>3. Len(input) \in Nat
    BY <2>1, <2>2, LoadedLists
  <2>4. k \in 1..i /\ k \in 1..Len(input) /\ k <= Len(output)
    BY <2>1, <2>3
  <2>5. /\ input[k].num = output[k].num
        /\ k > 1 => input[k - 1].num < input[k].num
    BY <2>1, <2>2, <2>4, ListsPaired
  <2>6. k > 1 => k - 1 \in 1..i
    BY <2>1, <2>3, <2>4
  <2> QED
    BY <2>1, <2>4, <2>5, <2>6
<1> QED
  BY <1>1, InvAlways, PTL

(* No run reports worse of a test than it deserves by the comparison and   *)
(* the limit the repository documents, and none accepts an output that     *)
(* does not begin with the answer, for texts of any length without 0xFF    *)
(* (judge.cpp, lines 263-291, with check.hpp).                             *)
THEOREM VerdictsFit == Spec => []VerdictFits
<1> DEFINE Fits(t, r) ==
             /\ t.end \notin {"finished", "silent"} => r = t.core.result
             /\ t.end = "finished" =>
                  /\ r \in {0, WRONG_ANSWER, MEMORY_LIMIT_EXCEEDED}
                  /\ r = MEMORY_LIMIT_EXCEEDED => t.core.memory >= LimitInMB
                  /\ r = WRONG_ANSWER /\ Readable(t) => ~SameText(t.out.text, t.answer.text)
                  /\ r = 0 /\ Readable(t) => AnswerLeads(t.out.text, t.answer.text)
<1>1. Inv => VerdictFits
  <2> SUFFICES ASSUME Inv, verdict.status = "END"
               PROVE  /\ Len(results) = Cardinality(Matching(case.problem.files, {"in"}))
                      /\ \A k \in 1..Len(results) : Fits(trace[k], results[k].result)
    BY DEF VerdictFits
  <2>1. /\ case \in Cases /\ i = Len(input) /\ Len(results) = i
        /\ input = Inputs(case.problem) /\ Len(output) = Len(input)
        /\ \A k \in 1..i : trace[k].answer = output[k]
        /\ \A k \in 1..i : MadeOf(results[k], trace[k], case.outputs)
    BY DEF Inv, TypeOK, Lists, Stages, Judged
  <2>2. Len(results) = Cardinality(Matching(case.problem.files, {"in"}))
    BY <2>1, SortedCount
  <2>3. ASSUME NEW k \in 1..Len(results)
        PROVE  Fits(trace[k], results[k].result)
    <3> DEFINE t == trace[k]
               r == results[k].result
    <3>1. MadeOf(results[k], t, case.outputs) /\ t.answer = output[k] /\ k \in 1..i
      BY <2>1
    <3>2. t.answer.text \in Seq(Character)
      <4>1. t.answer \in case.problem.files
        <5>1. output = Outputs(case.problem)
          BY <2>1, <3>1 DEF Inv, Lists
        <5>2. output \in Seq(Matching(case.problem.files, {"out", "ans"}))
          BY <2>1, <5>1, SortAssumption DEF Outputs
        <5>3. k \in 1..Len(output)
          BY <2>1, <3>1
        <5>4. output[k] \in Matching(case.problem.files, {"out", "ans"})
          BY <5>2, <5>3
        <5> QED
          BY <3>1, <5>4 DEF Matching
      <4> QED
        BY <2>1, <4>1, JudgeRunAssumption
    <3> HIDE DEF t
    <3>3. /\ t.end \in Ends /\ t.core \in Core(t.end)
          /\ t.end \notin {"refused", "silent"} => t.out.text \in case.outputs
          /\ r = Result(t.core, t.out.text, t.answer.text)
      BY <3>1 DEF MadeOf
    <3> HIDE DEF r
    <3>4. CASE t.end = "finished"
      <4>1. /\ r \in {0, WRONG_ANSWER, MEMORY_LIMIT_EXCEEDED}
            /\ r = MEMORY_LIMIT_EXCEEDED => t.core.memory >= LimitInMB
            /\ r = WRONG_ANSWER => ~NoipstyleCheck(t.out.text, t.answer.text)
            /\ r = 0 => NoipstyleCheck(t.out.text, t.answer.text)
        BY <3>3, <3>4, ResultFits
      <4>2. ASSUME Readable(t)
            PROVE  /\ NoipstyleCheck(t.out.text, t.answer.text)
                        => AnswerLeads(t.out.text, t.answer.text)
                   /\ SameText(t.out.text, t.answer.text)
                        => NoipstyleCheck(t.out.text, t.answer.text)
        <5>1. Plain(t.out.text) /\ Plain(t.answer.text)
          BY <2>1, <3>2, <3>3, <3>4, <4>2, JudgeRunAssumption DEF Plain, Readable
        <5>2. NoipstyleCheck(t.out.text, t.answer.text)
                <=> AnswerLeads(t.out.text, t.answer.text)
          BY <5>1, CheckedRight
        <5>3. /\ Len(LinesOf(t.out.text)) \in Nat
              /\ Len(LinesOf(t.answer.text)) \in Nat
          BY <5>1, LinesCounted
        <5> QED
          BY <5>2, <5>3, SameLeads
      <4> QED
        BY <3>4, <4>1, <4>2 DEF t, r
    <3>5. CASE t.end \notin {"finished", "silent"}
      <4>1. r = t.core.result
        BY <3>3, <3>5, ResultFits
      <4> QED
        BY <3>5, <4>1 DEF t, r
    <3>6. CASE t.end = "silent"
      BY <3>6 DEF t, r
    <3> QED
      BY <3>4, <3>5, <3>6
  <2> QED
    BY <2>2, <2>3
<1> QED
  BY <1>1, InvAlways, PTL

(* Whatever an earlier process left in the directory or running in it, the *)
(* submission's own program is judged by its own output and its compile    *)
(* error is reported, unless one of the causes that JudgesOwnProgram names *)
(* has occurred: a source that was not written, a stray's write, a C++     *)
(* compiler killed or a core that printed nothing (judge.cpp, lines 12-26  *)
(* and 218-251, utils.cpp, lines 5-13), for any number of submissions.     *)
THEOREM OwnProgram == Spec => []JudgesOwnProgram
<1>1. Inv => JudgesOwnProgram
  BY DEF Inv
<1> QED
  BY <1>1, InvAlways, PTL
=============================================================================
