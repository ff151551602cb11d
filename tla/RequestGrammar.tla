---------------------------- MODULE RequestGrammar ----------------------------
(***************************************************************************)
(* What the parser and the decoder of RequestParser are to accept, said by *)
(* the positions of line ends, spaces and colons instead of character by   *)
(* character: the vocabulary of HttpServer's properties.                   *)
(***************************************************************************)
EXTENDS RequestParser

All(s, set) == \A i \in 1..Len(s) : s[i] \in set
NonEmpty(s, set) == s # <<>> /\ All(s, set)
Find(s, from, c) == SelectInSubSeq(s, from, Len(s), LAMBDA x : x = c)

(* A request is a head, which ends at the first empty line, and as many    *)
(* characters of content as the head declares.                             *)
Crlf(t, n) == n + 1 <= Len(t) /\ t[n] = "CR" /\ t[n + 1] = "LF"
HeadEnds(t) == {n \in 1..Len(t) : Crlf(t, n) /\ Crlf(t, n + 2)}
HeadEnd(t) == CHOOSE n \in HeadEnds(t) : \A k \in HeadEnds(t) : n <= k

(* A line starts at the beginning of the text and after each line end, and *)
(* goes to the next line end, or the end of the text.                      *)
StartsLine(t, b) == b = 1 \/ (b > 2 /\ Crlf(t, b - 2))
LineEnd(t, b) ==
  LET ends == {n \in b..Len(t) : Crlf(t, n)}
  IN IF ends = {} THEN Len(t) + 1 ELSE Min(ends)
Line(t, b) == SubSeq(t, b, LineEnd(t, b) - 1)

(* token SP uri SP HTTP/digits.digits *)
IsRequestLine(l) ==
  LET i == Find(l, 1, "SP")
      j == Find(l, i + 1, "SP")
      d == Find(l, j + 1, ".")
  IN /\ i # 0 /\ j # 0 /\ d > j + 6
     /\ NonEmpty(SubSeq(l, 1, i - 1), Token)
     /\ All(SubSeq(l, i + 1, j - 1), Text)
     /\ SubSeq(l, j + 1, j + 5) = <<"H", "T", "T", "P", "/">>
     /\ NonEmpty(SubSeq(l, j + 6, d - 1), Digit)
     /\ NonEmpty(SubSeq(l, d + 1, Len(l)), Digit)

(* token ":" SP value *)
IsHeader(l) ==
  LET i == Find(l, 1, ":")
  IN /\ i # 0
     /\ NonEmpty(SubSeq(l, 1, i - 1), Token)
     /\ i < Len(l) /\ l[i + 1] = "SP"
     /\ All(SubSeq(l, i + 2, Len(l)), Text)

(* A continuation line: white space, then more of the value above it.      *)
More(l) == LET i == SelectInSeq(l, LAMBDA c : c \notin Lws)
           IN IF i = 0 THEN <<>> ELSE SubSeq(l, i, Len(l))
IsContinuation(l) == l # <<>> /\ l[1] \in Lws /\ All(More(l), Text)

(* A line after the first one.                                            *)
IsHeaderLine(t, b) ==
  \/ IsHeader(Line(t, b))
  \/ IsContinuation(Line(t, b)) /\ \E a \in 2..b - 1 : StartsLine(t, a)

IsHead(t) ==
  /\ HeadEnds(t) # {}
  /\ IsRequestLine(Line(t, 1))
  /\ \A b \in 2..HeadEnd(t) : StartsLine(t, b) => IsHeaderLine(t, b)

(* The headers of the lines that start at 2..n, each with its continuation *)
(* lines.                                                                  *)
WithLine(hs, l) ==
  IF IsHeader(l)
  THEN LET i == Find(l, 1, ":")
       IN Append(hs, [name  |-> SubSeq(l, 1, i - 1),
                      value |-> SubSeq(l, i + 2, Len(l))])
  ELSE [hs EXCEPT ![Len(hs)].value = @ \o More(l)]
HeadersTo(t, n) ==
  LET hs[b \in 0..n] ==
        IF b < 2 THEN <<>>
        ELSE IF StartsLine(t, b) THEN WithLine(hs[b - 1], Line(t, b)) ELSE hs[b - 1]
  IN hs[n]
Headers(t) == HeadersTo(t, HeadEnd(t))

(* The value of the last header of that name.                              *)
Has(t, name) == \E i \in 1..Len(Headers(t)) : Headers(t)[i].name = <<name>>
Value(t, name) ==
  LET hs   == Headers(t)
      last == CHOOSE i \in 1..Len(hs) :
                /\ hs[i].name = <<name>>
                /\ \A j \in i + 1..Len(hs) : hs[j].name # <<name>>
  IN IF Has(t, name) THEN hs[last].value ELSE <<>>

Method(t) == SubSeq(t, 1, Find(t, 1, "SP") - 1)
Target(t) == LET i == Find(t, 1, "SP") IN SubSeq(t, i + 1, Find(t, i + 1, "SP") - 1)
Declared(t) == Number(Value(t, "Content-Length"))
Body(t) == IF ~Has(t, "Content-Length") THEN <<>>
           ELSE SubSeq(t, HeadEnd(t) + 4, HeadEnd(t) + 3 + Declared(t))

(* t begins with a complete request: the head, and the declared content,   *)
(* of which there may be none.                                             *)
Complete(t) ==
  /\ IsHead(t)
  /\ Has(t, "Content-Length") => Len(t) >= HeadEnd(t) + 3 + Declared(t)

(* A content is announced, of length 0 or of none that can be read.        *)
DeclaresNothing(t) ==
  IsHead(t) /\ Has(t, "Content-Length") /\ Declared(t) = 0

(* Percent-encoding: every % is followed by two hex digits; + is a space.  *)
WellFormed(u) ==
  \A i \in 1..Len(u) : u[i] = "%" =>
    i + 2 <= Len(u) /\ u[i + 1] \in Hex /\ u[i + 2] \in Hex
Plain(u) ==
  LET esc   == {i \in 1..Len(u) : u[i] = "%"}
      of(i) == IF i \in esc THEN Byte(u[i + 1], u[i + 2])
               ELSE IF u[i] = "+" THEN "SP" ELSE u[i]
      to[i \in 0..Len(u)] ==  \* what the symbols 1..i stand for
        IF i = 0 THEN <<>>
        ELSE IF {i - 1, i - 2} \cap esc # {} THEN to[i - 1] ELSE Append(to[i - 1], of(i))
  IN to[Len(u)]
=============================================================================
