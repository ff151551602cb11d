-------------------------- MODULE HttpServerProofs --------------------------
(***************************************************************************)
(* What holds of HttpServer for any number of clients and threads, any     *)
(* texts and any way recv cuts them into pieces.                           *)
(*                                                                         *)
(* The parser keeps its state in the request, so the pieces do not matter: *)
(* parsing one piece and then another is parsing both (ParseConcat), which *)
(* makes the request a function of what has been received (Parsed).  What  *)
(* a connection does after that depends on the request alone.              *)
(*                                                                         *)
(* What that function is RequestGrammar says: Knows relates, state by      *)
(* state, what the parser holds after k symbols of a text to the lines,    *)
(* colons and blanks among them; no step loses it (StepKnows), and a text  *)
(* that is a request is never refused on the way (Progress).               *)
(***************************************************************************)
EXTENDS HttpServer, Base64Proofs

-----------------------------------------------------------------------------
(* The requests that consume builds: what each state has filled in.        *)
Ended   == {"good", "bad"}
States  == Ended \cup {r.from : r \in Rules}
InHeaders == {"header_lws", "header_name", "space_before_header_value", "header_value"}
HeaderRec == [name : Seq(Symbol), value : Seq(Symbol)]
Sizes   == {0} \cup {Number(v) : v \in Seq(Symbol)}
Requests0 ==
  [state : States, method : Seq(Symbol), uri : Seq(Symbol), headers : Seq(HeaderRec),
   has_content : BOOLEAN, content_size : Sizes, content : Seq(Symbol)]
Parsing == {q \in Requests0 : q.state \in InHeaders => q.headers # <<>>}

LEMMA RuleFacts ==
  ASSUME NEW r \in Rules
  PROVE  /\ r.from \in States \ Ended /\ r.to \in States \ Ended
         /\ r.does \in {"skip", "continue", "method", "uri", "header", "name", "value",
                        "named", "valued", "end_of_headers", "content"}
         /\ r.does \in {"name", "value", "named", "valued"} => r.from \in InHeaders
         /\ r.to \in InHeaders => \/ r.from \in InHeaders
                                  \/ r.does \in {"continue", "header"}
<1> DEFINE Froms == {"method_start", "method", "uri", "http_version_h", "http_version_t_1",
              "http_version_t_2", "http_version_p", "http_version_slash",
              "http_version_major_start", "http_version_major",
              "http_version_minor_start", "http_version_minor", "expecting_newline_1",
              "header_line_start", "header_lws", "header_name",
              "space_before_header_value", "header_value", "expecting_newline_2",
              "expecting_newline_3", "content"}
           Does == {"skip", "continue", "method", "uri", "header", "name", "value",
                        "named", "valued", "end_of_headers", "content"}
           Fine(x) == /\ x.from \in Froms /\ x.to \in Froms
                      /\ x.does \in Does
                      /\ x.does \in {"name", "value", "named", "valued"} => x.from \in InHeaders
                      /\ x.to \in InHeaders => \/ x.from \in InHeaders
                                               \/ x.does \in {"continue", "header"}
<1>1. \A x \in RequestLineRules : Fine(x)
  BY DEF RequestLineRules, Rule, InHeaders
<1>2. \A x \in HeaderRules : Fine(x)
  BY DEF HeaderRules, Rule, InHeaders
<1>3. \A x \in ContentRules : Fine(x)
  BY DEF ContentRules, Rule, InHeaders
<1>4. Froms \subseteq {x.from : x \in Rules}
  <2>1. Froms \subseteq {x.from : x \in RequestLineRules} \cup {x.from : x \in HeaderRules}
                          \cup {x.from : x \in ContentRules}
    BY DEF RequestLineRules, HeaderRules, ContentRules, Rule
  <2> QED
    BY <2>1 DEF Rules
<1>5. Froms \cap Ended = {}
  BY DEF Ended
<1> HIDE DEF Froms
<1> QED
  BY <1>1, <1>2, <1>3, <1>4, <1>5 DEF Rules, States

(* consume keeps a request well formed,                                    *)
LEMMA ConsumeType ==
  ASSUME NEW q \in Parsing, NEW c \in Symbol, q.state \notin Ended
  PROVE  Consume(q, c) \in Parsing
<1>1. q \in Requests0 /\ (q.state \in InHeaders => q.headers # <<>>)
  BY DEF Parsing
<1>2. CASE Applicable(q, c) = {}
  <2>1. "bad" \in States /\ "bad" \notin InHeaders
    BY DEF States, Ended, InHeaders
  <2>2. [q EXCEPT !.state = "bad"] \in Requests0
    BY <1>1, <2>1 DEF Requests0
  <2> QED
    BY <1>1, <1>2, <2>1, <2>2 DEF Consume, Parsing, Requests0
<1>3. CASE Applicable(q, c) # {}
  <2> DEFINE r == CHOOSE x \in Applicable(q, c) : TRUE
             p == [q EXCEPT !.state = r.to]
             last == Len(q.headers)
  <2>1. /\ r \in Rules /\ r.from = q.state
        /\ r.does = "continue" => q.headers # <<>>
    <3>1. r \in Applicable(q, c)
      BY <1>3
    <3>2. q.state \in {x.from : x \in Rules}
      BY <1>1 DEF Requests0, States
    <3> HIDE DEF r
    <3> QED
      BY <3>1, <3>2 DEF Applicable, RulesFrom
  <2>2. Consume(q, c) = Apply(q, r, c)
    BY <1>3 DEF Consume
  <2> HIDE DEF r
  <2>3. /\ r.to \in States /\ r.to \notin Ended
        /\ r.does \in {"skip", "continue", "method", "uri", "header", "name", "value",
                       "named", "valued", "end_of_headers", "content"}
        /\ r.does \in {"name", "value", "named", "valued"} => q.state \in InHeaders
        /\ r.to \in InHeaders => \/ q.state \in InHeaders
                                 \/ r.does \in {"continue", "header"}
    BY <2>1, RuleFacts
  <2>4. p \in Requests0 /\ p.state = r.to /\ p.headers = q.headers
    BY <1>1, <2>3 DEF Requests0
  <2>5. r.to \in InHeaders /\ r.does # "header" => q.headers # <<>>
    BY <1>1, <2>1, <2>3
  <2>6. /\ q.method \in Seq(Symbol) /\ q.uri \in Seq(Symbol)
        /\ q.headers \in Seq(HeaderRec) /\ q.content \in Seq(Symbol)
        /\ q.has_content \in BOOLEAN
    BY <1>1 DEF Requests0
  <2>19. /\ p.method \in Seq(Symbol) /\ p.uri \in Seq(Symbol)
         /\ p.content \in Seq(Symbol)
         /\ \A t \in Seq(Symbol) : Append(t, c) \in Seq(Symbol)
    <3>1. p.method \in Seq(Symbol) /\ p.uri \in Seq(Symbol) /\ p.content \in Seq(Symbol)
      <4> HIDE DEF p
      <4> QED
        BY <2>4 DEF Requests0
    <3>2. \A t \in Seq(Symbol) : Append(t, c) \in Seq(Symbol)
      OBVIOUS
    <3> QED
      BY <3>1, <3>2
  <2> HIDE DEF p
  <2> DEFINE e == Apply(q, r, c)
  <2>7. SUFFICES e \in Parsing
    BY <2>2
  <2>8. CASE r.does \in {"skip", "continue"}
    <3>1. e = p
      BY <2>8 DEF Apply, p
    <3> HIDE DEF e
    <3> QED
      BY <2>4, <2>5, <2>8, <3>1 DEF Parsing
  <2>9. CASE r.does = "method"
    <3> DEFINE t == Append(p.method, c)
    <3>1. e = [p EXCEPT !.method = t]
      BY <2>9 DEF Apply, p
    <3>3. t \in Seq(Symbol)
      BY <2>19
    <3> HIDE DEF t
    <3>2. e \in Requests0 /\ e.state = r.to /\ e.headers = q.headers
      BY <2>4, <3>1, <3>3 DEF Requests0
    <3> QED
      BY <2>5, <2>9, <3>2 DEF Parsing
  <2>10. CASE r.does = "uri"
    <3> DEFINE t == Append(p.uri, c)
    <3>1. e = [p EXCEPT !.uri = t]
      BY <2>10 DEF Apply, p
    <3>3. t \in Seq(Symbol)
      BY <2>19
    <3> HIDE DEF t
    <3>2. e \in Requests0 /\ e.state = r.to /\ e.headers = q.headers
      BY <2>4, <3>1, <3>3 DEF Requests0
    <3> QED
      BY <2>5, <2>10, <3>2 DEF Parsing
  <2>11. CASE r.does = "header"
    <3> DEFINE h == [name |-> <<c>>, value |-> <<>>]
    <3>1. h \in HeaderRec
      BY DEF HeaderRec
    <3> HIDE DEF h
    <3>2. e = [p EXCEPT !.headers = Append(@, h)]
      BY <2>11 DEF Apply, h, p
    <3> DEFINE hs == Append(q.headers, h)
    <3>3. hs \in Seq(HeaderRec) /\ hs # <<>>
      <4>1. hs \in Seq(HeaderRec) /\ Len(hs) = Len(q.headers) + 1
        BY <2>6, <3>1
      <4> HIDE DEF hs
      <4> QED
        BY <2>6, <4>1
    <3>5. e = [p EXCEPT !.headers = hs]
      BY <2>4, <3>2
    <3> HIDE DEF hs
    <3>4. e \in Requests0 /\ e.headers = hs
      BY <2>4, <3>3, <3>5 DEF Requests0
    <3> QED
      BY <3>3, <3>4 DEF Parsing
  <2>12. ASSUME q.state \in InHeaders
         PROVE  last \in 1..Len(q.headers) /\ q.headers[last] \in HeaderRec
    BY <1>1, <2>6, <2>12
  <2>13. CASE r.does = "name"
    <3> DEFINE hs == [q.headers EXCEPT ![last].name = Append(@, c)]
    <3>1. q.headers[last] \in HeaderRec
      BY <2>3, <2>12, <2>13
    <3>2. [q.headers[last] EXCEPT !.name = Append(@, c)] \in HeaderRec
      <4> DEFINE h == q.headers[last]
                 t == Append(h.name, c)
      <4>1. h.name \in Seq(Symbol) /\ h \in HeaderRec
        BY <3>1 DEF HeaderRec
      <4>2. t \in Seq(Symbol)
        BY <2>19, <4>1
      <4> HIDE DEF t, h
      <4>3. [h EXCEPT !.name = t] \in HeaderRec
        BY <4>1, <4>2 DEF HeaderRec
      <4> QED
        BY <4>3 DEF t, h
    <3>3. hs \in Seq(HeaderRec) /\ Len(hs) = Len(q.headers)
      BY <2>3, <2>6, <2>12, <2>13, <3>2
    <3> HIDE DEF hs
    <3>4. e = [p EXCEPT !.headers = hs]
      BY <2>4, <2>13 DEF Apply, hs, p
    <3>5. e \in Requests0 /\ e.headers = hs /\ hs # <<>>
      <4>1. hs # <<>>
        BY <2>3, <2>12, <2>13, <3>3
      <4>2. e \in Requests0 /\ e.headers = hs
        BY <2>4, <3>3, <3>4 DEF Requests0
      <4> QED
        BY <4>1, <4>2
    <3> QED
      BY <3>5 DEF Parsing
  <2>14. CASE r.does = "value"
    <3> DEFINE hs == [q.headers EXCEPT ![last].value = Append(@, c)]
    <3>1. q.headers[last] \in HeaderRec
      BY <2>3, <2>12, <2>14
    <3>2. [q.headers[last] EXCEPT !.value = Append(@, c)] \in HeaderRec
      <4> DEFINE h == q.headers[last]
                 t == Append(h.value, c)
      <4>1. h.value \in Seq(Symbol) /\ h \in HeaderRec
        BY <3>1 DEF HeaderRec
      <4>2. t \in Seq(Symbol)
        BY <2>19, <4>1
      <4> HIDE DEF t, h
      <4>3. [h EXCEPT !.value = t] \in HeaderRec
        BY <4>1, <4>2 DEF HeaderRec
      <4> QED
        BY <4>3 DEF t, h
    <3>3. hs \in Seq(HeaderRec) /\ Len(hs) = Len(q.headers)
      BY <2>3, <2>6, <2>12, <2>14, <3>2
    <3> HIDE DEF hs
    <3>4. e = [p EXCEPT !.headers = hs]
      BY <2>4, <2>14 DEF Apply, hs, p
    <3>5. e \in Requests0 /\ e.headers = hs /\ hs # <<>>
      <4>1. hs # <<>>
        BY <2>3, <2>12, <2>14, <3>3
      <4>2. e \in Requests0 /\ e.headers = hs
        BY <2>4, <3>3, <3>4 DEF Requests0
      <4> QED
        BY <4>1, <4>2
    <3> QED
      BY <3>5 DEF Parsing
  <2>15. CASE r.does = "named"
    <3>1. e = [p EXCEPT !.has_content = q.has_content \/ IsLength(q)]
      BY <2>15 DEF Apply, p
    <3>2. (q.has_content \/ IsLength(q)) \in BOOLEAN
      BY <2>6 DEF IsLength
    <3>3. e \in Requests0 /\ e.state = r.to /\ e.headers = q.headers
      BY <2>4, <3>1, <3>2 DEF Requests0
    <3> QED
      BY <2>5, <2>15, <3>3 DEF Parsing
  <2>16. CASE r.does = "valued"
    <3> DEFINE m == Number(q.headers[last].value)
    <3>1. q.headers[last].value \in Seq(Symbol)
      BY <2>3, <2>12, <2>16 DEF HeaderRec
    <3>2. m \in Sizes
      BY <3>1 DEF Sizes
    <3> HIDE DEF m
    <3>3. e = IF IsLength(q) THEN [p EXCEPT !.content_size = m] ELSE p
      BY <2>16 DEF Apply, m, p
    <3>4. e \in Requests0 /\ e.state = r.to /\ e.headers = q.headers
      BY <2>4, <3>2, <3>3 DEF Requests0
    <3> QED
      BY <2>5, <2>16, <3>4 DEF Parsing
  <2>17. CASE r.does = "end_of_headers"
    <3>1. e = IF q.has_content THEN p ELSE [p EXCEPT !.state = "good"]
      BY <2>17 DEF Apply, p
    <3>2. "good" \in States /\ "good" \notin InHeaders
      BY DEF States, Ended, InHeaders
    <3>3. [p EXCEPT !.state = "good"] \in Requests0 /\ [p EXCEPT !.state = "good"].state = "good"
      BY <2>4, <3>2 DEF Requests0
    <3> QED
      BY <2>4, <2>5, <2>17, <3>1, <3>2, <3>3 DEF Parsing
  <2>18. CASE r.does = "content"
    <3> DEFINE st == IF Len(q.content) + 1 = q.content_size THEN "good" ELSE "content"
    <3>1. st \in States /\ st \notin InHeaders
      <4>1. "content" \in States
        <5>1. Rule("content", Symbol, "content", "content") \in Rules
          BY DEF Rules, ContentRules
        <5>2. Rule("content", Symbol, "content", "content").from = "content"
          BY DEF Rule
        <5> QED
          BY <5>1, <5>2 DEF States
      <4> QED
        BY <4>1 DEF States, Ended, InHeaders
    <3> HIDE DEF st
    <3> DEFINE t == Append(p.content, c)
    <3>2. e = [p EXCEPT !.content = t, !.state = st]
      BY <2>18 DEF Apply, st, p
    <3>4. t \in Seq(Symbol)
      BY <2>19
    <3> HIDE DEF t
    <3>3. e \in Requests0 /\ e.state = st
      BY <2>4, <3>1, <3>2, <3>4 DEF Requests0
    <3> QED
      BY <3>1, <3>3 DEF Parsing
  <2> QED
    BY <2>3, <2>8, <2>9, <2>10, <2>11, <2>13, <2>14, <2>15, <2>16, <2>17, <2>18
<1> QED
  BY <1>2, <1>3

LEMMA NewType == NewRequest \in Parsing /\ NewRequest.state = "method_start"
<1>1. "method_start" \in States /\ "method_start" \notin InHeaders
  <2>1. Rule("method_start", Token, "method", "method") \in Rules
    BY DEF Rules, RequestLineRules
  <2>2. Rule("method_start", Token, "method", "method").from = "method_start"
    BY DEF Rule
  <2> QED
    BY <2>1, <2>2 DEF States, InHeaders
<1> QED
  BY <1>1 DEF NewRequest, Parsing, Requests0, Sizes

-----------------------------------------------------------------------------
(* parse, symbol by symbol.                                                *)
Step1(p, c) == IF p.state \in Ended THEN p ELSE Consume(p, c)

LEMMA Step1Type ==
  ASSUME NEW p \in Parsing, NEW c \in Symbol PROVE Step1(p, c) \in Parsing
BY ConsumeType DEF Step1

Turn(g, q, piece) ==
  /\ g[0] = q
  /\ \A k \in 1..Len(piece) : g[k] = Step1(g[k - 1], piece[k])

LEMMA ParseSteps ==
  ASSUME NEW q \in Parsing, NEW piece \in Seq(Symbol)
  PROVE  \E g \in [0..Len(piece) -> Parsing] :
           Turn(g, q, piece) /\ Parse(q, piece) = g[Len(piece)]
<1> DEFINE n == Len(piece)
           F == [x \in (1..n) \X Parsing |-> Step1(x[2], piece[x[1]])]
           once(f, k) == CHOOSE r \in {IF p.state \in {"good", "bad"} THEN p
                                       ELSE Consume(p, piece[k]) : p \in {f[k - 1]}} : TRUE
           Rec(f) == [k \in 0..n |-> IF k = 0 THEN q ELSE once(f, k)]
           after == CHOOSE f : f = Rec(f)
<1>1. n \in Nat /\ \A k \in 1..n : piece[k] \in Symbol
  OBVIOUS
<1>2. \A f : \A k \in 1..n : once(f, k) = Step1(f[k - 1], piece[k])
  <2> TAKE f
  <2> TAKE k \in 1..n
  <2>1. {IF p.state \in {"good", "bad"} THEN p ELSE Consume(p, piece[k]) : p \in {f[k - 1]}}
          = {Step1(f[k - 1], piece[k])}
    BY DEF Step1, Ended
  <2>2. \A e : (CHOOSE r \in {e} : TRUE) = e
    OBVIOUS
  <2> QED
    BY <2>1, <2>2
<1>3. Parse(q, piece) = after[n]
  BY DEF Parse
<1> HIDE DEF n, once
<1>4. F \in [(1..n) \X Parsing -> Parsing]
  BY <1>1, Step1Type
<1>5. PICK g \in [0..n -> Parsing] : ByRec(g, n, q, F)
  <2> HIDE DEF F
  <2> QED
    BY <1>1, <1>4, RecExists
<1>6. \A k \in 0..n : g[k] = IF k = 0 THEN q ELSE Step1(g[k - 1], piece[k])
  <2> TAKE k \in 0..n
  <2>1. k # 0 => F[<<k, g[k - 1]>>] = Step1(g[k - 1], piece[k])
    <3> HAVE k # 0
    <3>1. <<k, g[k - 1]>> \in (1..n) \X Parsing
      BY <1>1
    <3> QED
      BY <3>1
  <2> HIDE DEF F
  <2> QED
    BY <1>5, <2>1 DEF ByRec
<1>7. g = Rec(g)
  <2>1. \A k \in 0..n : k # 0 => once(g, k) = Step1(g[k - 1], piece[k])
    BY <1>1, <1>2
  <2>2. \A k \in 0..n : g[k] = IF k = 0 THEN q ELSE once(g, k)
    BY <1>6, <2>1
  <2> QED
    BY <2>2
<1>8. after = Rec(after)
  BY <1>7
<1>9. AgreeByRec(after, g, 0, n)
  <2>1. \A f : f = Rec(f) => \A k \in 0..n : f[k] = IF k = 0 THEN q ELSE once(f, k)
    OBVIOUS
  <2>2. \A k \in 0..n : k # 0 => k \in 1..n
    BY <1>1
  <2> HIDE DEF Rec, after
  <2> QED
    BY <1>2, <1>6, <1>8, <2>1, <2>2 DEF AgreeByRec
<1>10. after[n] = g[n]
  <2> HIDE DEF after
  <2> QED
    BY <1>1, <1>9, SameByRec
<1> HIDE DEF after
<1>11. Turn(g, q, piece)
  BY <1>1, <1>6 DEF Turn, n
<1> QED
  BY <1>3, <1>10, <1>11 DEF n

LEMMA ParseType ==
  ASSUME NEW q \in Parsing, NEW piece \in Seq(Symbol)
  PROVE  Parse(q, piece) \in Parsing
<1>1. Len(piece) \in 0..Len(piece)
  OBVIOUS
<1> QED
  BY <1>1, ParseSteps

LEMMA ParseNothing ==
  ASSUME NEW q \in Parsing PROVE Parse(q, <<>>) = q
<1>1. <<>> \in Seq(Symbol) /\ Len(<<>>) = 0
  OBVIOUS
<1>2. PICK g : Turn(g, q, <<>>) /\ Parse(q, <<>>) = g[Len(<<>>)]
  BY <1>1, ParseSteps
<1> QED
  BY <1>1, <1>2 DEF Turn

(* It does not matter where a text is cut: what a state lacks of what went *)
(* before is in the request.                                               *)
LEMMA ParseConcat ==
  ASSUME NEW q \in Parsing, NEW a \in Seq(Symbol), NEW b \in Seq(Symbol)
  PROVE  Parse(q, a \o b) = Parse(Parse(q, a), b)
<1> DEFINE m == Len(a)
           n == Len(b)
           t == a \o b
<1>1. /\ m \in Nat /\ n \in Nat /\ t \in Seq(Symbol) /\ Len(t) = m + n
      /\ \A k \in 1..m : t[k] = a[k]
      /\ \A k \in 1..n : t[m + k] = b[k]
  OBVIOUS
<1>2. PICK f \in [0..m -> Parsing] : Turn(f, q, a) /\ Parse(q, a) = f[m]
  BY ParseSteps
<1>3. Parse(q, a) \in Parsing
  BY ParseType
<1>4. PICK g \in [0..n -> Parsing] :
        Turn(g, Parse(q, a), b) /\ Parse(Parse(q, a), b) = g[n]
  BY <1>3, ParseSteps
<1> HIDE DEF t
<1>5. PICK h \in [0..Len(t) -> Parsing] : Turn(h, q, t) /\ Parse(q, t) = h[Len(t)]
  BY <1>1, ParseSteps
<1> DEFINE e == [k \in 0..m + n |-> IF k <= m THEN f[k] ELSE g[k - m]]
<1> HIDE DEF m, n
<1>6. AgreeByRec(h, e, 0, m + n)
  <2> SUFFICES ASSUME NEW k \in 0..m + n, k # 0 => h[k - 1] = e[k - 1]
               PROVE  h[k] = e[k]
    BY DEF AgreeByRec
  <2>1. CASE k = 0
    BY <1>1, <1>2, <1>5, <2>1 DEF Turn
  <2>2. CASE k # 0
    <3>1. k \in 1..Len(t) /\ k - 1 \in 0..m + n
      BY <1>1, <2>2
    <3>2. h[k] = Step1(e[k - 1], t[k])
      BY <1>5, <2>2, <3>1 DEF Turn
    <3>3. CASE k <= m
      <4>1. k \in 1..m /\ k - 1 <= m /\ e[k] = f[k] /\ e[k - 1] = f[k - 1]
        BY <1>1, <3>1, <3>3
      <4>2. f[k] = Step1(f[k - 1], a[k])
        BY <1>2, <4>1 DEF Turn, m
      <4> QED
        BY <1>1, <3>2, <4>1, <4>2
    <3>4. CASE ~(k <= m)
      <4> DEFINE i == k - m
      <4>1. i \in 1..n /\ k = m + i /\ e[k] = g[i]
        BY <1>1, <3>4
      <4>2. e[k - 1] = g[i - 1]
        <5>1. CASE i = 1
          <6>1. e[k - 1] = f[m]
            BY <1>1, <3>1, <5>1
          <6> QED
            BY <1>2, <1>4, <5>1, <6>1 DEF Turn
        <5>2. CASE i # 1
          BY <1>1, <3>1, <4>1, <5>2
        <5> QED
          BY <5>1, <5>2
      <4>3. g[i] = Step1(g[i - 1], b[i]) /\ t[k] = b[i]
        <5> HIDE DEF i
        <5> QED
          BY <1>1, <1>4, <4>1 DEF Turn, n
      <4> QED
        BY <3>2, <4>1, <4>2, <4>3
    <3> QED
      BY <3>3, <3>4
  <2> QED
    BY <2>1, <2>2
<1>7. h[m + n] = e[m + n]
  <2>1. m + n \in Nat /\ m + n \in 0..m + n
    BY <1>1
  <2> HIDE DEF e
  <2> QED
    BY <1>6, <2>1, SameByRec
<1>8. e[m + n] = g[n]
  <2>1. CASE n = 0
    BY <1>1, <1>2, <1>4, <2>1 DEF Turn
  <2>2. CASE n # 0
    BY <1>1, <2>2
  <2> QED
    BY <2>1, <2>2
<1> QED
  BY <1>1, <1>4, <1>5, <1>7, <1>8 DEF t

-----------------------------------------------------------------------------
(* The grammar by positions.  First the classes of symbols.                *)
LEMMA Classes ==
  /\ \A x \in Token : x \in Symbol /\ x \notin {"SP", ":", "CR", "LF"} /\ x \notin Lws
  /\ \A x \in Text : x \in Symbol /\ x \notin {"CR", "LF"}
  /\ \A x \in Digit : x \in Symbol /\ x \notin {"SP", ".", "CR", "LF"}
  /\ \A x \in Lws : x \in Symbol /\ x \notin {":", "CR", "LF"}
<1>1. \A x \in Token : x \in Symbol /\ x \notin {"SP", ":", "CR", "LF"} /\ x \notin Lws
  BY DEF Token, Symbol, Ctl, TSpecial, Lws
<1>2. \A x \in Text : x \in Symbol /\ x \notin {"CR", "LF"}
  BY DEF Text, Ctl
<1>3. \A x \in Digit : x \in Symbol /\ x \notin {"SP", ".", "CR", "LF"}
  BY DEF Digit, Symbol, Char, Hex
<1>4. \A x \in Lws : x \in Symbol /\ x \notin {":", "CR", "LF"}
  BY DEF Lws, Symbol, Char, TSpecial
<1> QED
  BY <1>1, <1>2, <1>3, <1>4

(* The first place of a symbol, and of a line end.                         *)
LEMMA MinIs ==
  ASSUME NEW S \in SUBSET Nat, NEW n \in S, \A m \in S : n <= m
  PROVE  Min(S) = n
<1>1. \A x \in S : (\A y \in S : x =< y) => x = n
  OBVIOUS
<1> QED
  BY <1>1 DEF Min

LEMMA MinAt ==
  ASSUME NEW S \in SUBSET Nat, S # {}
  PROVE  Min(S) \in S /\ \A m \in S : Min(S) <= m
BY SmallestOf DEF Min

LEMMA FindIs ==
  ASSUME NEW t \in Seq(Symbol), NEW from \in Nat \ {0}, NEW c,
         NEW n \in from..Len(t), t[n] = c, \A i \in from..n - 1 : t[i] # c
  PROVE  Find(t, from, c) = n
<1> DEFINE I == {i \in from..Len(t) : t[i] = c}
<1>1. Find(t, from, c) = IF I # {} THEN Min(I) ELSE 0
  BY DEF Find, SelectInSubSeq
<1>2. n \in I /\ I \in SUBSET Nat
  OBVIOUS
<1>3. \A m \in I : n <= m
  <2> TAKE m \in I
  <2>1. m \in from..Len(t) /\ m \notin from..n - 1
    OBVIOUS
  <2> QED
    BY <2>1
<1> HIDE DEF I
<1>4. Min(I) = n
  BY <1>2, <1>3, MinIs
<1> QED
  BY <1>1, <1>2, <1>4

LEMMA FindAt ==
  ASSUME NEW t \in Seq(Symbol), NEW from \in Nat \ {0}, NEW c, Find(t, from, c) # 0
  PROVE  /\ Find(t, from, c) \in from..Len(t) /\ t[Find(t, from, c)] = c
         /\ \A i \in from..Find(t, from, c) - 1 : t[i] # c
<1> DEFINE I == {i \in from..Len(t) : t[i] = c}
<1>1. Find(t, from, c) = IF I # {} THEN Min(I) ELSE 0
  BY DEF Find, SelectInSubSeq
<1>2. I \in SUBSET Nat /\ I \subseteq from..Len(t)
  OBVIOUS
<1>3. \A i \in from..Len(t) : t[i] = c => i \in I
  OBVIOUS
<1>4. \A i \in I : t[i] = c
  OBVIOUS
<1> HIDE DEF I
<1>5. PICK n \in from..Len(t) : Find(t, from, c) = n /\ n \in I /\ \A m \in I : n <= m
  <2>1. I # {}
    BY <1>1
  <2> QED
    BY <1>1, <1>2, <2>1, MinAt
<1>6. \A i \in from..n - 1 : t[i] # c
  <2> TAKE i \in from..n - 1
  <2>1. i \in from..Len(t) /\ ~(n <= i)
    OBVIOUS
  <2> QED
    BY <1>3, <1>5, <2>1
<1> QED
  BY <1>2, <1>4, <1>5, <1>6

LEMMA LineEndIs ==
  ASSUME NEW t \in Seq(Symbol), NEW b \in Nat \ {0}, NEW n \in Nat, b <= n,
         Crlf(t, n), \A k \in b..n - 1 : ~Crlf(t, k)
  PROVE  LineEnd(t, b) = n
<1> DEFINE E == {k \in b..Len(t) : Crlf(t, k)}
<1>1. LineEnd(t, b) = IF E = {} THEN Len(t) + 1 ELSE Min(E)
  BY DEF LineEnd
<1>2. n \in E /\ E \in SUBSET Nat
  BY DEF Crlf
<1>3. \A m \in E : n <= m
  <2> TAKE m \in E
  <2>1. m \in b..Len(t) /\ m \notin b..n - 1
    OBVIOUS
  <2> QED
    BY <2>1
<1> HIDE DEF E
<1>4. Min(E) = n
  BY <1>2, <1>3, MinIs
<1> QED
  BY <1>1, <1>2, <1>4

LEMMA LineEndAt ==
  ASSUME NEW t \in Seq(Symbol), NEW b \in 1..Len(t)
  PROVE  /\ LineEnd(t, b) \in b..Len(t) + 1
         /\ \A n \in b..LineEnd(t, b) - 1 : ~Crlf(t, n)
         /\ (\E n \in b..Len(t) : Crlf(t, n)) => Crlf(t, LineEnd(t, b))
<1> DEFINE E == {k \in b..Len(t) : Crlf(t, k)}
<1>1. LineEnd(t, b) = IF E = {} THEN Len(t) + 1 ELSE Min(E)
  BY DEF LineEnd
<1>2. E \in SUBSET Nat /\ E \subseteq b..Len(t)
  OBVIOUS
<1>3. \A k \in b..Len(t) : Crlf(t, k) <=> k \in E
  OBVIOUS
<1> HIDE DEF E
<1>4. CASE E = {}
  BY <1>1, <1>3, <1>4
<1>5. CASE E # {}
  <2>1. PICK e \in b..Len(t) : LineEnd(t, b) = e /\ e \in E /\ \A m \in E : e <= m
    BY <1>1, <1>2, <1>5, MinAt
  <2>2. \A n \in b..e - 1 : ~Crlf(t, n)
    <3> TAKE n \in b..e - 1
    <3>1. n \in b..Len(t) /\ ~(e <= n)
      OBVIOUS
    <3> QED
      BY <1>3, <2>1, <3>1
  <2>3. e \in b..Len(t) + 1
    OBVIOUS
  <2> QED
    BY <1>3, <2>1, <2>2, <2>3
<1> QED
  BY <1>4, <1>5

LEMMA LineIs ==
  ASSUME NEW t \in Seq(Symbol), NEW b \in 1..Len(t)
  PROVE  /\ Line(t, b) \in Seq(Symbol) /\ Len(Line(t, b)) = LineEnd(t, b) - b
         /\ \A i \in 1..LineEnd(t, b) - b : Line(t, b)[i] = t[b + i - 1]
<1>1. LineEnd(t, b) \in b..Len(t) + 1
  BY LineEndAt
<1> QED
  BY <1>1 DEF Line

(* What a stretch of a text holds.                                         *)
Span(t, a, b, S) == \A i \in a..b : t[i] \in S

LEMMA SpanIs ==
  ASSUME NEW t \in Seq(Symbol), NEW a \in Nat \ {0}, NEW b \in 0..Len(t), a <= b + 1, NEW S
  PROVE  /\ All(SubSeq(t, a, b), S) <=> Span(t, a, b, S)
         /\ SubSeq(t, a, b) # <<>> <=> a <= b
<1> DEFINE s == SubSeq(t, a, b)
<1>1. s \in Seq(Symbol) /\ Len(s) = b - a + 1 /\ \A i \in 1..b - a + 1 : s[i] = t[a + i - 1]
  OBVIOUS
<1> HIDE DEF s
<1>2. \A i \in a..b : i - a + 1 \in 1..b - a + 1 /\ t[i] = s[i - a + 1]
  BY <1>1
<1>3. \A i \in 1..b - a + 1 : a + i - 1 \in a..b
  OBVIOUS
<1>4. All(s, S) <=> Span(t, a, b, S)
  BY <1>1, <1>2, <1>3 DEF All, Span
<1>5. s # <<>> <=> a <= b
  BY <1>1
<1> QED
  BY <1>4, <1>5 DEF s

-----------------------------------------------------------------------------
(* The lines of a head, by the places of what separates their parts.       *)
Http == <<"H", "T", "T", "P", "/">>

RequestLineAt(l, i, j, d) ==
  /\ 1 < i /\ i < j /\ j + 6 < d /\ d < Len(l)
  /\ Span(l, 1, i - 1, Token) /\ l[i] = "SP"
  /\ Span(l, i + 1, j - 1, Text \ {"SP"}) /\ l[j] = "SP"
  /\ \A m \in 1..5 : l[j + m] = Http[m]
  /\ Span(l, j + 6, d - 1, Digit) /\ l[d] = "."
  /\ Span(l, d + 1, Len(l), Digit)

LEMMA RequestLinePlaces ==
  ASSUME NEW l \in Seq(Symbol), NEW i \in Nat, NEW j \in Nat, NEW d \in Nat,
         RequestLineAt(l, i, j, d)
  PROVE  Find(l, 1, "SP") = i /\ Find(l, i + 1, "SP") = j /\ Find(l, j + 1, ".") = d
<1>1. /\ i \in 1..Len(l) /\ j \in i + 1..Len(l) /\ d \in j + 1..Len(l)
      /\ i + 1 \in Nat \ {0} /\ j + 1 \in Nat \ {0} /\ Len(l) \in Nat
  <2>1. 1 < i /\ i < j /\ j + 6 < d /\ d < Len(l) /\ Len(l) \in Nat
    BY DEF RequestLineAt
  <2> QED
    BY <2>1
<1>2. Find(l, 1, "SP") = i
  <2>1. l[i] = "SP" /\ \A k \in 1..i - 1 : l[k] # "SP"
    BY Classes DEF RequestLineAt, Span
  <2> QED
    BY <1>1, <2>1, FindIs
<1>3. Find(l, i + 1, "SP") = j
  <2>1. l[j] = "SP" /\ \A k \in i + 1..j - 1 : l[k] # "SP"
    BY DEF RequestLineAt, Span
  <2> QED
    BY <1>1, <2>1, FindIs
<1>4. Find(l, j + 1, ".") = d
  <2>1. l[d] = "." /\ \A k \in j + 6..d - 1 : l[k] # "."
    BY Classes DEF RequestLineAt, Span
  <2>2. \A m \in 1..5 : l[j + m] # "."
    <3>1. \A m \in 1..5 : Http[m] # "."
      BY DEF Http
    <3> QED
      BY <3>1 DEF RequestLineAt
  <2>3. \A k \in j + 1..d - 1 : l[k] # "."
    <3> TAKE k \in j + 1..d - 1
    <3>1. CASE k < j + 6
      <4>1. k - j \in 1..5 /\ j + (k - j) = k
        BY <3>1
      <4> QED
        BY <2>2, <4>1
    <3>2. CASE k >= j + 6
      <4>1. k \in j + 6..d - 1
        BY <3>2
      <4> QED
        BY <2>1, <4>1
    <3> QED
      BY <1>1, <3>1, <3>2
  <2> QED
    BY <1>1, <2>1, <2>3, FindIs
<1> QED
  BY <1>2, <1>3, <1>4

LEMMA RequestLineIs ==
  ASSUME NEW l \in Seq(Symbol)
  PROVE  IsRequestLine(l) <=> \E i, j, d \in Nat : RequestLineAt(l, i, j, d)
<1> Len(l) \in Nat
  OBVIOUS
<1>0. ASSUME NEW i \in Nat, NEW j \in Nat, NEW d \in Nat,
             1 <= i, i < j, j + 6 <= d, d <= Len(l)
      PROVE  /\ NonEmpty(SubSeq(l, 1, i - 1), Token) <=> 1 < i /\ Span(l, 1, i - 1, Token)
             /\ All(SubSeq(l, i + 1, j - 1), Text) <=> Span(l, i + 1, j - 1, Text)
             /\ SubSeq(l, j + 1, j + 5) = Http <=> \A m \in 1..5 : l[j + m] = Http[m]
             /\ NonEmpty(SubSeq(l, j + 6, d - 1), Digit)
                  <=> j + 6 < d /\ Span(l, j + 6, d - 1, Digit)
             /\ NonEmpty(SubSeq(l, d + 1, Len(l)), Digit)
                  <=> d < Len(l) /\ Span(l, d + 1, Len(l), Digit)
  <2>1. NonEmpty(SubSeq(l, 1, i - 1), Token) <=> 1 < i /\ Span(l, 1, i - 1, Token)
    <3>1. i - 1 \in 0..Len(l) /\ 1 <= (i - 1) + 1 /\ (1 <= i - 1 <=> 1 < i)
      BY <1>0
    <3> QED
      BY <3>1, SpanIs DEF NonEmpty
  <2>2. All(SubSeq(l, i + 1, j - 1), Text) <=> Span(l, i + 1, j - 1, Text)
    <3>1. i + 1 \in Nat \ {0} /\ j - 1 \in 0..Len(l) /\ i + 1 <= (j - 1) + 1
      BY <1>0
    <3> QED
      BY <3>1, SpanIs
  <2>3. SubSeq(l, j + 1, j + 5) = Http <=> \A m \in 1..5 : l[j + m] = Http[m]
    <3> DEFINE s == SubSeq(l, j + 1, j + 5)
    <3>1. Len(s) = 5 /\ s \in Seq(Symbol) /\ \A m \in 1..5 : s[m] = l[j + m]
      <4>1. j + 1 \in 1..Len(l) /\ j + 5 \in 1..Len(l) /\ (j + 5) - (j + 1) + 1 = 5
            /\ \A m \in 1..5 : (j + 1) + m - 1 = j + m
        BY <1>0
      <4>2. Len(s) = (j + 5) - (j + 1) + 1 /\ s \in Seq(Symbol)
            /\ \A m \in 1..(j + 5) - (j + 1) + 1 : s[m] = l[(j + 1) + m - 1]
        BY <4>1
      <4> QED
        BY <4>1, <4>2
    <3>2. Len(Http) = 5 /\ Http \in Seq(Symbol)
      BY DEF Http, Symbol, Char, TSpecial
    <3> HIDE DEF s
    <3>3. s = Http <=> \A m \in 1..5 : s[m] = Http[m]
      BY <3>1, <3>2, SeqEqual
    <3> QED
      BY <3>1, <3>3 DEF s
  <2>4. NonEmpty(SubSeq(l, j + 6, d - 1), Digit)
                  <=> j + 6 < d /\ Span(l, j + 6, d - 1, Digit)
    <3>1. j + 6 \in Nat \ {0} /\ d - 1 \in 0..Len(l) /\ j + 6 <= (d - 1) + 1
          /\ (j + 6 <= d - 1 <=> j + 6 < d)
      BY <1>0
    <3> QED
      BY <3>1, SpanIs DEF NonEmpty
  <2>5. NonEmpty(SubSeq(l, d + 1, Len(l)), Digit)
                  <=> d < Len(l) /\ Span(l, d + 1, Len(l), Digit)
    <3>1. d + 1 \in Nat \ {0} /\ Len(l) \in 0..Len(l) /\ d + 1 <= Len(l) + 1
          /\ (d + 1 <= Len(l) <=> d < Len(l))
      BY <1>0
    <3> QED
      BY <3>1, SpanIs DEF NonEmpty
  <2> QED
    BY <2>1, <2>2, <2>3, <2>4, <2>5
<1>1. ASSUME NEW i \in Nat, NEW j \in Nat, NEW d \in Nat, RequestLineAt(l, i, j, d)
      PROVE  IsRequestLine(l)
  <2>1. Find(l, 1, "SP") = i /\ Find(l, i + 1, "SP") = j /\ Find(l, j + 1, ".") = d
    BY <1>1, RequestLinePlaces
  <2>2. 1 <= i /\ i < j /\ j + 6 <= d /\ d <= Len(l) /\ i # 0 /\ j # 0 /\ d > j + 6
    BY <1>1 DEF RequestLineAt
  <2>3. Span(l, i + 1, j - 1, Text)
    BY <1>1 DEF RequestLineAt, Span
  <2>4. /\ 1 < i /\ Span(l, 1, i - 1, Token) /\ j + 6 < d /\ d < Len(l)
        /\ \A m \in 1..5 : l[j + m] = Http[m]
        /\ Span(l, j + 6, d - 1, Digit) /\ Span(l, d + 1, Len(l), Digit)
    BY <1>1 DEF RequestLineAt
  <2>5. /\ NonEmpty(SubSeq(l, 1, i - 1), Token)
        /\ All(SubSeq(l, i + 1, j - 1), Text)
        /\ SubSeq(l, j + 1, j + 5) = Http
        /\ NonEmpty(SubSeq(l, j + 6, d - 1), Digit)
        /\ NonEmpty(SubSeq(l, d + 1, Len(l)), Digit)
    BY <1>0, <2>2, <2>3, <2>4
  <2> QED
    BY <2>1, <2>2, <2>5 DEF IsRequestLine, Http
<1>2. ASSUME IsRequestLine(l)
      PROVE  \E i, j, d \in Nat : RequestLineAt(l, i, j, d)
  <2> DEFINE i == Find(l, 1, "SP")
             j == Find(l, i + 1, "SP")
             d == Find(l, j + 1, ".")
  <2>1. i # 0 /\ j # 0 /\ d > j + 6
    BY <1>2 DEF IsRequestLine
  <2>2. i \in 1..Len(l) /\ l[i] = "SP"
    BY <2>1, FindAt
  <2>3. j \in i + 1..Len(l) /\ l[j] = "SP" /\ \A k \in i + 1..j - 1 : l[k] # "SP"
    <3>1. i + 1 \in Nat \ {0}
      BY <2>2
    <3> HIDE DEF i
    <3> QED
      BY <2>1, <3>1, FindAt
  <2>4. d \in j + 1..Len(l) /\ l[d] = "."
    <3>1. j \in Nat /\ j + 1 \in Nat \ {0}
      BY <2>2, <2>3
    <3> HIDE DEF d
    <3>2. d # 0
      BY <2>1, <3>1
    <3> HIDE DEF j
    <3> USE DEF d
    <3> QED
      BY <3>1, <3>2, FindAt
  <2>5. /\ NonEmpty(SubSeq(l, 1, i - 1), Token)
        /\ All(SubSeq(l, i + 1, j - 1), Text)
        /\ SubSeq(l, j + 1, j + 5) = Http
        /\ NonEmpty(SubSeq(l, j + 6, d - 1), Digit)
        /\ NonEmpty(SubSeq(l, d + 1, Len(l)), Digit)
    BY <1>2 DEF IsRequestLine, Http
  <2> HIDE DEF i, j, d
  <2>6. /\ i \in Nat /\ j \in Nat /\ d \in Nat
        /\ 1 <= i /\ i < j /\ j + 6 <= d /\ d <= Len(l)
    BY <2>1, <2>2, <2>3, <2>4
  <2>7. RequestLineAt(l, i, j, d)
    <3>1. /\ 1 < i /\ Span(l, 1, i - 1, Token) /\ Span(l, i + 1, j - 1, Text)
          /\ \A m \in 1..5 : l[j + m] = Http[m]
          /\ j + 6 < d /\ Span(l, j + 6, d - 1, Digit)
          /\ d < Len(l) /\ Span(l, d + 1, Len(l), Digit)
      BY <1>0, <2>5, <2>6
    <3>2. Span(l, i + 1, j - 1, Text \ {"SP"})
      BY <2>3, <3>1 DEF Span
    <3> QED
      BY <2>2, <2>3, <2>4, <2>6, <3>1, <3>2 DEF RequestLineAt
  <2> QED
    BY <2>6, <2>7
<1> QED
  BY <1>1, <1>2

HeaderAt(l, c) ==
  /\ 1 < c /\ c < Len(l)
  /\ Span(l, 1, c - 1, Token) /\ l[c] = ":" /\ l[c + 1] = "SP"
  /\ Span(l, c + 2, Len(l), Text)

LEMMA HeaderPlace ==
  ASSUME NEW l \in Seq(Symbol), NEW c \in Nat, HeaderAt(l, c)
  PROVE  Find(l, 1, ":") = c
<1>1. c \in 1..Len(l) /\ Len(l) \in Nat
  BY DEF HeaderAt
<1>2. l[c] = ":" /\ \A k \in 1..c - 1 : l[k] # ":"
  BY Classes DEF HeaderAt, Span
<1> QED
  BY <1>1, <1>2, FindIs

LEMMA HeaderIs ==
  ASSUME NEW l \in Seq(Symbol)
  PROVE  IsHeader(l) <=> \E c \in Nat : HeaderAt(l, c)
<1> Len(l) \in Nat
  OBVIOUS
<1>0. ASSUME NEW c \in Nat, 1 <= c, c < Len(l)
      PROVE  /\ NonEmpty(SubSeq(l, 1, c - 1), Token) <=> 1 < c /\ Span(l, 1, c - 1, Token)
             /\ All(SubSeq(l, c + 2, Len(l)), Text) <=> Span(l, c + 2, Len(l), Text)
  <2>1. NonEmpty(SubSeq(l, 1, c - 1), Token) <=> 1 < c /\ Span(l, 1, c - 1, Token)
    <3>1. c - 1 \in 0..Len(l) /\ 1 <= (c - 1) + 1 /\ (1 <= c - 1 <=> 1 < c)
      BY <1>0
    <3> QED
      BY <3>1, SpanIs DEF NonEmpty
  <2>2. All(SubSeq(l, c + 2, Len(l)), Text) <=> Span(l, c + 2, Len(l), Text)
    <3>1. c + 2 \in Nat \ {0} /\ Len(l) \in 0..Len(l) /\ c + 2 <= Len(l) + 1
      BY <1>0
    <3> QED
      BY <3>1, SpanIs
  <2> QED
    BY <2>1, <2>2
<1>1. ASSUME NEW c \in Nat, HeaderAt(l, c) PROVE IsHeader(l)
  <2>1. Find(l, 1, ":") = c /\ c # 0 /\ 1 <= c /\ c < Len(l)
    BY <1>1, HeaderPlace DEF HeaderAt
  <2> QED
    BY <1>0, <1>1, <2>1 DEF HeaderAt, IsHeader
<1>2. ASSUME IsHeader(l) PROVE \E c \in Nat : HeaderAt(l, c)
  <2> DEFINE c == Find(l, 1, ":")
  <2>1. /\ c # 0 /\ NonEmpty(SubSeq(l, 1, c - 1), Token) /\ c < Len(l) /\ l[c + 1] = "SP"
        /\ All(SubSeq(l, c + 2, Len(l)), Text)
    BY <1>2 DEF IsHeader
  <2>2. c \in 1..Len(l) /\ l[c] = ":"
    BY <2>1, FindAt
  <2> HIDE DEF c
  <2>3. c \in Nat /\ 1 <= c
    BY <2>2
  <2> QED
    BY <1>0, <2>1, <2>2, <2>3 DEF HeaderAt
<1> QED
  BY <1>1, <1>2

(* m is where a continuation line goes on with the value, past its end if  *)
(* it does not.                                                            *)
MoreAt(l, m) ==
  /\ 1 < m /\ m <= Len(l) + 1 /\ Span(l, 1, m - 1, Lws)
  /\ m <= Len(l) => l[m] \notin Lws
  /\ Span(l, m, Len(l), Text)

LEMMA MoreIs ==
  ASSUME NEW l \in Seq(Symbol), NEW m \in Nat, MoreAt(l, m)
  PROVE  More(l) = SubSeq(l, m, Len(l)) /\ IsContinuation(l)
<1> DEFINE I == {i \in 1..Len(l) : l[i] \notin Lws}
           i == IF I # {} THEN Min(I) ELSE 0
<1>1. More(l) = IF i = 0 THEN <<>> ELSE SubSeq(l, i, Len(l))
  BY DEF More, SelectInSeq
<1>2. I \in SUBSET Nat /\ Len(l) \in Nat /\ \A k \in I : k \in 1..Len(l) /\ l[k] \notin Lws
  OBVIOUS
<1>3. \A k \in I : m <= k
  <2> TAKE k \in I
  <2>1. k \in 1..Len(l) /\ k \notin 1..m - 1
    BY <1>2 DEF MoreAt, Span
  <2> QED
    BY <2>1
<1>4. CASE m <= Len(l)
  <2>1. m \in I
    BY <1>4 DEF MoreAt
  <2>2. Min(I) = m
    <3> HIDE DEF I
    <3> QED
      BY <1>2, <1>3, <2>1, MinIs
  <2>3. i = m
    BY <2>1, <2>2
  <2> HIDE DEF i
  <2>4. More(l) = SubSeq(l, m, Len(l))
    BY <1>1, <2>3 DEF MoreAt
  <2>5. All(SubSeq(l, m, Len(l)), Text)
    <3>1. m \in Nat \ {0} /\ Len(l) \in 0..Len(l) /\ m <= Len(l) + 1
      BY DEF MoreAt
    <3> QED
      BY <3>1, SpanIs DEF MoreAt
  <2>6. l # <<>> /\ l[1] \in Lws
    <3>1. 1 \in 1..m - 1 /\ 1 <= Len(l)
      BY <1>4 DEF MoreAt
    <3> QED
      BY <3>1 DEF MoreAt, Span
  <2> QED
    BY <2>4, <2>5, <2>6 DEF IsContinuation
<1>5. CASE m = Len(l) + 1
  <2>1. I = {}
    <3> SUFFICES ASSUME NEW k \in I PROVE FALSE
      OBVIOUS
    <3>1. m <= k /\ k \in 1..Len(l)
      BY <1>2, <1>3
    <3> QED
      BY <1>5, <3>1
  <2>2. More(l) = <<>> /\ SubSeq(l, m, Len(l)) = <<>>
    BY <1>1, <1>2, <1>5, <2>1
  <2>3. All(<<>>, Text)
    BY DEF All
  <2>4. l # <<>> /\ l[1] \in Lws
    <3>1. 1 \in 1..m - 1 /\ 1 <= Len(l)
      BY <1>2, <1>5 DEF MoreAt
    <3> QED
      BY <3>1 DEF MoreAt, Span
  <2> QED
    BY <2>2, <2>3, <2>4 DEF IsContinuation
<1> QED
  BY <1>4, <1>5 DEF MoreAt

LEMMA ContinuationIs ==
  ASSUME NEW l \in Seq(Symbol), IsContinuation(l)
  PROVE  \E m \in Nat : MoreAt(l, m)
<1> DEFINE I == {i \in 1..Len(l) : l[i] \notin Lws}
           i == IF I # {} THEN Min(I) ELSE 0
<1>1. More(l) = IF i = 0 THEN <<>> ELSE SubSeq(l, i, Len(l))
  BY DEF More, SelectInSeq
<1>2. /\ I \in SUBSET Nat /\ Len(l) \in Nat
      /\ \A k \in 1..Len(l) : l[k] \notin Lws <=> k \in I
      /\ \A k \in I : k \in 1..Len(l)
  OBVIOUS
<1>3. l # <<>> /\ l[1] \in Lws /\ All(More(l), Text) /\ Len(l) >= 1
  BY DEF IsContinuation
<1>4. CASE I = {}
  <2>1. Span(l, 1, (Len(l) + 1) - 1, Lws) /\ Span(l, Len(l) + 1, Len(l), Text)
    BY <1>2, <1>4 DEF Span
  <2>2. 1 < Len(l) + 1 /\ Len(l) + 1 \in Nat /\ ~(Len(l) + 1 <= Len(l))
    BY <1>2, <1>3
  <2>3. MoreAt(l, Len(l) + 1)
    BY <2>1, <2>2 DEF MoreAt
  <2> QED
    BY <2>2, <2>3
<1>5. CASE I # {}
  <2>1. PICK m \in I : Min(I) = m /\ \A k \in I : m <= k
    <3> HIDE DEF I
    <3> QED
      BY <1>2, <1>5, MinAt
  <2>2. m \in 1..Len(l) /\ l[m] \notin Lws /\ i = m
    BY <1>5, <2>1
  <2>3. m > 1
    BY <1>3, <2>2
  <2> HIDE DEF i
  <2>4. More(l) = SubSeq(l, m, Len(l))
    BY <1>1, <2>2
  <2>5. Span(l, m, Len(l), Text)
    <3>1. m \in Nat \ {0} /\ Len(l) \in 0..Len(l) /\ m <= Len(l) + 1
      BY <2>2
    <3> QED
      BY <1>3, <2>4, <3>1, SpanIs
  <2>6. Span(l, 1, m - 1, Lws)
    <3> SUFFICES ASSUME NEW k \in 1..m - 1 PROVE l[k] \in Lws
      BY DEF Span
    <3>1. k \in 1..Len(l) /\ ~(m <= k)
      BY <2>2
    <3> HIDE DEF I
    <3> QED
      BY <1>2, <2>1, <3>1
  <2> QED
    BY <2>2, <2>3, <2>5, <2>6 DEF MoreAt
<1> QED
  BY <1>4, <1>5

-----------------------------------------------------------------------------
(* The headers of the grammar, line by line.                               *)
LEMMA MoreType ==
  ASSUME NEW l \in Seq(Symbol) PROVE More(l) \in Seq(Symbol)
<1> DEFINE I == {i \in 1..Len(l) : l[i] \notin Lws}
           i == IF I # {} THEN Min(I) ELSE 0
<1>1. More(l) = IF i = 0 THEN <<>> ELSE SubSeq(l, i, Len(l))
  BY DEF More, SelectInSeq
<1>2. I \in SUBSET Nat /\ Len(l) \in Nat /\ \A k \in I : k \in 1..Len(l)
  OBVIOUS
<1>3. i = 0 \/ i \in 1..Len(l)
  <2> HIDE DEF I
  <2> QED
    BY <1>2, MinAt
<1> HIDE DEF i
<1>4. CASE i = 0
  BY <1>1, <1>4
<1>5. CASE i # 0
  <2>1. \A k \in 1..Len(l) : SubSeq(l, k, Len(l)) \in Seq(Symbol)
    BY <1>2
  <2> QED
    BY <1>1, <1>3, <1>5, <2>1
<1> QED
  BY <1>4, <1>5

(* The headers with v added to the last value.                             *)
Extend(hs, v) == [hs EXCEPT ![Len(hs)].value = @ \o v]

LEMMA ExtendIs ==
  ASSUME NEW hs \in Seq(HeaderRec), NEW v \in Seq(Symbol)
  PROVE  /\ Extend(hs, v) \in Seq(HeaderRec) /\ Len(Extend(hs, v)) = Len(hs)
         /\ \A i \in 1..Len(hs) - 1 : Extend(hs, v)[i] = hs[i]
         /\ hs # <<>> => Extend(hs, v)[Len(hs)] =
              [name |-> hs[Len(hs)].name, value |-> hs[Len(hs)].value \o v]
<1> DEFINE n == Len(hs)
           h == [hs[n] EXCEPT !.value = @ \o v]
           e == Extend(hs, v)
<1>1. n \in Nat /\ hs \in [1..n -> HeaderRec] /\ \A i \in 1..n : hs[i] \in HeaderRec
  OBVIOUS
<1>2. e = [i \in 1..n |-> IF i = n THEN h ELSE hs[i]]
  BY <1>1 DEF Extend
<1>3. n # 0 => h = [name |-> hs[n].name, value |-> hs[n].value \o v] /\ h \in HeaderRec
  <2> HAVE n # 0
  <2> DEFINE x == hs[n]
             y == x.value \o v
  <2>1. x \in HeaderRec
    BY <1>1
  <2>2. y \in Seq(Symbol) /\ x.name \in Seq(Symbol)
    BY <2>1 DEF HeaderRec
  <2> HIDE DEF x
  <2>3. h = [x EXCEPT !.value = y]
    BY DEF x
  <2> HIDE DEF y, h
  <2>4. h = [name |-> x.name, value |-> y] /\ h \in HeaderRec
    BY <2>1, <2>2, <2>3 DEF HeaderRec
  <2> QED
    BY <2>4 DEF x, y
<1> HIDE DEF e, h, n
<1>4. \A i \in 1..n : e[i] = IF i = n THEN h ELSE hs[i]
  BY <1>2
<1>5. e \in Seq(HeaderRec) /\ Len(e) = n
  <2>1. \A i \in 1..n : (IF i = n THEN h ELSE hs[i]) \in HeaderRec
    BY <1>1, <1>3
  <2>2. e \in [1..n -> HeaderRec]
    BY <1>2, <2>1
  <2> QED
    BY <1>1, <2>2
<1>6. \A i \in 1..n - 1 : e[i] = hs[i]
  <2>1. \A i \in 1..n - 1 : i \in 1..n /\ i # n
    BY <1>1
  <2> QED
    BY <1>4, <2>1
<1>7. hs # <<>> => e[n] = h /\ n # 0
  <2>1. hs # <<>> => n # 0 /\ n \in 1..n
    BY <1>1 DEF n
  <2> QED
    BY <1>4, <2>1
<1> QED
  BY <1>3, <1>5, <1>6, <1>7 DEF e, n

LEMMA WithLineType ==
  ASSUME NEW hs \in Seq(HeaderRec), NEW l \in Seq(Symbol)
  PROVE  WithLine(hs, l) \in Seq(HeaderRec)
<1>1. CASE IsHeader(l)
  <2>1. PICK c \in Nat : HeaderAt(l, c)
    BY <1>1, HeaderIs
  <2>2. Find(l, 1, ":") = c
    BY <2>1, HeaderPlace
  <2> DEFINE h == [name |-> SubSeq(l, 1, c - 1), value |-> SubSeq(l, c + 2, Len(l))]
  <2>3. h \in HeaderRec
    <3>1. c - 1 \in 0..Len(l) /\ c + 2 \in 1..Len(l) + 1 /\ Len(l) \in Nat
      BY <2>1 DEF HeaderAt
    <3>2. SubSeq(l, 1, c - 1) \in Seq(Symbol) /\ SubSeq(l, c + 2, Len(l)) \in Seq(Symbol)
      BY <3>1
    <3> QED
      BY <3>2 DEF HeaderRec
  <2>4. WithLine(hs, l) = Append(hs, h)
    BY <1>1, <2>2 DEF WithLine
  <2> HIDE DEF h
  <2> QED
    BY <2>3, <2>4
<1>2. CASE ~IsHeader(l)
  <2>1. WithLine(hs, l) = Extend(hs, More(l))
    BY <1>2 DEF WithLine, Extend
  <2> QED
    BY <2>1, MoreType, ExtendIs
<1> QED
  BY <1>1, <1>2

LineStep(t, hs, b) ==
  IF b < 2 THEN <<>> ELSE IF StartsLine(t, b) THEN WithLine(hs, Line(t, b)) ELSE hs

LEMMA LineStepType ==
  ASSUME NEW t \in Seq(Symbol), NEW b \in 1..Len(t), NEW hs \in Seq(HeaderRec)
  PROVE  LineStep(t, hs, b) \in Seq(HeaderRec)
<1>1. WithLine(hs, Line(t, b)) \in Seq(HeaderRec) /\ <<>> \in Seq(HeaderRec)
  BY LineIs, WithLineType
<1> QED
  BY <1>1 DEF LineStep

HeadersTurn(t, g, n) ==
  g[0] = <<>> /\ \A b \in 1..n : g[b] = LineStep(t, g[b - 1], b)

LEMMA HeadersSteps ==
  ASSUME NEW t \in Seq(Symbol), NEW n \in 0..Len(t)
  PROVE  \E g \in [0..n -> Seq(HeaderRec)] :
           HeadersTurn(t, g, n) /\ HeadersTo(t, n) = g[n]
<1> DEFINE V == Seq(HeaderRec)
           F == [x \in (1..n) \X V |-> LineStep(t, x[2], x[1])]
           Rec(f) == [b \in 0..n |->
                        IF b < 2 THEN <<>>
                        ELSE IF StartsLine(t, b) THEN WithLine(f[b - 1], Line(t, b)) ELSE f[b - 1]]
           after == CHOOSE f : f = Rec(f)
<1>1. n \in Nat /\ <<>> \in V /\ \A b \in 1..n : b \in 1..Len(t)
  OBVIOUS
<1>2. HeadersTo(t, n) = after[n]
  BY DEF HeadersTo
<1>3. F \in [(1..n) \X V -> V]
  BY <1>1, LineStepType
<1>4. PICK g \in [0..n -> V] : ByRec(g, n, <<>>, F)
  <2> HIDE DEF F, V
  <2> QED
    BY <1>1, <1>3, RecExists
<1>5. HeadersTurn(t, g, n)
  <2>1. \A b \in 0..n : g[b] = IF b = 0 THEN <<>> ELSE F[<<b, g[b - 1]>>]
    <3> HIDE DEF F
    <3> QED
      BY <1>4 DEF ByRec
  <2>2. ASSUME NEW b \in 1..n PROVE F[<<b, g[b - 1]>>] = LineStep(t, g[b - 1], b)
    <3>1. <<b, g[b - 1]>> \in (1..n) \X V
      BY <1>1
    <3> QED
      BY <3>1
  <2>3. g[0] = <<>> /\ \A b \in 1..n : g[b] = F[<<b, g[b - 1]>>]
    <3>1. 0 \in 0..n /\ \A b \in 1..n : b \in 0..n /\ b # 0
      BY <1>1
    <3> HIDE DEF F
    <3> QED
      BY <2>1, <3>1
  <2> HIDE DEF F
  <2> QED
    BY <2>2, <2>3 DEF HeadersTurn
<1>6. \A f : \A b \in 0..n :
        Rec(f)[b] = IF b = 0 THEN <<>> ELSE LineStep(t, f[b - 1], b)
  BY <1>1 DEF LineStep
<1>7. g = Rec(g)
  <2>1. ASSUME NEW b \in 0..n PROVE g[b] = Rec(g)[b]
    <3>1. Rec(g)[b] = IF b = 0 THEN <<>> ELSE LineStep(t, g[b - 1], b)
      <4> HIDE DEF Rec
      <4> QED
        BY <1>6
    <3>2. b # 0 => b \in 1..n
      BY <1>1
    <3> HIDE DEF Rec
    <3> QED
      BY <1>5, <3>1, <3>2 DEF HeadersTurn
  <2>2. g = [b \in 0..n |-> g[b]] /\ Rec(g) = [b \in 0..n |-> Rec(g)[b]]
    OBVIOUS
  <2> HIDE DEF Rec
  <2> QED
    BY <2>1, <2>2
<1>8. after = Rec(after)
  BY <1>7
<1>9. AgreeByRec(after, g, 0, n)
  <2> HIDE DEF Rec, after
  <2>1. \A b \in 0..n : after[b] = IF b = 0 THEN <<>> ELSE LineStep(t, after[b - 1], b)
    BY <1>6, <1>8
  <2>2. \A b \in 0..n : g[b] = IF b = 0 THEN <<>> ELSE LineStep(t, g[b - 1], b)
    BY <1>1, <1>5 DEF HeadersTurn
  <2> QED
    BY <2>1, <2>2 DEF AgreeByRec
<1>10. after[n] = g[n]
  <2> HIDE DEF after
  <2> QED
    BY <1>1, <1>9, SameByRec
<1> HIDE DEF after
<1> QED
  BY <1>2, <1>5, <1>10

LEMMA HeadersStep ==
  ASSUME NEW t \in Seq(Symbol), NEW n \in 0..Len(t)
  PROVE  /\ HeadersTo(t, n) \in Seq(HeaderRec)
         /\ n < 2 => HeadersTo(t, n) = <<>>
         /\ n >= 2 => HeadersTo(t, n) =
              IF StartsLine(t, n) THEN WithLine(HeadersTo(t, n - 1), Line(t, n))
              ELSE HeadersTo(t, n - 1)
<1>1. PICK g \in [0..n -> Seq(HeaderRec)] : HeadersTurn(t, g, n) /\ HeadersTo(t, n) = g[n]
  BY HeadersSteps
<1>2. n \in 0..n /\ n \in Nat
  OBVIOUS
<1>3. n < 2 => HeadersTo(t, n) = <<>>
  BY <1>1 DEF HeadersTurn, LineStep
<1>4. ASSUME n >= 2
      PROVE  HeadersTo(t, n) = LineStep(t, HeadersTo(t, n - 1), n)
  <2> DEFINE m == n - 1
  <2>1. m \in 0..Len(t) /\ m \in Nat /\ m \in 0..n /\ m \in 0..m /\ 0 \in 0..m
    BY <1>4
  <2> HIDE DEF m
  <2>2. PICK f \in [0..m -> Seq(HeaderRec)] : HeadersTurn(t, f, m) /\ HeadersTo(t, m) = f[m]
    BY <2>1, HeadersSteps
  <2>3. AgreeByRec(f, g, 0, m)
    <3> SUFFICES ASSUME NEW b \in 0..m, b # 0 => f[b - 1] = g[b - 1] PROVE f[b] = g[b]
      BY DEF AgreeByRec
    <3>1. CASE b = 0
      BY <1>1, <2>2, <3>1 DEF HeadersTurn
    <3>2. CASE b # 0
      <4>1. b \in 1..m /\ b \in 1..n
        BY <2>1, <3>2 DEF m
      <4> QED
        BY <1>1, <2>2, <3>2, <4>1 DEF HeadersTurn
    <3> QED
      BY <3>1, <3>2
  <2>4. f[m] = g[m]
    BY <2>1, <2>3, SameByRec
  <2>5. g[n] = LineStep(t, g[m], n)
    <3>1. n \in 1..n
      BY <1>4
    <3> QED
      BY <1>1, <3>1 DEF HeadersTurn, m
  <2> QED
    BY <1>1, <2>2, <2>4, <2>5 DEF m
<1> QED
  BY <1>1, <1>2, <1>3, <1>4 DEF LineStep

(* Where no line starts nothing is added.                                  *)
LEMMA HeadersKeep ==
  ASSUME NEW t \in Seq(Symbol), NEW b \in 1..Len(t), NEW n \in b..Len(t),
         \A a \in b + 1..n : ~StartsLine(t, a)
  PROVE  HeadersTo(t, n) = HeadersTo(t, b)
<1> DEFINE f == [i \in 0..Len(t) |-> HeadersTo(t, i)]
           g == [i \in 0..Len(t) |-> HeadersTo(t, b)]
<1>1. AgreeByRec(f, g, b, n)
  <2> SUFFICES ASSUME NEW k \in b..n, k # b => f[k - 1] = g[k - 1] PROVE f[k] = g[k]
    BY DEF AgreeByRec
  <2>1. k \in 0..Len(t) /\ k - 1 \in 0..Len(t)
    OBVIOUS
  <2>2. CASE k # b
    <3>1. k \in b + 1..n /\ k >= 2
      BY <2>2
    <3>2. HeadersTo(t, k) = HeadersTo(t, k - 1)
      BY <2>1, <3>1, HeadersStep
    <3> QED
      BY <2>1, <2>2, <3>2
  <2> QED
    BY <2>1, <2>2
<1>2. n \in 0..Len(t) /\ b \in Nat /\ n \in Nat /\ n \in b..n /\ b <= n
  OBVIOUS
<1> HIDE DEF f, g
<1>3. f[n] = g[n]
  BY <1>1, <1>2, SameByRec
<1> QED
  BY <1>2, <1>3 DEF f, g

-----------------------------------------------------------------------------
(* The last header of a name, and the length of the content.               *)
LastNamed(hs, name, i) ==
  /\ hs[i].name = <<name>>
  /\ \A j \in i + 1..Len(hs) : hs[j].name # <<name>>
LastOf(hs, name) == CHOOSE i \in 1..Len(hs) : LastNamed(hs, name, i)
Holds(hs, name)  == \E i \in 1..Len(hs) : hs[i].name = <<name>>
LengthOf(hs) ==
  IF Holds(hs, "Content-Length") THEN Number(hs[LastOf(hs, "Content-Length")].value) ELSE 0

LEMMA LastIs ==
  ASSUME NEW hs \in Seq(HeaderRec), NEW name, NEW n \in 1..Len(hs), LastNamed(hs, name, n)
  PROVE  LastOf(hs, name) = n
<1>1. \A i \in 1..Len(hs) : LastNamed(hs, name, i) => i = n
  <2> SUFFICES ASSUME NEW i \in 1..Len(hs), LastNamed(hs, name, i), i # n PROVE FALSE
    OBVIOUS
  <2>1. i \in n + 1..Len(hs) \/ n \in i + 1..Len(hs)
    OBVIOUS
  <2> QED
    BY <2>1 DEF LastNamed
<1> QED
  BY <1>1 DEF LastOf

LEMMA LastAt ==
  ASSUME NEW hs \in Seq(HeaderRec), NEW name, Holds(hs, name)
  PROVE  LastOf(hs, name) \in 1..Len(hs) /\ LastNamed(hs, name, LastOf(hs, name))
<1> DEFINE S == {k \in 0..Len(hs) - 1 : hs[Len(hs) - k].name = <<name>>}
<1>1. S \in SUBSET Nat /\ Len(hs) \in Nat
  OBVIOUS
<1>2. S # {}
  <2>1. PICK i \in 1..Len(hs) : hs[i].name = <<name>>
    BY DEF Holds
  <2>2. Len(hs) - i \in 0..Len(hs) - 1 /\ Len(hs) - (Len(hs) - i) = i
    BY <1>1
  <2> QED
    BY <2>1, <2>2
<1>3. PICK k \in S : \A j \in S : k <= j
  <2> HIDE DEF S
  <2> QED
    BY <1>1, <1>2, SmallestOf
<1>4. Len(hs) - k \in 1..Len(hs) /\ hs[Len(hs) - k].name = <<name>> /\ k \in Nat
  BY <1>1, <1>3
<1>5. \A j \in Len(hs) - k + 1..Len(hs) : hs[j].name # <<name>>
  <2> SUFFICES ASSUME NEW j \in Len(hs) - k + 1..Len(hs), hs[j].name = <<name>> PROVE FALSE
    OBVIOUS
  <2>1. Len(hs) - j \in 0..Len(hs) - 1 /\ Len(hs) - (Len(hs) - j) = j /\ ~(k <= Len(hs) - j)
    BY <1>1, <1>4
  <2> QED
    BY <1>3, <2>1
<1>6. LastNamed(hs, name, Len(hs) - k)
  BY <1>4, <1>5 DEF LastNamed
<1> QED
  BY <1>4, <1>6 DEF LastOf

LEMMA AppendLength ==
  ASSUME NEW hs \in Seq(HeaderRec), NEW h \in HeaderRec
  PROVE  /\ Holds(Append(hs, h), "Content-Length")
              <=> Holds(hs, "Content-Length") \/ h.name = <<"Content-Length">>
         /\ LengthOf(Append(hs, h)) =
              IF h.name = <<"Content-Length">> THEN Number(h.value) ELSE LengthOf(hs)
<1> DEFINE CL == "Content-Length"
           n == Len(hs)
           s == Append(hs, h)
<1>1. /\ n \in Nat /\ s \in Seq(HeaderRec) /\ Len(s) = n + 1 /\ s[n + 1] = h
      /\ \A i \in 1..n : s[i] = hs[i]
  OBVIOUS
<1> HIDE DEF s
<1>2. Holds(s, CL) <=> Holds(hs, CL) \/ h.name = <<CL>>
  <2>1. n + 1 \in 1..n + 1 /\ 1..n + 1 = (1..n) \cup {n + 1}
    BY <1>1
  <2> QED
    BY <1>1, <2>1 DEF Holds
<1>3. CASE h.name = <<CL>>
  <2>1. n + 1 \in 1..Len(s) /\ LastNamed(s, CL, n + 1)
    BY <1>1, <1>3 DEF LastNamed
  <2>2. LastOf(s, CL) = n + 1
    BY <1>1, <2>1, LastIs
  <2> QED
    BY <1>1, <1>2, <1>3, <2>2 DEF LengthOf, s
<1>4. CASE h.name # <<CL>> /\ Holds(hs, CL)
  <2> DEFINE i == LastOf(hs, CL)
  <2>1. i \in 1..n /\ LastNamed(hs, CL, i)
    BY <1>4, LastAt
  <2> HIDE DEF i
  <2>2. LastNamed(s, CL, i)
    <3>1. \A j \in i + 1..n + 1 : j \in i + 1..n \/ j = n + 1
      BY <1>1, <2>1
    <3> QED
      BY <1>1, <1>4, <2>1, <3>1 DEF LastNamed
  <2>3. LastOf(s, CL) = i
    <3>1. i \in 1..Len(s)
      BY <1>1, <2>1
    <3> QED
      BY <1>1, <2>2, <3>1, LastIs
  <2> QED
    BY <1>1, <1>2, <1>4, <2>1, <2>3 DEF LengthOf, s, i
<1>5. CASE h.name # <<CL>> /\ ~Holds(hs, CL)
  BY <1>2, <1>5 DEF LengthOf, s
<1> QED
  BY <1>2, <1>3, <1>4, <1>5 DEF s

LEMMA ExtendLength ==
  ASSUME NEW hs \in Seq(HeaderRec), hs # <<>>, NEW s \in Seq(HeaderRec),
         Len(s) = Len(hs), s[Len(s)].name = hs[Len(hs)].name,
         \A i \in 1..Len(hs) - 1 : s[i] = hs[i]
  PROVE  /\ Holds(s, "Content-Length") <=> Holds(hs, "Content-Length")
         /\ LengthOf(s) = IF s[Len(s)].name = <<"Content-Length">>
                          THEN Number(s[Len(s)].value) ELSE LengthOf(hs)
<1> DEFINE CL == "Content-Length"
           n == Len(hs)
<1>1. n \in Nat \ {0} /\ 1..n = (1..n - 1) \cup {n}
  OBVIOUS
<1>2. \A i \in 1..n : s[i].name = hs[i].name
  BY <1>1
<1>3. Holds(s, CL) <=> Holds(hs, CL)
  BY <1>2 DEF Holds
<1>4. CASE s[n].name = <<CL>>
  <2>1. n \in 1..Len(s) /\ LastNamed(s, CL, n)
    BY <1>1, <1>4 DEF LastNamed
  <2>2. LastOf(s, CL) = n
    BY <2>1, LastIs
  <2>3. Holds(s, CL)
    BY <1>4, <2>1 DEF Holds
  <2> QED
    BY <1>3, <1>4, <2>2, <2>3 DEF LengthOf
<1>5. CASE s[n].name # <<CL>> /\ Holds(hs, CL)
  <2> DEFINE i == LastOf(hs, CL)
  <2>1. i \in 1..n /\ LastNamed(hs, CL, i)
    BY <1>5, LastAt
  <2> HIDE DEF i
  <2>2. i \in 1..n - 1
    BY <1>1, <1>2, <1>5, <2>1 DEF LastNamed
  <2>3. LastNamed(s, CL, i)
    <3>1. \A j \in i + 1..n : j \in 1..n
      BY <2>1
    <3> QED
      BY <1>2, <2>1, <3>1 DEF LastNamed
  <2>4. LastOf(s, CL) = i
    BY <2>1, <2>3, LastIs
  <2> QED
    BY <1>3, <1>5, <2>2, <2>4 DEF LengthOf, i
<1>6. CASE s[n].name # <<CL>> /\ ~Holds(hs, CL)
  BY <1>3, <1>6 DEF LengthOf
<1> QED
  BY <1>3, <1>4, <1>5, <1>6

-----------------------------------------------------------------------------
(* atoll gives a number, since it stops at the first symbol that is no     *)
(* digit.                                                                  *)
LEMMA FirstOf ==
  ASSUME NEW S \in SUBSET Nat, NEW hi \in Nat, \A i \in S : i \in 1..hi
  PROVE  /\ (IF S # {} THEN Min(S) ELSE 0) \in 0..hi
         /\ S # {} => Min(S) \in S /\ \A i \in S : Min(S) <= i
<1>1. CASE S = {}
  BY <1>1
<1>2. CASE S # {}
  <2>1. PICK m \in S : Min(S) = m /\ \A i \in S : m <= i
    BY <1>2, MinAt
  <2> QED
    BY <1>2, <2>1
<1> QED
  BY <1>1, <1>2

LEMMA NumberType ==
  ASSUME NEW v \in Seq(Symbol) PROVE Number(v) \in Nat
<1> DEFINE len   == Len(v)
           I     == {i \in 1..len : v[i] # "SP"}
           first == IF I # {} THEN Min(I) ELSE 0
           from  == IF first # 0 /\ v[first] = "+" THEN first + 1 ELSE first
           J     == {i \in from..len : v[i] \notin Digit}
           stop  == IF J # {} THEN Min(J) ELSE 0
           last  == IF stop = 0 THEN len ELSE stop - 1
           Rec(f) == [i \in 0..last |->
                        IF i < from \/ i = 0 THEN 0 ELSE f[i - 1] * 10 + DigitValue[v[i]]]
           n == CHOOSE f : f = Rec(f)
<1>1. Number(v) = IF first = 0 THEN 0 ELSE n[last]
  BY DEF Number, SelectInSeq, SelectInSubSeq
<1> HIDE DEF n, last, first
<1> SUFFICES ASSUME first # 0 PROVE n[last] \in Nat
  BY <1>1
<1> USE DEF n, last, first
<1>2. len \in Nat
  OBVIOUS
<1> HIDE DEF len
<1>3. first \in 1..len
  <2>1. I \in SUBSET Nat /\ \A i \in I : i \in 1..len
    OBVIOUS
  <2> HIDE DEF I
  <2> QED
    BY <1>2, <2>1, FirstOf
<1> HIDE DEF first
<1>4. from \in 1..len + 1
  BY <1>2, <1>3
<1> HIDE DEF from
<1>5. J \in SUBSET Nat /\ \A i \in J : i \in 1..len
  BY <1>2, <1>4
<1>6. stop \in 0..len /\ (J # {} => stop \in J /\ \A i \in J : stop <= i)
      /\ (J = {} => stop = 0)
  <2> HIDE DEF J
  <2> QED
    BY <1>2, <1>5, FirstOf
<1>7. last \in 0..len /\ \A i \in from..last : v[i] \in Digit
  <2>1. CASE J = {}
    <3>1. last = len
      BY <1>6, <2>1
    <3> QED
      BY <1>2, <1>4, <2>1, <3>1
  <2>2. CASE J # {}
    <3>1. stop \in 1..len /\ \A i \in J : stop <= i
      BY <1>5, <1>6, <2>2
    <3> HIDE DEF stop
    <3>2. last = stop - 1
      BY <3>1
    <3>3. last \in 0..len
      BY <1>2, <3>1, <3>2
    <3>4. ASSUME NEW i \in from..last PROVE v[i] \in Digit
      <4>1. i \in from..len /\ ~(stop <= i)
        BY <1>2, <1>4, <3>1, <3>2
      <4> QED
        BY <3>1, <4>1
    <3> QED
      BY <3>3, <3>4
  <2> QED
    BY <2>1, <2>2
<1> HIDE DEF last
<1> DEFINE F == [x \in (1..last) \X Nat |->
                   IF x[1] < from THEN 0 ELSE x[2] * 10 + DigitValue[v[x[1]]]]
<1>8. F \in [(1..last) \X Nat -> Nat]
  <2>1. ASSUME NEW i \in 1..last, NEW a \in Nat
        PROVE  (IF i < from THEN 0 ELSE a * 10 + DigitValue[v[i]]) \in Nat
    <3>1. \A d \in Digit : DigitValue[d] \in Nat
      BY DEF DigitValue, Digit
    <3>2. i < from \/ i \in from..last
      BY <1>4, <1>7
    <3>3. i >= from => DigitValue[v[i]] \in Nat
      BY <1>4, <1>7, <3>1, <3>2
    <3> QED
      BY <3>3, <1>4
  <2> QED
    BY <2>1
<1>9. PICK g \in [0..last -> Nat] : ByRec(g, last, 0, F)
  <2>1. last \in Nat /\ 0 \in Nat
    BY <1>2, <1>7
  <2> HIDE DEF F
  <2> QED
    BY <1>8, <2>1, RecExists
<1>10. g = Rec(g)
  <2>1. ASSUME NEW i \in 0..last
        PROVE  g[i] = IF i < from \/ i = 0 THEN 0 ELSE g[i - 1] * 10 + DigitValue[v[i]]
    <3>1. g[i] = IF i = 0 THEN 0 ELSE F[<<i, g[i - 1]>>]
      <4> HIDE DEF F
      <4> QED
        BY <1>9 DEF ByRec
    <3>2. CASE i = 0
      BY <3>1, <3>2
    <3>3. CASE i # 0
      <4>1. i \in 1..last /\ g[i - 1] \in Nat
        BY <1>7, <3>3
      <4>2. F[<<i, g[i - 1]>>] = IF i < from THEN 0 ELSE g[i - 1] * 10 + DigitValue[v[i]]
        BY <4>1
      <4> QED
        BY <3>1, <3>3, <4>2
    <3> QED
      BY <3>2, <3>3
  <2> QED
    BY <2>1
<1>11. n = Rec(n)
  BY <1>10
<1>12. AgreeByRec(n, g, 0, last)
  <2>1. \A f : f = Rec(f) => \A i \in 0..last :
          f[i] = IF i < from \/ i = 0 THEN 0 ELSE f[i - 1] * 10 + DigitValue[v[i]]
    OBVIOUS
  <2>2. /\ \A i \in 0..last :
             n[i] = IF i < from \/ i = 0 THEN 0 ELSE n[i - 1] * 10 + DigitValue[v[i]]
        /\ \A i \in 0..last :
             g[i] = IF i < from \/ i = 0 THEN 0 ELSE g[i - 1] * 10 + DigitValue[v[i]]
    <3> HIDE DEF Rec, n
    <3> QED
      BY <1>10, <1>11, <2>1
  <2> HIDE DEF n
  <2> QED
    BY <2>2 DEF AgreeByRec
<1>13. n[last] = g[last]
  <2> HIDE DEF n
  <2> QED
    BY <1>7, <1>12, SameByRec
<1> QED
  BY <1>7, <1>13

(* One more symbol.                                                        *)
LEMMA SpanMore ==
  ASSUME NEW t, NEW a \in Nat, NEW k \in Nat, NEW S, Span(t, a, k, S), t[k + 1] \in S
  PROVE  Span(t, a, k + 1, S)
BY DEF Span

LEMMA SubSeqMore ==
  ASSUME NEW t \in Seq(Symbol), NEW a \in 1..Len(t), NEW k \in 0..Len(t) - 1, a <= k + 1
  PROVE  /\ SubSeq(t, a, k) \in Seq(Symbol)
         /\ SubSeq(t, a, k + 1) = Append(SubSeq(t, a, k), t[k + 1])
         /\ SubSeq(t, a, k + 1) = SubSeq(t, a, k) \o <<t[k + 1]>>
         /\ k < a => SubSeq(t, a, k) = <<>>
<1> DEFINE s == SubSeq(t, a, k)
           u == SubSeq(t, a, k + 1)
           w == Append(s, t[k + 1])
           z == s \o <<t[k + 1]>>
           n == k - a + 1
<1>1. /\ n \in Nat /\ s \in Seq(Symbol) /\ Len(s) = n /\ \A i \in 1..n : s[i] = t[a + i - 1]
      /\ u \in Seq(Symbol) /\ Len(u) = n + 1 /\ \A i \in 1..n + 1 : u[i] = t[a + i - 1]
  OBVIOUS
<1>2. t[k + 1] \in Symbol /\ a + (n + 1) - 1 = k + 1
  OBVIOUS
<1> HIDE DEF s, u, n
<1>3. /\ w \in Seq(Symbol) /\ Len(w) = n + 1 /\ w[n + 1] = t[k + 1]
      /\ \A i \in 1..n : w[i] = s[i]
  <2>1. s \in Seq(Symbol) /\ Len(s) = n /\ t[k + 1] \in Symbol
    BY <1>1, <1>2
  <2> QED
    BY <2>1
<1>4. /\ z \in Seq(Symbol) /\ Len(z) = n + 1 /\ z[n + 1] = t[k + 1]
      /\ \A i \in 1..n : z[i] = s[i]
  BY <1>1, <1>2
<1> HIDE DEF w, z
<1>5. \A i \in 1..n + 1 : i \in 1..n \/ i = n + 1
  BY <1>1
<1>6. n + 1 \in 1..n + 1
  BY <1>1
<1>7. \A i \in 1..n + 1 : u[i] = w[i] /\ u[i] = z[i]
  BY <1>1, <1>2, <1>3, <1>4, <1>5, <1>6
<1>8. u = w /\ u = z
  BY <1>1, <1>3, <1>4, <1>7, SeqEqual
<1>9. k < a => s = <<>>
  <2> HAVE k < a
  <2>1. n = 0
    BY DEF n
  <2> QED
    BY <1>1, <2>1
<1> QED
  BY <1>1, <1>8, <1>9 DEF s, u, w, z
-----------------------------------------------------------------------------
(* The same by places of the whole text: a header through k that names     *)
(* itself up to c, and a continuation line through k that goes on with the *)
(* value at m.                                                             *)
Clean(t, a, k) == \A i \in a..k : t[i] # "CR"

NameAt(t, b, c) == b < c /\ Span(t, b, c - 1, Token) /\ t[c] = ":"
ValueTo(t, b, c, k) ==
  NameAt(t, b, c) /\ c < k /\ t[c + 1] = "SP" /\ Span(t, c + 2, k, Text)
HeaderOf(t, b, c, k) == [name |-> SubSeq(t, b, c - 1), value |-> SubSeq(t, c + 2, k)]
MoreTo(t, b, m, k) ==
  /\ b < m /\ m <= k + 1 /\ Span(t, b, m - 1, Lws)
  /\ m <= k => t[m] \notin Lws
  /\ Span(t, m, k, Text)

LEMMA CleanLine ==
  ASSUME NEW t \in Seq(Symbol), NEW b \in 1..Len(t), NEW e \in b..Len(t),
         Clean(t, b, e - 1), Crlf(t, e)
  PROVE  LineEnd(t, b) = e /\ Line(t, b) = SubSeq(t, b, e - 1)
<1>1. b \in Nat \ {0} /\ e \in Nat /\ b <= e
  OBVIOUS
<1>2. \A k \in b..e - 1 : ~Crlf(t, k)
  BY DEF Clean, Crlf
<1>3. LineEnd(t, b) = e
  BY <1>1, <1>2, LineEndIs
<1> QED
  BY <1>3 DEF Line

(* The line at a place where another one ends is empty, so it is no line   *)
(* of a head.                                                              *)
LEMMA EmptyLine ==
  ASSUME NEW t \in Seq(Symbol), NEW b \in 1..Len(t), Crlf(t, b)
  PROVE  ~IsHeaderLine(t, b)
<1>1. Line(t, b) = <<>>
  <2>1. b \in b..Len(t) /\ Clean(t, b, b - 1) /\ SubSeq(t, b, b - 1) = <<>>
    BY DEF Clean
  <2> QED
    BY <2>1, CleanLine
<1>2. ~IsHeader(<<>>)
  <2>1. <<>> \in Seq(Symbol) /\ Len(<<>>) = 0
    OBVIOUS
  <2>2. \A c \in Nat : ~HeaderAt(<<>>, c)
    BY <2>1 DEF HeaderAt
  <2> QED
    BY <2>1, <2>2, HeaderIs
<1> QED
  BY <1>1, <1>2 DEF IsHeaderLine, IsContinuation

(* No line starts within a line.                                           *)
LEMMA NoStart ==
  ASSUME NEW t \in Seq(Symbol), NEW b \in 1..Len(t) + 1, NEW k \in b - 1..Len(t),
         StartsLine(t, b), Clean(t, b, k)
  PROVE  \A a \in b + 1..k + 2 : ~StartsLine(t, a)
<1> SUFFICES ASSUME NEW a \in b + 1..k + 2, a # 1, a > 2, Crlf(t, a - 2) PROVE FALSE
  BY DEF StartsLine
<1>1. t[a - 2] = "CR"
  BY DEF Crlf
<1>2. a - 2 \in b..k \/ a - 2 = b - 1
  OBVIOUS
<1>3. a - 2 = b - 1
  BY <1>1, <1>2 DEF Clean
<1>4. b > 2 /\ Crlf(t, b - 2) /\ (b - 2) + 1 = b - 1
  BY <1>3 DEF StartsLine
<1> QED
  BY <1>1, <1>3, <1>4 DEF Crlf

LEMMA LinePart ==
  ASSUME NEW t \in Seq(Symbol), NEW b \in 1..Len(t), NEW e \in b..Len(t) + 1,
         NEW x \in 1..e - b + 1, NEW y \in 0..e - b, x <= y + 1
  PROVE  LET l == SubSeq(t, b, e - 1)
         IN /\ SubSeq(l, x, y) = SubSeq(t, b + x - 1, b + y - 1)
            /\ \A S : Span(l, x, y, S) <=> Span(t, b + x - 1, b + y - 1, S)
<1> DEFINE l == SubSeq(t, b, e - 1)
           n == y - x + 1
           u == SubSeq(l, x, y)
           w == SubSeq(t, b + x - 1, b + y - 1)
<1>1. /\ l \in Seq(Symbol) /\ Len(l) = e - b /\ \A i \in 1..e - b : l[i] = t[b + i - 1]
  OBVIOUS
<1> HIDE DEF l
<1>2. u \in Seq(Symbol) /\ Len(u) = n /\ \A i \in 1..n : u[i] = l[x + i - 1]
  BY <1>1
<1>3. w \in Seq(Symbol) /\ Len(w) = n /\ \A i \in 1..n : w[i] = t[(b + x - 1) + i - 1]
  <2>1. b + x - 1 \in 1..Len(t) + 1 /\ b + y - 1 \in 0..Len(t)
        /\ (b + y - 1) - (b + x - 1) + 1 = n /\ n \in Nat
    OBVIOUS
  <2> QED
    BY <2>1
<1>4. \A i \in 1..n : x + i - 1 \in 1..e - b /\ b + (x + i - 1) - 1 = (b + x - 1) + i - 1
  OBVIOUS
<1>5. u = w
  <2> HIDE DEF u, w, n
  <2>1. \A i \in 1..n : u[i] = w[i]
    BY <1>1, <1>2, <1>3, <1>4
  <2> QED
    BY <1>2, <1>3, <2>1, SeqEqual
<1>6. ASSUME NEW S PROVE Span(l, x, y, S) <=> Span(t, b + x - 1, b + y - 1, S)
  <2>1. ASSUME Span(l, x, y, S), NEW i \in b + x - 1..b + y - 1 PROVE t[i] \in S
    <3>1. i - b + 1 \in x..y /\ i - b + 1 \in 1..e - b /\ b + (i - b + 1) - 1 = i
      OBVIOUS
    <3> QED
      BY <1>1, <2>1, <3>1 DEF Span
  <2>2. ASSUME Span(t, b + x - 1, b + y - 1, S), NEW i \in x..y PROVE l[i] \in S
    <3>1. b + i - 1 \in b + x - 1..b + y - 1 /\ i \in 1..e - b
      OBVIOUS
    <3> QED
      BY <1>1, <2>2, <3>1 DEF Span
  <2> QED
    BY <2>1, <2>2 DEF Span
<1> QED
  BY <1>5, <1>6 DEF l, u, w

LEMMA ValueLine ==
  ASSUME NEW t \in Seq(Symbol), NEW b \in 1..Len(t), NEW c \in Nat, NEW e \in b..Len(t),
         ValueTo(t, b, c, e - 1), Crlf(t, e)
  PROVE  /\ Clean(t, b, e - 1) /\ IsHeader(Line(t, b))
         /\ \A hs : WithLine(hs, Line(t, b)) = Append(hs, HeaderOf(t, b, c, e - 1))
<1> DEFINE l == SubSeq(t, b, e - 1)
           d == c - b + 1
<1>1. /\ b < c /\ c < e - 1 /\ t[c] = ":" /\ t[c + 1] = "SP"
      /\ Span(t, b, c - 1, Token) /\ Span(t, c + 2, e - 1, Text)
  BY DEF ValueTo, NameAt
<1>2. Clean(t, b, e - 1)
  <2> SUFFICES ASSUME NEW i \in b..e - 1 PROVE t[i] # "CR"
    BY DEF Clean
  <2>1. i \in b..c - 1 \/ i = c \/ i = c + 1 \/ i \in c + 2..e - 1
    OBVIOUS
  <2> QED
    BY <1>1, <2>1, Classes DEF Span
<1>3. Line(t, b) = l
  BY <1>2, CleanLine
<1>4. /\ l \in Seq(Symbol) /\ Len(l) = e - b /\ \A i \in 1..e - b : l[i] = t[b + i - 1]
  OBVIOUS
<1>5. /\ d \in Nat /\ 1 < d /\ d < e - b /\ d \in 1..e - b /\ d + 1 \in 1..e - b
      /\ b + d - 1 = c /\ b + (d + 1) - 1 = c + 1
      /\ b + 1 - 1 = b /\ b + (d - 1) - 1 = c - 1
      /\ b + (d + 2) - 1 = c + 2 /\ b + (e - b) - 1 = e - 1
      /\ e \in b..Len(t) + 1
  BY <1>1
<1>6. /\ 1 \in 1..e - b + 1 /\ d - 1 \in 0..e - b /\ 1 <= (d - 1) + 1
      /\ d + 2 \in 1..e - b + 1 /\ e - b \in 0..e - b /\ d + 2 <= (e - b) + 1
  BY <1>5
<1> HIDE DEF l, d
<1>7. /\ SubSeq(l, 1, d - 1) = SubSeq(t, b, c - 1)
      /\ Span(l, 1, d - 1, Token) <=> Span(t, b, c - 1, Token)
  BY <1>5, <1>6, LinePart DEF l
<1>8. /\ SubSeq(l, d + 2, e - b) = SubSeq(t, c + 2, e - 1)
      /\ Span(l, d + 2, e - b, Text) <=> Span(t, c + 2, e - 1, Text)
  BY <1>5, <1>6, LinePart DEF l
<1>9. HeaderAt(l, d)
  BY <1>1, <1>4, <1>5, <1>7, <1>8 DEF HeaderAt
<1>10. IsHeader(l) /\ Find(l, 1, ":") = d
  BY <1>4, <1>5, <1>9, HeaderIs, HeaderPlace
<1>11. \A hs : WithLine(hs, l) = Append(hs, HeaderOf(t, b, c, e - 1))
  BY <1>4, <1>7, <1>8, <1>10 DEF WithLine, HeaderOf
<1> QED
  BY <1>2, <1>3, <1>10, <1>11

LEMMA MoreLine ==
  ASSUME NEW t \in Seq(Symbol), NEW b \in 1..Len(t), NEW m \in Nat, NEW e \in b..Len(t),
         MoreTo(t, b, m, e - 1), Crlf(t, e)
  PROVE  /\ Clean(t, b, e - 1) /\ IsContinuation(Line(t, b))
         /\ \A hs : WithLine(hs, Line(t, b)) = Extend(hs, SubSeq(t, m, e - 1))
<1> DEFINE l == SubSeq(t, b, e - 1)
           d == m - b + 1
<1>1. /\ b < m /\ m <= e /\ (m <= e - 1 => t[m] \notin Lws)
      /\ Span(t, b, m - 1, Lws) /\ Span(t, m, e - 1, Text)
  BY DEF MoreTo
<1>2. Clean(t, b, e - 1)
  <2> SUFFICES ASSUME NEW i \in b..e - 1 PROVE t[i] # "CR"
    BY DEF Clean
  <2>1. i \in b..m - 1 \/ i \in m..e - 1
    OBVIOUS
  <2> QED
    BY <1>1, <2>1, Classes DEF Span
<1>3. Line(t, b) = l
  BY <1>2, CleanLine
<1>4. /\ l \in Seq(Symbol) /\ Len(l) = e - b /\ \A i \in 1..e - b : l[i] = t[b + i - 1]
  OBVIOUS
<1>5. /\ d \in Nat /\ 1 < d /\ d <= e - b + 1
      /\ d <= e - b => d \in 1..e - b /\ m <= e - 1
      /\ b + d - 1 = m /\ b + 1 - 1 = b /\ b + (d - 1) - 1 = m - 1
      /\ b + (e - b) - 1 = e - 1 /\ e \in b..Len(t) + 1 /\ 1 \in 1..e - b
  BY <1>1
<1>6. /\ 1 \in 1..e - b + 1 /\ d - 1 \in 0..e - b /\ 1 <= (d - 1) + 1
      /\ d \in 1..e - b + 1 /\ e - b \in 0..e - b /\ d <= (e - b) + 1
  BY <1>5
<1> HIDE DEF l, d
<1>7. Span(l, 1, d - 1, Lws) <=> Span(t, b, m - 1, Lws)
  BY <1>5, <1>6, LinePart DEF l
<1>8. /\ SubSeq(l, d, e - b) = SubSeq(t, m, e - 1)
      /\ Span(l, d, e - b, Text) <=> Span(t, m, e - 1, Text)
  BY <1>5, <1>6, LinePart DEF l
<1>9. MoreAt(l, d)
  BY <1>1, <1>4, <1>5, <1>7, <1>8 DEF MoreAt
<1>10. IsContinuation(l) /\ More(l) = SubSeq(t, m, e - 1)
  BY <1>4, <1>5, <1>8, <1>9, MoreIs
<1>11. ~IsHeader(l)
  <2> SUFFICES ASSUME NEW c \in Nat, HeaderAt(l, c) PROVE FALSE
    BY <1>4, HeaderIs
  <2>1. 1 \in 1..c - 1 /\ 1 \in 1..d - 1
    BY <1>5 DEF HeaderAt
  <2>2. l[1] \in Token /\ l[1] \in Lws
    BY <1>1, <1>7, <2>1 DEF HeaderAt, Span
  <2> QED
    BY <2>2, Classes
<1>12. \A hs : WithLine(hs, l) = Extend(hs, SubSeq(t, m, e - 1))
  BY <1>10, <1>11 DEF WithLine, Extend
<1> QED
  BY <1>2, <1>3, <1>10, <1>12

(* The other way round.                                                    *)
LEMMA LineShape ==
  ASSUME NEW t \in Seq(Symbol), NEW b \in 1..Len(t), NEW e \in b..Len(t), LineEnd(t, b) = e
  PROVE  /\ IsHeader(Line(t, b)) => \E c \in Nat : ValueTo(t, b, c, e - 1)
         /\ IsContinuation(Line(t, b)) => \E m \in Nat : MoreTo(t, b, m, e - 1)
<1> DEFINE l == SubSeq(t, b, e - 1)
<1>1. Line(t, b) = l
  BY DEF Line
<1>2. /\ l \in Seq(Symbol) /\ Len(l) = e - b /\ \A i \in 1..e - b : l[i] = t[b + i - 1]
      /\ e \in b..Len(t) + 1
  OBVIOUS
<1>3. ASSUME IsHeader(l) PROVE \E c \in Nat : ValueTo(t, b, c, e - 1)
  <2>1. PICK d \in Nat : HeaderAt(l, d)
    BY <1>2, <1>3, HeaderIs
  <2> DEFINE c == b + d - 1
  <2>2. 1 < d /\ d < e - b /\ l[d] = ":" /\ l[d + 1] = "SP"
        /\ Span(l, 1, d - 1, Token) /\ Span(l, d + 2, e - b, Text)
    BY <1>2, <2>1 DEF HeaderAt
  <2>3. /\ c \in Nat /\ b < c /\ c < e - 1 /\ d \in 1..e - b /\ d + 1 \in 1..e - b
        /\ b + (d + 1) - 1 = c + 1
        /\ b + 1 - 1 = b /\ b + (d - 1) - 1 = c - 1
        /\ b + (d + 2) - 1 = c + 2 /\ b + (e - b) - 1 = e - 1
        /\ 1 \in 1..e - b + 1 /\ d - 1 \in 0..e - b /\ 1 <= (d - 1) + 1
        /\ d + 2 \in 1..e - b + 1 /\ e - b \in 0..e - b /\ d + 2 <= (e - b) + 1
    BY <2>2
  <2>4. t[c] = ":" /\ t[c + 1] = "SP"
    BY <1>2, <2>2, <2>3
  <2> HIDE DEF l, c
  <2>5. Span(t, b, c - 1, Token) /\ Span(t, c + 2, e - 1, Text)
    <3>1. Span(l, 1, d - 1, Token) <=> Span(t, b, c - 1, Token)
      BY <1>2, <2>3, LinePart DEF l
    <3>2. Span(l, d + 2, e - b, Text) <=> Span(t, c + 2, e - 1, Text)
      BY <1>2, <2>3, LinePart DEF l
    <3> QED
      BY <2>2, <3>1, <3>2
  <2> QED
    BY <2>3, <2>4, <2>5 DEF ValueTo, NameAt
<1>4. ASSUME IsContinuation(l) PROVE \E m \in Nat : MoreTo(t, b, m, e - 1)
  <2>1. PICK d \in Nat : MoreAt(l, d)
    BY <1>2, <1>4, ContinuationIs
  <2> DEFINE m == b + d - 1
  <2>2. 1 < d /\ d <= e - b + 1 /\ (d <= e - b => l[d] \notin Lws)
        /\ Span(l, 1, d - 1, Lws) /\ Span(l, d, e - b, Text)
    BY <1>2, <2>1 DEF MoreAt
  <2>3. /\ m \in Nat /\ b < m /\ m <= (e - 1) + 1
        /\ m <= e - 1 => d <= e - b /\ d \in 1..e - b
        /\ b + 1 - 1 = b /\ b + (d - 1) - 1 = m - 1 /\ b + (e - b) - 1 = e - 1
        /\ 1 \in 1..e - b + 1 /\ d - 1 \in 0..e - b /\ 1 <= (d - 1) + 1
        /\ d \in 1..e - b + 1 /\ e - b \in 0..e - b /\ d <= (e - b) + 1
    BY <2>2
  <2>4. m <= e - 1 => t[m] \notin Lws
    BY <1>2, <2>2, <2>3
  <2> HIDE DEF l
  <2>5. Span(t, b, m - 1, Lws) /\ Span(t, m, e - 1, Text)
    <3>1. Span(l, 1, d - 1, Lws) <=> Span(t, b, m - 1, Lws)
      BY <1>2, <2>3, LinePart DEF l
    <3>2. Span(l, d, e - b, Text) <=> Span(t, m, e - 1, Text)
      BY <1>2, <2>3, LinePart DEF l
    <3> QED
      BY <2>2, <3>1, <3>2
  <2> HIDE DEF m
  <2> QED
    BY <2>3, <2>4, <2>5 DEF MoreTo
<1> QED
  BY <1>1, <1>3, <1>4
-----------------------------------------------------------------------------
(* What the parser knows after the symbols 1..k of a text, state by state. *)
(* The request line: the method ends at i, the uri at j, the first number  *)
(* of the version at d.                                                    *)
Verb(t, i)     == 1 < i /\ Span(t, 1, i - 1, Token) /\ t[i] = "SP"
Uri(t, i, j)   == i < j /\ Span(t, i + 1, j - 1, Text \ {"SP"}) /\ t[j] = "SP"
Slash(t, j, n) == \A m \in 1..n : t[j + m] = Http[m]
Major(t, j, d) == j + 6 < d /\ Span(t, j + 6, d - 1, Digit) /\ t[d] = "."
Asked(q, t, i, j) ==
  /\ Verb(t, i) /\ Uri(t, i, j)
  /\ q.method = SubSeq(t, 1, i - 1) /\ q.uri = SubSeq(t, i + 1, j - 1)
NoneYet(q) ==
  q.headers = <<>> /\ q.has_content = FALSE /\ q.content_size = 0 /\ q.content = <<>>

HttpStates == <<"http_version_h", "http_version_t_1", "http_version_t_2",
                "http_version_p", "http_version_slash", "http_version_major_start">>

AtMethodStart(q, t, k) == NoneYet(q) /\ k = 0 /\ q.method = <<>> /\ q.uri = <<>>
AtMethod(q, t, k) ==
  NoneYet(q) /\ k >= 1 /\ Span(t, 1, k, Token) /\ q.method = SubSeq(t, 1, k) /\ q.uri = <<>>
AtUri(q, t, k) ==
  NoneYet(q) /\ \E i \in 1..k :
    /\ Verb(t, i) /\ Span(t, i + 1, k, Text \ {"SP"})
    /\ q.method = SubSeq(t, 1, i - 1) /\ q.uri = SubSeq(t, i + 1, k)
AtHttp(q, t, k, n) ==
  NoneYet(q) /\ \E i, j \in 1..k : Asked(q, t, i, j) /\ k = j + n /\ Slash(t, j, n)
AtMajor(q, t, k) ==
  NoneYet(q) /\ \E i, j \in 1..k :
    Asked(q, t, i, j) /\ Slash(t, j, 5) /\ j + 6 <= k /\ Span(t, j + 6, k, Digit)
AtDot(q, t, k) ==
  NoneYet(q) /\ \E i, j \in 1..k : Asked(q, t, i, j) /\ Slash(t, j, 5) /\ Major(t, j, k)
AtMinor(q, t, k) ==
  NoneYet(q) /\ \E i, j, d \in 1..k :
    /\ Asked(q, t, i, j) /\ Slash(t, j, 5) /\ Major(t, j, d)
    /\ d < k /\ Span(t, d + 1, k, Digit)
AtCr1(q, t, k) ==
  NoneYet(q) /\ \E i, j, d \in 1..k :
    /\ Asked(q, t, i, j) /\ Slash(t, j, 5) /\ Major(t, j, d)
    /\ d < k - 1 /\ Span(t, d + 1, k - 1, Digit) /\ t[k] = "CR"

(* The lines before b are those of a head, and none of them is empty.      *)
Before(t, b) ==
  /\ b > 2 /\ Crlf(t, b - 2)
  /\ IsRequestLine(Line(t, 1))
  /\ \A a \in 2..b - 1 : StartsLine(t, a) => IsHeaderLine(t, a)
  /\ HeadersTo(t, b - 1) = <<>> <=> \A a \in 2..b - 1 : ~StartsLine(t, a)
Named(q, t) == q.method = Method(t) /\ q.uri = Target(t) /\ q.content = <<>>
CL == "Content-Length"
Filled(q, hs) ==
  q.headers = hs /\ q.has_content = Holds(hs, CL) /\ q.content_size = LengthOf(hs)

AtLine(q, t, k) == Before(t, k + 1) /\ Named(q, t) /\ Filled(q, HeadersTo(t, k))
AtName(q, t, k) ==
  Named(q, t) /\ \E b \in 1..k : LET hs == HeadersTo(t, b - 1) IN
    /\ Before(t, b) /\ Span(t, b, k, Token)
    /\ q.headers = Append(hs, [name |-> SubSeq(t, b, k), value |-> <<>>])
    /\ q.has_content = Holds(hs, CL) /\ q.content_size = LengthOf(hs)
AtColon(q, t, k) ==
  Named(q, t) /\ \E b \in 1..k : LET hs == HeadersTo(t, b - 1) IN
    /\ Before(t, b) /\ NameAt(t, b, k)
    /\ q.headers = Append(hs, [name |-> SubSeq(t, b, k - 1), value |-> <<>>])
    /\ q.has_content = Holds(q.headers, CL) /\ q.content_size = LengthOf(hs)
(* The two ways to be within a value, or to have read a line through k.    *)
Valued(q, t, b, k) ==
  LET hs == HeadersTo(t, b - 1) IN
    \/ \E c \in b..k : ValueTo(t, b, c, k) /\ q.headers = Append(hs, HeaderOf(t, b, c, k))
    \/ \E m \in b..k + 1 :
         MoreTo(t, b, m, k) /\ hs # <<>> /\ q.headers = Extend(hs, SubSeq(t, m, k))
AtValue(q, t, k) ==
  Named(q, t) /\ \E b \in 1..k : LET hs == HeadersTo(t, b - 1) IN
    /\ Before(t, b) /\ Valued(q, t, b, k) /\ ~Span(t, b, k, Lws)
    /\ q.has_content = Holds(q.headers, CL) /\ q.content_size = LengthOf(hs)
AtBlank(q, t, k) ==
  Named(q, t) /\ \E b \in 1..k :
    Before(t, b) /\ Span(t, b, k, Lws)
    /\ HeadersTo(t, b - 1) # <<>> /\ Filled(q, HeadersTo(t, b - 1))
AtCr2(q, t, k) ==
  Named(q, t) /\ t[k] = "CR" /\ \E b \in 1..k - 1 :
    Before(t, b) /\ Valued(q, t, b, k - 1) /\ Filled(q, q.headers)
AtCr3(q, t, k) ==
  Before(t, k) /\ Named(q, t) /\ t[k] = "CR" /\ Filled(q, HeadersTo(t, k - 1))

Headed(q, t) ==
  IsHead(t) /\ q.method = Method(t) /\ q.uri = Target(t) /\ q.headers = Headers(t)
AtContent(q, t, k) ==
  /\ Headed(q, t) /\ Has(t, CL) /\ q.content_size = Declared(t)
  /\ k >= HeadEnd(t) + 3 /\ q.content = SubSeq(t, HeadEnd(t) + 4, k)
  /\ q.content_size = 0 \/ k - HeadEnd(t) - 3 < q.content_size
(* The requests the parser finishes.                                       *)
Finished(t) ==
  /\ IsHead(t)
  /\ Has(t, CL) => Declared(t) >= 1 /\ Len(t) >= HeadEnd(t) + 3 + Declared(t)
AtGood(q, t) == Finished(t) /\ Headed(q, t) /\ q.content = Body(t)

Knows(q, t, k) ==
  /\ q.state = "method_start" => AtMethodStart(q, t, k)
  /\ q.state = "method" => AtMethod(q, t, k)
  /\ q.state = "uri" => AtUri(q, t, k)
  /\ \A n \in 0..5 : q.state = HttpStates[n + 1] => AtHttp(q, t, k, n)
  /\ q.state = "http_version_major" => AtMajor(q, t, k)
  /\ q.state = "http_version_minor_start" => AtDot(q, t, k)
  /\ q.state = "http_version_minor" => AtMinor(q, t, k)
  /\ q.state = "expecting_newline_1" => AtCr1(q, t, k)
  /\ q.state = "header_line_start" => AtLine(q, t, k)
  /\ q.state = "header_lws" => AtBlank(q, t, k)
  /\ q.state = "header_name" => AtName(q, t, k)
  /\ q.state = "space_before_header_value" => AtColon(q, t, k)
  /\ q.state = "header_value" => AtValue(q, t, k)
  /\ q.state = "expecting_newline_2" => AtCr2(q, t, k)
  /\ q.state = "expecting_newline_3" => AtCr3(q, t, k)
  /\ q.state = "content" => AtContent(q, t, k)
  /\ q.state = "good" => AtGood(q, t)

(* What a rule does to the request, field by field.                        *)
LEMMA ApplyIs ==
  ASSUME NEW q \in Requests0, NEW r \in Rules, NEW c \in Symbol
  PROVE  LET e  == Apply(q, r, c)
             n  == Len(q.headers)
         IN /\ e.state = CASE r.does = "end_of_headers" ->
                                IF q.has_content THEN r.to ELSE "good"
                           [] r.does = "content" ->
                                IF Len(q.content) + 1 = q.content_size THEN "good" ELSE "content"
                           [] OTHER -> r.to
            /\ e.method = IF r.does = "method" THEN Append(q.method, c) ELSE q.method
            /\ e.uri = IF r.does = "uri" THEN Append(q.uri, c) ELSE q.uri
            /\ e.content = IF r.does = "content" THEN Append(q.content, c) ELSE q.content
            /\ e.has_content = IF r.does = "named" THEN (q.has_content \/ IsLength(q))
                               ELSE q.has_content
            /\ e.content_size = IF r.does = "valued" /\ IsLength(q)
                                THEN Number(q.headers[n].value) ELSE q.content_size
            /\ e.headers =
                 CASE r.does = "header" -> Append(q.headers, [name |-> <<c>>, value |-> <<>>])
                   [] r.does = "name"  -> [q.headers EXCEPT ![n].name = Append(@, c)]
                   [] r.does = "value" -> [q.headers EXCEPT ![n].value = Append(@, c)]
                   [] OTHER -> q.headers
<1>1. r.does \in {"skip", "continue", "method", "uri", "header", "name", "value",
                  "named", "valued", "end_of_headers", "content"}
  BY RuleFacts
<1>2. CASE r.does \in {"skip", "continue"}
  BY <1>2 DEF Apply, Requests0
<1>3. CASE r.does = "method"
  BY <1>3 DEF Apply, Requests0
<1>4. CASE r.does = "uri"
  BY <1>4 DEF Apply, Requests0
<1>5. CASE r.does = "header"
  BY <1>5 DEF Apply, Requests0
<1>6. CASE r.does = "name"
  BY <1>6 DEF Apply, Requests0
<1>7. CASE r.does = "value"
  BY <1>7 DEF Apply, Requests0
<1>8. CASE r.does = "named"
  BY <1>8 DEF Apply, Requests0
<1>9. CASE r.does = "valued"
  BY <1>9 DEF Apply, Requests0
<1>10. CASE r.does = "end_of_headers"
  BY <1>10 DEF Apply, Requests0
<1>11. CASE r.does = "content"
  BY <1>11 DEF Apply, Requests0
<1> QED
  BY <1>1, <1>2, <1>3, <1>4, <1>5, <1>6, <1>7, <1>8, <1>9, <1>10, <1>11
LEMMA HttpNames ==
  /\ \A n \in 0..5 : HttpStates[n + 1] \in
       {"http_version_h", "http_version_t_1", "http_version_t_2",
        "http_version_p", "http_version_slash", "http_version_major_start"}
  /\ \A m, n \in 0..5 : HttpStates[m + 1] = HttpStates[n + 1] => m = n
  /\ HttpStates[1] = "http_version_h" /\ HttpStates[2] = "http_version_t_1"
  /\ HttpStates[3] = "http_version_t_2" /\ HttpStates[4] = "http_version_p"
  /\ HttpStates[5] = "http_version_slash" /\ HttpStates[6] = "http_version_major_start"
<1>1. \A n \in 0..5 : n = 0 \/ n = 1 \/ n = 2 \/ n = 3 \/ n = 4 \/ n = 5
  OBVIOUS
<1>2. /\ HttpStates[1] = "http_version_h" /\ HttpStates[2] = "http_version_t_1"
      /\ HttpStates[3] = "http_version_t_2" /\ HttpStates[4] = "http_version_p"
      /\ HttpStates[5] = "http_version_slash" /\ HttpStates[6] = "http_version_major_start"
  BY DEF HttpStates
<1> QED
  BY <1>1, <1>2

LEMMA Tells ==
  ASSUME NEW q, NEW t, NEW k
  PROVE  /\ q.state = "method_start" /\ AtMethodStart(q, t, k) => Knows(q, t, k)
         /\ q.state = "method" /\ AtMethod(q, t, k) => Knows(q, t, k)
         /\ q.state = "uri" /\ AtUri(q, t, k) => Knows(q, t, k)
         /\ \A n \in 0..5 : q.state = HttpStates[n + 1] /\ AtHttp(q, t, k, n) => Knows(q, t, k)
         /\ q.state = "http_version_major" /\ AtMajor(q, t, k) => Knows(q, t, k)
         /\ q.state = "http_version_minor_start" /\ AtDot(q, t, k) => Knows(q, t, k)
         /\ q.state = "http_version_minor" /\ AtMinor(q, t, k) => Knows(q, t, k)
         /\ q.state = "expecting_newline_1" /\ AtCr1(q, t, k) => Knows(q, t, k)
         /\ q.state = "header_line_start" /\ AtLine(q, t, k) => Knows(q, t, k)
         /\ q.state = "header_lws" /\ AtBlank(q, t, k) => Knows(q, t, k)
         /\ q.state = "header_name" /\ AtName(q, t, k) => Knows(q, t, k)
         /\ q.state = "space_before_header_value" /\ AtColon(q, t, k) => Knows(q, t, k)
         /\ q.state = "header_value" /\ AtValue(q, t, k) => Knows(q, t, k)
         /\ q.state = "expecting_newline_2" /\ AtCr2(q, t, k) => Knows(q, t, k)
         /\ q.state = "expecting_newline_3" /\ AtCr3(q, t, k) => Knows(q, t, k)
         /\ q.state = "content" /\ AtContent(q, t, k) => Knows(q, t, k)
         /\ q.state = "good" /\ AtGood(q, t) => Knows(q, t, k)
<1>1. ASSUME NEW n \in 0..5, q.state = HttpStates[n + 1], AtHttp(q, t, k, n)
      PROVE  Knows(q, t, k)
  BY <1>1, HttpNames DEF Knows
<1> QED
  BY <1>1, HttpNames DEF Knows

Is(r, from, on, to, does) == r.from = from /\ r.on = on /\ r.to = to /\ r.does = does

LEMMA FirstRules ==
  ASSUME NEW r \in RequestLineRules
  PROVE  \/ Is(r, "method_start", Token, "method", "method")
         \/ Is(r, "method", {"SP"}, "uri", "skip")
         \/ Is(r, "method", Token, "method", "method")
         \/ Is(r, "uri", {"SP"}, "http_version_h", "skip")
         \/ Is(r, "uri", Text \ {"SP"}, "uri", "uri")
         \/ \E n \in 0..4 : Is(r, HttpStates[n + 1], {Http[n + 1]}, HttpStates[n + 2], "skip")
         \/ Is(r, "http_version_major_start", Digit, "http_version_major", "skip")
         \/ Is(r, "http_version_major", {"."}, "http_version_minor_start", "skip")
         \/ Is(r, "http_version_major", Digit, "http_version_major", "skip")
         \/ Is(r, "http_version_minor_start", Digit, "http_version_minor", "skip")
         \/ Is(r, "http_version_minor", {"CR"}, "expecting_newline_1", "skip")
         \/ Is(r, "http_version_minor", Digit, "http_version_minor", "skip")
         \/ Is(r, "expecting_newline_1", {"LF"}, "header_line_start", "skip")
<1>1. /\ Http[1] = "H" /\ Http[2] = "T" /\ Http[3] = "T" /\ Http[4] = "P" /\ Http[5] = "/"
  BY DEF Http
<1> DEFINE A(n) == Is(r, HttpStates[n + 1], {Http[n + 1]}, HttpStates[n + 2], "skip")
<1>2. /\ A(0) <=> Is(r, "http_version_h", {"H"}, "http_version_t_1", "skip")
      /\ A(1) <=> Is(r, "http_version_t_1", {"T"}, "http_version_t_2", "skip")
      /\ A(2) <=> Is(r, "http_version_t_2", {"T"}, "http_version_p", "skip")
      /\ A(3) <=> Is(r, "http_version_p", {"P"}, "http_version_slash", "skip")
      /\ A(4) <=> Is(r, "http_version_slash", {"/"}, "http_version_major_start", "skip")
  BY <1>1, HttpNames
<1> HIDE DEF A
<1>3. A(0) \/ A(1) \/ A(2) \/ A(3) \/ A(4) => \E n \in 0..4 : A(n)
  OBVIOUS
<1>4. \/ Is(r, "method_start", Token, "method", "method")
      \/ Is(r, "method", {"SP"}, "uri", "skip")
      \/ Is(r, "method", Token, "method", "method")
      \/ Is(r, "uri", {"SP"}, "http_version_h", "skip")
      \/ Is(r, "uri", Text \ {"SP"}, "uri", "uri")
      \/ Is(r, "http_version_h", {"H"}, "http_version_t_1", "skip")
      \/ Is(r, "http_version_t_1", {"T"}, "http_version_t_2", "skip")
      \/ Is(r, "http_version_t_2", {"T"}, "http_version_p", "skip")
      \/ Is(r, "http_version_p", {"P"}, "http_version_slash", "skip")
      \/ Is(r, "http_version_slash", {"/"}, "http_version_major_start", "skip")
      \/ Is(r, "http_version_major_start", Digit, "http_version_major", "skip")
      \/ Is(r, "http_version_major", {"."}, "http_version_minor_start", "skip")
      \/ Is(r, "http_version_major", Digit, "http_version_major", "skip")
      \/ Is(r, "http_version_minor_start", Digit, "http_version_minor", "skip")
      \/ Is(r, "http_version_minor", {"CR"}, "expecting_newline_1", "skip")
      \/ Is(r, "http_version_minor", Digit, "http_version_minor", "skip")
      \/ Is(r, "expecting_newline_1", {"LF"}, "header_line_start", "skip")
  <2> HIDE DEF A
  <2> QED
    BY DEF RequestLineRules, Rule, Is
<1>5. \/ A(0) \/ A(1) \/ A(2) \/ A(3) \/ A(4)
      \/ Is(r, "method_start", Token, "method", "method")
      \/ Is(r, "method", {"SP"}, "uri", "skip")
      \/ Is(r, "method", Token, "method", "method")
      \/ Is(r, "uri", {"SP"}, "http_version_h", "skip")
      \/ Is(r, "uri", Text \ {"SP"}, "uri", "uri")
      \/ Is(r, "http_version_major_start", Digit, "http_version_major", "skip")
      \/ Is(r, "http_version_major", {"."}, "http_version_minor_start", "skip")
      \/ Is(r, "http_version_major", Digit, "http_version_major", "skip")
      \/ Is(r, "http_version_minor_start", Digit, "http_version_minor", "skip")
      \/ Is(r, "http_version_minor", {"CR"}, "expecting_newline_1", "skip")
      \/ Is(r, "http_version_minor", Digit, "http_version_minor", "skip")
      \/ Is(r, "expecting_newline_1", {"LF"}, "header_line_start", "skip")
  BY <1>2, <1>4
<1> QED
  BY <1>3, <1>5 DEF A

LEMMA OtherRules ==
  /\ \A r \in HeaderRules :
       \/ Is(r, "header_line_start", {"CR"}, "expecting_newline_3", "skip")
       \/ Is(r, "header_line_start", Lws, "header_lws", "continue")
       \/ Is(r, "header_line_start", Token, "header_name", "header")
       \/ Is(r, "header_lws", {"CR"}, "expecting_newline_2", "skip")
       \/ Is(r, "header_lws", Lws, "header_lws", "skip")
       \/ Is(r, "header_lws", Text \ Lws, "header_value", "value")
       \/ Is(r, "header_name", {":"}, "space_before_header_value", "named")
       \/ Is(r, "header_name", Token, "header_name", "name")
       \/ Is(r, "space_before_header_value", {"SP"}, "header_value", "skip")
       \/ Is(r, "header_value", {"CR"}, "expecting_newline_2", "valued")
       \/ Is(r, "header_value", Text, "header_value", "value")
       \/ Is(r, "expecting_newline_2", {"LF"}, "header_line_start", "skip")
  /\ \A r \in ContentRules :
       \/ Is(r, "expecting_newline_3", {"LF"}, "content", "end_of_headers")
       \/ Is(r, "content", Symbol, "content", "content")
<1>1. \A r \in HeaderRules :
       \/ Is(r, "header_line_start", {"CR"}, "expecting_newline_3", "skip")
       \/ Is(r, "header_line_start", Lws, "header_lws", "continue")
       \/ Is(r, "header_line_start", Token, "header_name", "header")
       \/ Is(r, "header_lws", {"CR"}, "expecting_newline_2", "skip")
       \/ Is(r, "header_lws", Lws, "header_lws", "skip")
       \/ Is(r, "header_lws", Text \ Lws, "header_value", "value")
       \/ Is(r, "header_name", {":"}, "space_before_header_value", "named")
       \/ Is(r, "header_name", Token, "header_name", "name")
       \/ Is(r, "space_before_header_value", {"SP"}, "header_value", "skip")
       \/ Is(r, "header_value", {"CR"}, "expecting_newline_2", "valued")
       \/ Is(r, "header_value", Text, "header_value", "value")
       \/ Is(r, "expecting_newline_2", {"LF"}, "header_line_start", "skip")
  BY DEF HeaderRules, Rule, Is
<1>2. \A r \in ContentRules :
       \/ Is(r, "expecting_newline_3", {"LF"}, "content", "end_of_headers")
       \/ Is(r, "content", Symbol, "content", "content")
  BY DEF ContentRules, Rule, Is
<1> QED
  BY <1>1, <1>2
(* A request line that ends at e.                                          *)
LEMMA FirstLine ==
  ASSUME NEW t \in Seq(Symbol), NEW i \in Nat, NEW j \in Nat, NEW d \in Nat, NEW e \in 1..Len(t),
         Verb(t, i), Uri(t, i, j), Slash(t, j, 5), Major(t, j, d), d < e - 1,
         Span(t, d + 1, e - 1, Digit), Crlf(t, e)
  PROVE  /\ Clean(t, 1, e - 1) /\ IsRequestLine(Line(t, 1))
         /\ Method(t) = SubSeq(t, 1, i - 1) /\ Target(t) = SubSeq(t, i + 1, j - 1)
<1> DEFINE l == SubSeq(t, 1, e - 1)
<1>1. /\ 1 < i /\ i < j /\ j + 6 < d /\ d < e - 1 /\ e <= Len(t)
      /\ t[i] = "SP" /\ t[j] = "SP" /\ t[d] = "."
      /\ Span(t, 1, i - 1, Token) /\ Span(t, i + 1, j - 1, Text \ {"SP"})
      /\ Span(t, j + 6, d - 1, Digit) /\ Span(t, d + 1, e - 1, Digit)
      /\ \A m \in 1..5 : t[j + m] = Http[m]
  BY DEF Verb, Uri, Major, Slash
<1>0. 1 < i /\ i < j /\ j + 6 < d /\ d < e - 1 /\ e <= Len(t) /\ Len(t) \in Nat /\ e \in Nat
  BY <1>1
<1>2. Clean(t, 1, e - 1)
  <2> SUFFICES ASSUME NEW x \in 1..e - 1 PROVE t[x] # "CR"
    BY DEF Clean
  <2>1. \/ x \in 1..i - 1 \/ x = i \/ x \in i + 1..j - 1 \/ x = j \/ x \in j + 1..j + 5
        \/ x \in j + 6..d - 1 \/ x = d \/ x \in d + 1..e - 1
    BY <1>1
  <2>2. CASE x \in j + 1..j + 5
    <3>1. x - j \in 1..5 /\ j + (x - j) = x
      BY <2>2
    <3>2. \A m \in 1..5 : Http[m] # "CR"
      BY DEF Http
    <3> QED
      BY <1>1, <3>1, <3>2
  <2> QED
    BY <1>1, <2>1, <2>2, Classes DEF Span
<1>3. Line(t, 1) = l
  <2>1. 1 \in 1..Len(t) /\ e \in 1..Len(t)
    OBVIOUS
  <2> QED
    BY <1>2, <2>1, CleanLine
<1>4. l \in Seq(Symbol) /\ Len(l) = e - 1 /\ \A x \in 1..e - 1 : l[x] = t[x]
  OBVIOUS
<1> HIDE DEF l
<1>5. RequestLineAt(l, i, j, d)
  <2>0. /\ \A x \in 1..i - 1 : x \in 1..e - 1
        /\ \A x \in i + 1..j - 1 : x \in 1..e - 1
        /\ \A x \in j + 6..d - 1 : x \in 1..e - 1
        /\ \A x \in d + 1..e - 1 : x \in 1..e - 1
        /\ \A m \in 1..5 : j + m \in 1..e - 1
        /\ i \in 1..e - 1 /\ j \in 1..e - 1 /\ d \in 1..e - 1
    BY <1>0
  <2>1. /\ Span(l, 1, i - 1, Token) /\ Span(l, i + 1, j - 1, Text \ {"SP"})
        /\ Span(l, j + 6, d - 1, Digit) /\ Span(l, d + 1, Len(l), Digit)
    BY <1>1, <1>4, <2>0 DEF Span
  <2>2. \A m \in 1..5 : l[j + m] = Http[m]
    <3> TAKE m \in 1..5
    <3> QED
      BY <1>1, <1>4, <2>0
  <2> QED
    <3>1. l[i] = "SP" /\ l[j] = "SP" /\ l[d] = "."
      BY <1>1, <1>4, <2>0
    <3> QED
      BY <1>0, <1>4, <2>1, <2>2, <3>1 DEF RequestLineAt
<1>6. IsRequestLine(l)
  BY <1>4, <1>5, RequestLineIs
<1>7. Find(t, 1, "SP") = i /\ Find(t, i + 1, "SP") = j
  <2>1. i \in 1..Len(t) /\ j \in i + 1..Len(t) /\ i + 1 \in Nat \ {0}
        /\ 1 \in Nat \ {0} /\ i \in 1..Len(t)
    BY <1>0
  <2>2. (\A x \in 1..i - 1 : t[x] # "SP") /\ \A x \in i + 1..j - 1 : t[x] # "SP"
    BY <1>1, Classes DEF Span
  <2> QED
    <3>1. t[i] = "SP" /\ t[j] = "SP"
      BY <1>1
    <3>2. Find(t, 1, "SP") = i
      BY <2>1, <2>2, <3>1, FindIs
    <3>3. Find(t, i + 1, "SP") = j
      BY <2>1, <2>2, <3>1, FindIs
    <3> QED
      BY <3>2, <3>3
<1> QED
  BY <1>2, <1>3, <1>6, <1>7 DEF Method, Target

(* Where the first header line starts there are no headers yet.            *)
LEMMA FirstStart ==
  ASSUME NEW t \in Seq(Symbol), NEW e \in 1..Len(t), Clean(t, 1, e - 1), Crlf(t, e),
         IsRequestLine(Line(t, 1))
  PROVE  Before(t, e + 2) /\ HeadersTo(t, e + 1) = <<>> /\ e + 1 <= Len(t)
<1>1. e + 1 <= Len(t) /\ e + 1 \in 1..Len(t) /\ 1 \in 1..Len(t) /\ 1 \in 0..Len(t)
  BY DEF Crlf
<1>2. \A a \in 2..e + 1 : ~StartsLine(t, a)
  <2>1. 1 \in 1..Len(t) + 1 /\ e - 1 \in 1 - 1..Len(t) /\ 1 + 1 = 2 /\ (e - 1) + 2 = e + 1
    OBVIOUS
  <2>2. StartsLine(t, 1)
    BY DEF StartsLine
  <2> QED
    BY <2>1, <2>2, NoStart
<1>3. HeadersTo(t, e + 1) = HeadersTo(t, 1) /\ HeadersTo(t, 1) = <<>>
  BY <1>1, <1>2, HeadersKeep, HeadersStep
<1>4. e + 2 > 2 /\ (e + 2) - 2 = e /\ (e + 2) - 1 = e + 1
  OBVIOUS
<1> QED
  BY <1>1, <1>2, <1>3, <1>4 DEF Before

LEMMA FirstStep ==
  ASSUME NEW q \in Parsing, NEW t \in Seq(Symbol), NEW k \in 0..Len(t) - 1, Knows(q, t, k),
         NEW r \in RequestLineRules, r.from = q.state, t[k + 1] \in r.on
  PROVE  Knows(Apply(q, r, t[k + 1]), t, k + 1)
<1> DEFINE c == t[k + 1]
           e == Apply(q, r, c)
           n == k + 1
<1>1. /\ n \in 1..Len(t) /\ k \in Nat /\ Len(t) \in Nat /\ c \in Symbol /\ c = t[n]
      /\ q \in Requests0 /\ r \in Rules
  BY DEF Parsing, Rules
<1>2. /\ r.does \in {"method", "uri", "skip"}
  BY FirstRules DEF Is
<1>3. /\ e.state = r.to
      /\ e.method = IF r.does = "method" THEN Append(q.method, c) ELSE q.method
      /\ e.uri = IF r.does = "uri" THEN Append(q.uri, c) ELSE q.uri
      /\ NoneYet(q) => NoneYet(e)
  BY <1>1, <1>2, ApplyIs DEF NoneYet
<1> HIDE DEF c, e, n
<1>more. \A a \in 1..n : /\ SubSeq(t, a, n) = Append(SubSeq(t, a, k), c)
                         /\ k < a => SubSeq(t, a, k) = <<>>
                         /\ \A S : Span(t, a, k, S) /\ c \in S => Span(t, a, n, S)
  <2> TAKE a \in 1..n
  <2>1. a \in 1..Len(t) /\ a <= k + 1 /\ a \in Nat /\ k \in Nat /\ k \in 0..Len(t) - 1
    BY <1>1 DEF n
  <2> QED
    BY <2>1, SubSeqMore, SpanMore DEF c, n
<1>ext. /\ Append(<<>>, c) = <<c>> /\ \A S : \A a \in n..n : c \in S => Span(t, a, n, S)
        /\ \A S : Span(t, n + 1, n, S)
  BY <1>1 DEF Span, n
<1>4. CASE Is(r, "method_start", Token, "method", "method")
  <2>1. AtMethodStart(q, t, k) /\ e.state = "method" /\ c \in Token
        /\ e.method = Append(q.method, c) /\ e.uri = q.uri
    BY <1>3, <1>4 DEF Is, Knows, c
  <2>2. n = 1 /\ Span(t, 1, n, Token) /\ SubSeq(t, 1, n) = <<c>>
    <3>1. k = 0
      BY <2>1 DEF AtMethodStart
    <3>2. n = 1 /\ 1 \in 1..n /\ 1 \in n..n /\ k < 1
      BY <3>1 DEF n
    <3>3. SubSeq(t, 1, n) = Append(<<>>, c)
      BY <1>more, <3>2
    <3>4. Span(t, 1, n, Token)
      BY <2>1, <3>2 DEF Span, c, n
    <3> QED
      BY <1>ext, <3>2, <3>3, <3>4
  <2>3. AtMethod(e, t, n)
    <3>2. NoneYet(q) /\ q.method = <<>> /\ q.uri = <<>>
      BY <2>1 DEF AtMethodStart
    <3>3. Append(<<>>, c) = <<c>>
      BY <1>ext
    <3>4. e.method = <<c>>
      BY <2>1, <3>2, <3>3
    <3>5. n = 1
      BY <2>2
    <3>1. e.uri = <<>> /\ NoneYet(e)
      BY <1>3, <2>1, <3>2
    <3>6. n >= 1
      BY <3>5
    <3> QED
      BY <2>2, <3>1, <3>4, <3>6 DEF AtMethod
  <2> QED
    BY <2>1, <2>3, Tells DEF e, c, n
<1>5. CASE Is(r, "method", {"SP"}, "uri", "skip")
  <2>1. AtMethod(q, t, k) /\ e.state = "uri" /\ c = "SP"
        /\ e.method = q.method /\ e.uri = q.uri
    BY <1>3, <1>5 DEF Is, Knows, c
  <2>2. /\ Verb(t, n) /\ n \in 1..n /\ n - 1 = k
        /\ SubSeq(t, n + 1, n) = <<>>
    BY <1>1, <2>1 DEF AtMethod, Verb, n
  <2>3. AtUri(e, t, n)
    BY <1>3, <1>ext, <2>1, <2>2 DEF AtMethod, AtUri
  <2> QED
    BY <2>1, <2>3, Tells DEF e, c, n
<1>6. CASE Is(r, "method", Token, "method", "method")
  <2>1. AtMethod(q, t, k) /\ e.state = "method" /\ c \in Token
        /\ e.method = Append(q.method, c) /\ e.uri = q.uri
    BY <1>3, <1>6 DEF Is, Knows, c
  <2>2. 1 \in 1..n /\ n >= 1
    BY <1>1
  <2>3. AtMethod(e, t, n)
    BY <1>3, <1>more, <2>1, <2>2 DEF AtMethod
  <2> QED
    BY <2>1, <2>3, Tells DEF e, c, n
<1>7. CASE Is(r, "uri", {"SP"}, "http_version_h", "skip")
  <2>1. AtUri(q, t, k) /\ e.state = "http_version_h" /\ c = "SP"
        /\ e.method = q.method /\ e.uri = q.uri
    BY <1>3, <1>7 DEF Is, Knows, c
  <2>2. PICK i \in 1..k : /\ Verb(t, i) /\ Span(t, i + 1, k, Text \ {"SP"})
                          /\ q.method = SubSeq(t, 1, i - 1) /\ q.uri = SubSeq(t, i + 1, k)
    BY <2>1 DEF AtUri
  <2>3. i < n /\ i \in 1..n /\ n \in 1..n /\ n - 1 = k /\ n = n + 0
    BY <1>1 DEF n
  <2>4. Asked(e, t, i, n) /\ Slash(t, n, 0)
    BY <1>1, <2>1, <2>2, <2>3 DEF Asked, Uri, Slash
  <2>5. AtHttp(e, t, n, 0)
    BY <1>3, <2>1, <2>3, <2>4 DEF AtHttp, AtUri
  <2>6. 0 \in 0..5 /\ e.state = HttpStates[0 + 1]
    BY <2>1, HttpNames
  <2> QED
    BY <2>5, <2>6, Tells DEF e, c, n
<1>8. CASE Is(r, "uri", Text \ {"SP"}, "uri", "uri")
  <2>1. AtUri(q, t, k) /\ e.state = "uri" /\ c \in Text \ {"SP"}
        /\ e.method = q.method /\ e.uri = Append(q.uri, c)
    BY <1>3, <1>8 DEF Is, Knows, c
  <2>2. PICK i \in 1..k : /\ Verb(t, i) /\ Span(t, i + 1, k, Text \ {"SP"})
                          /\ q.method = SubSeq(t, 1, i - 1) /\ q.uri = SubSeq(t, i + 1, k)
    BY <2>1 DEF AtUri
  <2>3. i + 1 \in 1..n /\ i \in 1..n
    BY <1>1 DEF n
  <2>4. AtUri(e, t, n)
    BY <1>3, <1>more, <2>1, <2>2, <2>3 DEF AtUri
  <2> QED
    BY <2>1, <2>4, Tells DEF e, c, n
<1>9. CASE \E m \in 0..4 : Is(r, HttpStates[m + 1], {Http[m + 1]}, HttpStates[m + 2], "skip")
  <2>1. PICK m \in 0..4 : Is(r, HttpStates[m + 1], {Http[m + 1]}, HttpStates[m + 2], "skip")
    BY <1>9
  <2>2. m \in 0..5 /\ m + 1 \in 0..5 /\ (m + 1) + 1 = m + 2
    OBVIOUS
  <2>3. AtHttp(q, t, k, m) /\ e.state = HttpStates[(m + 1) + 1] /\ c = Http[m + 1]
        /\ e.method = q.method /\ e.uri = q.uri
    BY <1>3, <2>1, <2>2 DEF Is, Knows, c
  <2>4. PICK i \in 1..k, j \in 1..k : Asked(q, t, i, j) /\ k = j + m /\ Slash(t, j, m)
    BY <2>3 DEF AtHttp
  <2>5. n = j + (m + 1) /\ i \in 1..n /\ j \in 1..n
    BY <1>1, <2>4 DEF n
  <2>6. Slash(t, j, m + 1)
    <3> SUFFICES ASSUME NEW x \in 1..m + 1 PROVE t[j + x] = Http[x]
      BY DEF Slash
    <3>1. x \in 1..m \/ x = m + 1
      OBVIOUS
    <3> QED
      BY <1>1, <2>3, <2>4, <2>5, <3>1 DEF Slash
  <2>7. Asked(e, t, i, j)
    BY <2>3, <2>4 DEF Asked
  <2>8. AtHttp(e, t, n, m + 1)
    BY <1>3, <2>3, <2>5, <2>6, <2>7 DEF AtHttp
  <2> QED
    BY <2>2, <2>3, <2>8, Tells DEF e, c, n
<1>10. CASE Is(r, "http_version_major_start", Digit, "http_version_major", "skip")
  <2>1. AtHttp(q, t, k, 5) /\ e.state = "http_version_major" /\ c \in Digit
        /\ e.method = q.method /\ e.uri = q.uri
    <3>1. 5 \in 0..5 /\ HttpStates[5 + 1] = "http_version_major_start"
      BY HttpNames
    <3> QED
      BY <1>3, <1>10, <3>1 DEF Is, Knows, c
  <2>2. PICK i \in 1..k, j \in 1..k : Asked(q, t, i, j) /\ k = j + 5 /\ Slash(t, j, 5)
    BY <2>1 DEF AtHttp
  <2>3. n = j + 6 /\ i \in 1..n /\ j \in 1..n /\ j + 6 \in n..n /\ j + 6 <= n
    BY <1>1, <2>2 DEF n
  <2>4. Asked(e, t, i, j) /\ Span(t, j + 6, n, Digit)
    BY <1>ext, <2>1, <2>2, <2>3 DEF Asked
  <2>5. AtMajor(e, t, n)
    BY <1>3, <2>1, <2>2, <2>3, <2>4 DEF AtHttp, AtMajor
  <2> QED
    BY <2>1, <2>5, Tells DEF e, c, n
<1>11. CASE Is(r, "http_version_major", {"."}, "http_version_minor_start", "skip")
  <2>1. AtMajor(q, t, k) /\ e.state = "http_version_minor_start" /\ c = "."
        /\ e.method = q.method /\ e.uri = q.uri
    BY <1>3, <1>11 DEF Is, Knows, c
  <2>2. PICK i \in 1..k, j \in 1..k :
          Asked(q, t, i, j) /\ Slash(t, j, 5) /\ j + 6 <= k /\ Span(t, j + 6, k, Digit)
    BY <2>1 DEF AtMajor
  <2>3. n - 1 = k /\ i \in 1..n /\ j \in 1..n /\ j + 6 < n
    BY <1>1, <2>2 DEF n
  <2>4. Asked(e, t, i, j) /\ Major(t, j, n)
    BY <1>1, <2>1, <2>2, <2>3 DEF Asked, Major
  <2>5. AtDot(e, t, n)
    BY <1>3, <2>1, <2>2, <2>3, <2>4 DEF AtMajor, AtDot
  <2> QED
    BY <2>1, <2>5, Tells DEF e, c, n
<1>12. CASE Is(r, "http_version_major", Digit, "http_version_major", "skip")
  <2>1. AtMajor(q, t, k) /\ e.state = "http_version_major" /\ c \in Digit
        /\ e.method = q.method /\ e.uri = q.uri
    BY <1>3, <1>12 DEF Is, Knows, c
  <2>2. PICK i \in 1..k, j \in 1..k :
          Asked(q, t, i, j) /\ Slash(t, j, 5) /\ j + 6 <= k /\ Span(t, j + 6, k, Digit)
    BY <2>1 DEF AtMajor
  <2>3. i \in 1..n /\ j \in 1..n /\ j + 6 <= n /\ j + 6 \in 1..n
    BY <1>1, <2>2 DEF n
  <2>4. Asked(e, t, i, j) /\ Span(t, j + 6, n, Digit)
    BY <1>more, <2>1, <2>2, <2>3 DEF Asked
  <2>5. AtMajor(e, t, n)
    BY <1>3, <2>1, <2>2, <2>3, <2>4 DEF AtMajor
  <2> QED
    BY <2>1, <2>5, Tells DEF e, c, n
<1>13. CASE Is(r, "http_version_minor_start", Digit, "http_version_minor", "skip")
  <2>1. AtDot(q, t, k) /\ e.state = "http_version_minor" /\ c \in Digit
        /\ e.method = q.method /\ e.uri = q.uri
    BY <1>3, <1>13 DEF Is, Knows, c
  <2>2. PICK i \in 1..k, j \in 1..k :
          Asked(q, t, i, j) /\ Slash(t, j, 5) /\ Major(t, j, k)
    BY <2>1 DEF AtDot
  <2>3. i \in 1..n /\ j \in 1..n /\ k \in 1..n /\ k < n /\ k + 1 \in n..n
    BY <1>1, <2>2 DEF n
  <2>4. Asked(e, t, i, j) /\ Span(t, k + 1, n, Digit)
    BY <1>ext, <2>1, <2>2, <2>3 DEF Asked
  <2>5. AtMinor(e, t, n)
    BY <1>3, <2>1, <2>2, <2>3, <2>4 DEF AtDot, AtMinor
  <2> QED
    BY <2>1, <2>5, Tells DEF e, c, n
<1>14. CASE Is(r, "http_version_minor", {"CR"}, "expecting_newline_1", "skip")
  <2>1. AtMinor(q, t, k) /\ e.state = "expecting_newline_1" /\ c = "CR"
        /\ e.method = q.method /\ e.uri = q.uri
    BY <1>3, <1>14 DEF Is, Knows, c
  <2>2. PICK i \in 1..k, j \in 1..k, d \in 1..k :
          /\ Asked(q, t, i, j) /\ Slash(t, j, 5) /\ Major(t, j, d)
          /\ d < k /\ Span(t, d + 1, k, Digit)
    BY <2>1 DEF AtMinor
  <2>3. i \in 1..n /\ j \in 1..n /\ d \in 1..n /\ d < n - 1 /\ n - 1 = k
    BY <1>1, <2>2 DEF n
  <2>4. Asked(e, t, i, j)
    BY <2>1, <2>2 DEF Asked
  <2>5. AtCr1(e, t, n)
    BY <1>1, <1>3, <2>1, <2>2, <2>3, <2>4 DEF AtMinor, AtCr1
  <2> QED
    BY <2>1, <2>5, Tells DEF e, c, n
<1>15. CASE Is(r, "http_version_minor", Digit, "http_version_minor", "skip")
  <2>1. AtMinor(q, t, k) /\ e.state = "http_version_minor" /\ c \in Digit
        /\ e.method = q.method /\ e.uri = q.uri
    BY <1>3, <1>15 DEF Is, Knows, c
  <2>2. PICK i \in 1..k, j \in 1..k, d \in 1..k :
          /\ Asked(q, t, i, j) /\ Slash(t, j, 5) /\ Major(t, j, d)
          /\ d < k /\ Span(t, d + 1, k, Digit)
    BY <2>1 DEF AtMinor
  <2>3. i \in 1..n /\ j \in 1..n /\ d \in 1..n /\ d < n /\ d + 1 \in 1..n
    BY <1>1, <2>2 DEF n
  <2>4. Asked(e, t, i, j) /\ Span(t, d + 1, n, Digit)
    BY <1>more, <2>1, <2>2, <2>3 DEF Asked
  <2>5. AtMinor(e, t, n)
    BY <1>3, <2>1, <2>2, <2>3, <2>4 DEF AtMinor
  <2> QED
    BY <2>1, <2>5, Tells DEF e, c, n
<1>16. CASE Is(r, "expecting_newline_1", {"LF"}, "header_line_start", "skip")
  <2>1. AtCr1(q, t, k) /\ e.state = "header_line_start" /\ c = "LF"
        /\ e.method = q.method /\ e.uri = q.uri
    BY <1>3, <1>16 DEF Is, Knows, c
  <2>2. PICK i \in 1..k, j \in 1..k, d \in 1..k :
          /\ Asked(q, t, i, j) /\ Slash(t, j, 5) /\ Major(t, j, d)
          /\ d < k - 1 /\ Span(t, d + 1, k - 1, Digit) /\ t[k] = "CR"
    BY <2>1 DEF AtCr1
  <2>3. Crlf(t, k) /\ k \in 1..Len(t) /\ k + 2 = n + 1
    BY <1>1, <2>1, <2>2 DEF Crlf, n
  <2>4. /\ Clean(t, 1, k - 1) /\ IsRequestLine(Line(t, 1))
        /\ Method(t) = SubSeq(t, 1, i - 1) /\ Target(t) = SubSeq(t, i + 1, j - 1)
    <3>1. i \in Nat /\ j \in Nat /\ d \in Nat /\ d < k - 1
      BY <2>2
    <3>2. Verb(t, i) /\ Uri(t, i, j)
      BY <2>2 DEF Asked
    <3> QED
      BY <2>2, <2>3, <3>1, <3>2, FirstLine
  <2>5. Before(t, n + 1) /\ HeadersTo(t, n) = <<>>
    BY <2>3, <2>4, FirstStart DEF n
  <2>6. Named(e, t)
    BY <1>3, <2>1, <2>2, <2>4 DEF Named, Asked, AtCr1, NoneYet
  <2>7. Filled(e, <<>>)
    <3>1. Len(<<>>) = 0
      OBVIOUS
    <3>2. ~Holds(<<>>, "Content-Length") /\ Holds(<<>>, "Content-Length") \in BOOLEAN
      BY <3>1 DEF Holds
    <3>3. LengthOf(<<>>) = 0
      BY <3>2 DEF LengthOf
    <3> QED
      BY <1>3, <2>1, <3>2, <3>3 DEF Filled, AtCr1, NoneYet, CL
  <2>8. AtLine(e, t, n)
    BY <2>5, <2>6, <2>7 DEF AtLine
  <2> QED
    BY <2>1, <2>8, Tells DEF e, c, n
<1> QED
  BY <1>4, <1>5, <1>6, <1>7, <1>8, <1>9, <1>10, <1>11, <1>12, <1>13, <1>14, <1>15, <1>16,
     FirstRules
-----------------------------------------------------------------------------
(* The last header, symbol by symbol.                                      *)
LEMMA SameHeaders ==
  ASSUME NEW hs \in Seq(HeaderRec), NEW ks \in Seq(HeaderRec), hs # <<>>,
         Len(ks) = Len(hs), \A i \in 1..Len(hs) - 1 : ks[i] = hs[i],
         ks[Len(hs)] = hs[Len(hs)]
  PROVE  ks = hs
<1>1. Len(hs) \in Nat \ {0}
  OBVIOUS
<1>2. \A i \in 1..Len(hs) : i \in 1..Len(hs) - 1 \/ i = Len(hs)
  BY <1>1
<1>3. \A i \in 1..Len(hs) : ks[i] = hs[i]
  BY <1>2
<1> QED
  BY <1>3, SeqEqual

LEMMA ExtendNothing ==
  ASSUME NEW hs \in Seq(HeaderRec), hs # <<>>
  PROVE  Extend(hs, <<>>) = hs
<1> DEFINE x == hs[Len(hs)]
<1>1. Len(hs) \in 1..Len(hs) /\ x \in HeaderRec /\ <<>> \in Seq(Symbol)
  OBVIOUS
<1>2. x.value \o <<>> = x.value /\ x = [name |-> x.name, value |-> x.value]
  <2> HIDE DEF x
  <2> QED
    BY <1>1 DEF HeaderRec
<1>3. Extend(hs, <<>>)[Len(hs)] = x
  BY <1>1, <1>2, ExtendIs
<1> QED
  BY <1>1, <1>3, ExtendIs, SameHeaders

LEMMA ExtendBy ==
  ASSUME NEW hs \in Seq(HeaderRec), hs # <<>>, NEW c \in Symbol
  PROVE  [hs EXCEPT ![Len(hs)].value = Append(@, c)] = Extend(hs, <<c>>)
<1> DEFINE x == hs[Len(hs)]
<1>1. Len(hs) \in 1..Len(hs) /\ x \in HeaderRec
  OBVIOUS
<1>2. x.value \in Seq(Symbol)
  BY <1>1 DEF HeaderRec
<1>3. x.value \o <<c>> = Append(x.value, c)
  <2> HIDE DEF x
  <2> QED
    BY <1>2
<1> QED
  BY <1>3 DEF Extend

LEMMA ExtendMore ==
  ASSUME NEW hs \in Seq(HeaderRec), hs # <<>>, NEW v \in Seq(Symbol), NEW c \in Symbol
  PROVE  Extend(Extend(hs, v), <<c>>) = Extend(hs, Append(v, c))
<1> DEFINE x == hs[Len(hs)]
           a == Extend(hs, v)
           w == Append(v, c)
<1>1. Len(hs) \in 1..Len(hs) /\ x \in HeaderRec /\ <<c>> \in Seq(Symbol) /\ w \in Seq(Symbol)
  OBVIOUS
<1>2. x.value \in Seq(Symbol)
  BY <1>1 DEF HeaderRec
<1>3. (x.value \o v) \o <<c>> = x.value \o w
  <2> HIDE DEF x
  <2>1. w = v \o <<c>>
    BY AppendIsConcat
  <2>2. (x.value \o v) \o <<c>> = x.value \o (v \o <<c>>)
    <3>1. ASSUME NEW y \in Seq(Symbol), NEW u \in Seq(Symbol)
          PROVE  (y \o v) \o u = y \o (v \o u)
      BY ConcatAssociative
    <3>2. <<c>> \in Seq(Symbol)
      OBVIOUS
    <3> HIDE DEF x
    <3> QED
      BY <1>2, <3>1, <3>2
  <2> QED
    BY <2>1, <2>2
<1>4. /\ a \in Seq(HeaderRec) /\ Len(a) = Len(hs) /\ a # <<>>
      /\ \A i \in 1..Len(hs) - 1 : a[i] = hs[i]
      /\ a[Len(hs)] = [name |-> x.name, value |-> x.value \o v]
  <2>1. /\ a \in Seq(HeaderRec) /\ Len(a) = Len(hs)
        /\ \A i \in 1..Len(hs) - 1 : a[i] = hs[i]
        /\ a[Len(hs)] = [name |-> x.name, value |-> x.value \o v]
    BY ExtendIs
  <2> HIDE DEF a
  <2>2. a # <<>>
    BY <1>1, <2>1
  <2> QED
    BY <2>1, <2>2
<1> HIDE DEF a
<1>5. /\ Extend(a, <<c>>) \in Seq(HeaderRec) /\ Len(Extend(a, <<c>>)) = Len(hs)
      /\ \A i \in 1..Len(hs) - 1 : Extend(a, <<c>>)[i] = hs[i]
      /\ Extend(a, <<c>>)[Len(hs)] = [name |-> x.name, value |-> (x.value \o v) \o <<c>>]
  <2>1. a[Len(hs)].name = x.name /\ a[Len(hs)].value = x.value \o v
    BY <1>4
  <2>2. /\ Extend(a, <<c>>) \in Seq(HeaderRec) /\ Len(Extend(a, <<c>>)) = Len(a)
        /\ \A i \in 1..Len(a) - 1 : Extend(a, <<c>>)[i] = a[i]
        /\ Extend(a, <<c>>)[Len(a)] = [name |-> a[Len(a)].name, value |-> a[Len(a)].value \o <<c>>]
    BY <1>1, <1>4, ExtendIs
  <2> QED
    BY <1>4, <2>1, <2>2
<1> HIDE DEF w
<1>6. /\ Extend(hs, w) \in Seq(HeaderRec) /\ Len(Extend(hs, w)) = Len(hs)
      /\ \A i \in 1..Len(hs) - 1 : Extend(hs, w)[i] = hs[i]
      /\ Extend(hs, w)[Len(hs)] = [name |-> x.name, value |-> x.value \o w]
  BY <1>1, ExtendIs
<1> DEFINE f == Extend(a, <<c>>)
           g == Extend(hs, w)
<1>7. f = g
  <2>1. /\ f \in Seq(HeaderRec) /\ g \in Seq(HeaderRec) /\ Len(f) = Len(g)
        /\ \A i \in 1..Len(g) - 1 : f[i] = g[i]
        /\ f[Len(g)] = g[Len(g)]
    BY <1>3, <1>5, <1>6
  <2>2. Len(g) = Len(hs) /\ Len(hs) # 0
    BY <1>1, <1>6
  <2> HIDE DEF f, g
  <2>3. g # <<>>
    BY <2>1, <2>2
  <2> QED
    BY <2>1, <2>3, SameHeaders
<1> QED
  BY <1>7 DEF a, w

Appends(p, hs, h) == p = Append(hs, h)

LEMMA SetLast ==
  ASSUME NEW p \in Seq(HeaderRec), p # <<>>, NEW x \in HeaderRec,
         NEW f, f = [p EXCEPT ![Len(p)] = x]
  PROVE  /\ f \in Seq(HeaderRec) /\ Len(f) = Len(p) /\ f[Len(p)] = x
         /\ \A i \in 1..Len(p) - 1 : f[i] = p[i]
<1>1. Len(p) \in 1..Len(p)
  OBVIOUS
<1> QED
  BY <1>1

LEMMA ExtendLast ==
  ASSUME NEW hs \in Seq(HeaderRec), NEW s \in Seq(Symbol), NEW v \in Seq(Symbol),
         NEW c \in Symbol, NEW w, Appends(w, v, c),
         NEW p, Appends(p, hs, [name |-> s, value |-> v])
  PROVE  Appends(Extend(p, <<c>>), hs, [name |-> s, value |-> w])
<1> DEFINE R(x, y) == [name |-> x, value |-> y]
           n == Len(hs)
<1>1. w \in Seq(Symbol) /\ w = v \o <<c>> /\ n \in Nat /\ <<c>> \in Seq(Symbol)
  <2>1. w = Append(v, c)
    BY DEF Appends
  <2> QED
    BY <2>1
<1>2. \A x, y \in Seq(Symbol) : R(x, y) \in HeaderRec /\ R(x, y).name = x /\ R(x, y).value = y
  BY DEF HeaderRec
<1>3. \A x, y \in Seq(Symbol) :
        /\ Append(hs, R(x, y)) \in Seq(HeaderRec) /\ Len(Append(hs, R(x, y))) = n + 1
        /\ Append(hs, R(x, y))[n + 1] = R(x, y)
        /\ \A i \in 1..n : Append(hs, R(x, y))[i] = hs[i]
        /\ Append(hs, R(x, y)) # <<>>
  <2> TAKE x, y \in Seq(Symbol)
  <2>1. R(x, y) \in HeaderRec
    BY <1>2
  <2> HIDE DEF R
  <2>2. /\ Append(hs, R(x, y)) \in Seq(HeaderRec) /\ Len(Append(hs, R(x, y))) = n + 1
        /\ Append(hs, R(x, y))[n + 1] = R(x, y)
        /\ \A i \in 1..n : Append(hs, R(x, y))[i] = hs[i]
    BY <2>1
  <2> DEFINE a == Append(hs, R(x, y))
  <2>3. a # <<>>
    <3>1. a \in Seq(HeaderRec) /\ Len(a) # 0
      BY <1>1, <2>2
    <3> HIDE DEF a
    <3> QED
      BY <3>1
  <2> QED
    BY <2>2, <2>3
<1>4. Extend(p, <<c>>) = Append(hs, R(s, w))
  <2> DEFINE f == Extend(p, <<c>>)
             g == Append(hs, R(s, w))
  <2>1. /\ f \in Seq(HeaderRec) /\ Len(f) = n + 1 /\ \A i \in 1..n : f[i] = hs[i]
        /\ f[n + 1] = R(s, w)
    <3>1. /\ p \in Seq(HeaderRec) /\ Len(p) = n + 1 /\ p[n + 1] = R(s, v) /\ p # <<>>
          /\ \A i \in 1..n : p[i] = hs[i]
      <4>1. p = Append(hs, R(s, v))
        BY DEF Appends
      <4> QED
        BY <1>3, <4>1
    <3>2. R(s, v).name = s /\ R(s, v).value = v
      OBVIOUS
    <3> HIDE DEF f
    <3>3. /\ Extend(p, <<c>>) \in Seq(HeaderRec) /\ Len(Extend(p, <<c>>)) = Len(p)
          /\ \A i \in 1..Len(p) - 1 : Extend(p, <<c>>)[i] = p[i]
          /\ Extend(p, <<c>>)[Len(p)] = R(p[Len(p)].name, p[Len(p)].value \o <<c>>)
      BY <1>1, <3>1, ExtendIs
    <3> HIDE DEF R
    <3>4. f[n + 1] = R(s, w) /\ (n + 1) - 1 = n
      BY <1>1, <3>1, <3>2, <3>3 DEF f
    <3> QED
      BY <3>1, <3>3, <3>4 DEF f
  <2>2. /\ g \in Seq(HeaderRec) /\ Len(g) = n + 1 /\ \A i \in 1..n : g[i] = hs[i]
        /\ g[n + 1] = R(s, w) /\ g # <<>>
    BY <1>1, <1>3
  <2> HIDE DEF f, g, R, n
  <2>3. Len(g) - 1 = n
    BY <1>1, <2>2
  <2> QED
    BY <2>1, <2>2, <2>3, SameHeaders DEF f, g
<1> QED
  BY <1>4 DEF Appends

LEMMA NameLast ==
  ASSUME NEW hs \in Seq(HeaderRec), NEW s \in Seq(Symbol), NEW v \in Seq(Symbol),
         NEW c \in Symbol, NEW z, Appends(z, s, c),
         NEW p, Appends(p, hs, [name |-> s, value |-> v])
  PROVE  Appends([p EXCEPT ![Len(p)].name = Append(@, c)], hs, [name |-> z, value |-> v])
<1> DEFINE R(x, y) == [name |-> x, value |-> y]
           n == Len(hs)
<1>1. z \in Seq(Symbol) /\ z = Append(s, c) /\ n \in Nat
  <2>1. z = Append(s, c)
    BY DEF Appends
  <2> QED
    BY <2>1
<1>2. \A x, y \in Seq(Symbol) : R(x, y) \in HeaderRec /\ R(x, y).name = x /\ R(x, y).value = y
  BY DEF HeaderRec
<1>3. \A x, y \in Seq(Symbol) :
        /\ Append(hs, R(x, y)) \in Seq(HeaderRec) /\ Len(Append(hs, R(x, y))) = n + 1
        /\ Append(hs, R(x, y))[n + 1] = R(x, y)
        /\ \A i \in 1..n : Append(hs, R(x, y))[i] = hs[i]
        /\ Append(hs, R(x, y)) # <<>>
  <2> TAKE x, y \in Seq(Symbol)
  <2>1. R(x, y) \in HeaderRec
    BY <1>2
  <2> HIDE DEF R
  <2>2. /\ Append(hs, R(x, y)) \in Seq(HeaderRec) /\ Len(Append(hs, R(x, y))) = n + 1
        /\ Append(hs, R(x, y))[n + 1] = R(x, y)
        /\ \A i \in 1..n : Append(hs, R(x, y))[i] = hs[i]
    BY <2>1
  <2> DEFINE a == Append(hs, R(x, y))
  <2>3. a # <<>>
    <3>1. a \in Seq(HeaderRec) /\ Len(a) # 0
      BY <1>1, <2>2
    <3> HIDE DEF a
    <3> QED
      BY <3>1
  <2> QED
    BY <2>2, <2>3
<1>4. [p EXCEPT ![Len(p)].name = Append(@, c)] = Append(hs, R(z, v))
  <2> DEFINE f == [p EXCEPT ![Len(p)].name = Append(@, c)]
             g == Append(hs, R(z, v))
             x == [p[Len(p)] EXCEPT !.name = Append(@, c)]
  <2>1. /\ p \in Seq(HeaderRec) /\ Len(p) = n + 1 /\ p[n + 1] = R(s, v) /\ p # <<>>
        /\ \A i \in 1..n : p[i] = hs[i]
    <3>1. p = Append(hs, R(s, v))
      BY DEF Appends
    <3> QED
      BY <1>3, <3>1
  <2>2. x = R(z, v)
    <3>1. p[Len(p)] = R(s, v)
      BY <2>1
    <3> DEFINE y == p[Len(p)]
    <3>2. y \in HeaderRec /\ y.name = s /\ y.value = v
      BY <1>2, <3>1
    <3>3. x = [y EXCEPT !.name = z]
      BY <1>1, <3>2
    <3> HIDE DEF y, x
    <3>4. x = [name |-> z, value |-> v]
      BY <1>1, <3>2, <3>3 DEF HeaderRec
    <3> QED
      BY <3>4
  <2>3. f = [p EXCEPT ![Len(p)] = x]
    OBVIOUS
  <2> HIDE DEF x, f
  <2>4. R(z, v) \in HeaderRec
    BY <1>1, <1>2
  <2> HIDE DEF R
  <2>5. /\ f \in Seq(HeaderRec) /\ Len(f) = n + 1 /\ \A i \in 1..n : f[i] = hs[i]
        /\ f[n + 1] = R(z, v)
    <3>1. /\ f \in Seq(HeaderRec) /\ Len(f) = Len(p) /\ f[Len(p)] = R(z, v)
          /\ \A i \in 1..Len(p) - 1 : f[i] = p[i]
      BY <2>1, <2>2, <2>3, <2>4, SetLast
    <3>2. Len(p) - 1 = n
      BY <1>1, <2>1
    <3> QED
      BY <2>1, <3>1, <3>2
  <2>6. /\ g \in Seq(HeaderRec) /\ Len(g) = n + 1 /\ \A i \in 1..n : g[i] = hs[i]
        /\ g[n + 1] = R(z, v) /\ g # <<>>
    BY <1>1, <1>3
  <2> HIDE DEF g, n
  <2>7. Len(g) - 1 = n
    BY <1>1, <2>6
  <2> QED
    BY <2>5, <2>6, <2>7, SameHeaders DEF f, g
<1> QED
  BY <1>4 DEF Appends
-----------------------------------------------------------------------------
(* The header lines.                                                       *)
LEMMA BeforeIs ==
  ASSUME NEW t \in Seq(Symbol), NEW b \in 1..Len(t) + 1, Before(t, b)
  PROVE  /\ StartsLine(t, b) /\ b > 2 /\ b - 1 \in 0..Len(t)
         /\ HeadersTo(t, b - 1) \in Seq(HeaderRec)
<1>1. b - 1 \in 0..Len(t)
  OBVIOUS
<1> QED
  BY <1>1, HeadersStep DEF Before, StartsLine

LEMMA HeaderOfType ==
  ASSUME NEW t \in Seq(Symbol), NEW b \in 1..Len(t), NEW k \in 0..Len(t), NEW c \in b..k,
         ValueTo(t, b, c, k)
  PROVE  HeaderOf(t, b, c, k) \in HeaderRec
<1>1. b < c /\ c < k
  BY DEF ValueTo, NameAt
<1>2. SubSeq(t, b, c - 1) \in Seq(Symbol) /\ SubSeq(t, c + 2, k) \in Seq(Symbol)
  BY <1>1
<1> QED
  BY <1>2 DEF HeaderOf, HeaderRec

LEMMA ExtendedIs ==
  ASSUME NEW hs \in Seq(HeaderRec), hs # <<>>, NEW v \in Seq(Symbol),
         NEW s, s = Extend(hs, v)
  PROVE  /\ s \in Seq(HeaderRec) /\ s # <<>> /\ Len(s) = Len(hs)
         /\ Holds(s, CL) <=> Holds(hs, CL)
         /\ LengthOf(s) = IF s[Len(s)].name = <<CL>> THEN Number(s[Len(s)].value)
                          ELSE LengthOf(hs)
<1>1. /\ s \in Seq(HeaderRec) /\ Len(s) = Len(hs)
      /\ \A i \in 1..Len(hs) - 1 : s[i] = hs[i]
      /\ s[Len(hs)] = [name |-> hs[Len(hs)].name, value |-> hs[Len(hs)].value \o v]
  BY ExtendIs
<1>0. Len(hs) # 0
  OBVIOUS
<1>2. s # <<>> /\ s[Len(s)].name = hs[Len(hs)].name
  BY <1>0, <1>1
<1>3. /\ Holds(s, CL) <=> Holds(hs, CL)
      /\ LengthOf(s) = IF s[Len(s)].name = <<CL>> THEN Number(s[Len(s)].value) ELSE LengthOf(hs)
  BY <1>1, <1>2, ExtendLength DEF CL
<1> QED
  BY <1>1, <1>2, <1>3

LEMMA AppendedIs ==
  ASSUME NEW hs \in Seq(HeaderRec), NEW h \in HeaderRec, NEW s, Appends(s, hs, h)
  PROVE  /\ s \in Seq(HeaderRec) /\ s # <<>> /\ s[Len(s)] = h
         /\ Holds(s, CL) <=> Holds(hs, CL) \/ h.name = <<CL>>
         /\ LengthOf(s) = IF s[Len(s)].name = <<CL>> THEN Number(s[Len(s)].value)
                          ELSE LengthOf(hs)
<1>1. s \in Seq(HeaderRec) /\ Len(s) = Len(hs) + 1 /\ s[Len(s)] = h /\ Len(hs) \in Nat
  <2>1. s = Append(hs, h)
    BY DEF Appends
  <2> QED
    BY <2>1
<1>2. s # <<>>
  BY <1>1
<1>3. /\ Holds(s, CL) <=> Holds(hs, CL) \/ h.name = <<CL>>
      /\ LengthOf(s) = IF h.name = <<CL>> THEN Number(h.value) ELSE LengthOf(hs)
  BY AppendLength DEF CL, Appends
<1> QED
  BY <1>1, <1>2, <1>3

LEMMA ValuedIs ==
  ASSUME NEW q, NEW t \in Seq(Symbol), NEW b \in 1..Len(t), NEW k \in 0..Len(t),
         Valued(q, t, b, k)
  PROVE  LET s == q.headers
         IN /\ s \in Seq(HeaderRec) /\ s # <<>>
            /\ LengthOf(s) = IF s[Len(s)].name = <<CL>> THEN Number(s[Len(s)].value)
                             ELSE LengthOf(HeadersTo(t, b - 1))
<1> DEFINE hs == HeadersTo(t, b - 1)
<1>1. hs \in Seq(HeaderRec)
  <2>1. b - 1 \in 0..Len(t)
    OBVIOUS
  <2> QED
    BY <2>1, HeadersStep
<1>2. \/ \E c \in b..k : ValueTo(t, b, c, k) /\ q.headers = Append(hs, HeaderOf(t, b, c, k))
      \/ \E m \in b..k + 1 :
           MoreTo(t, b, m, k) /\ hs # <<>> /\ q.headers = Extend(hs, SubSeq(t, m, k))
  BY DEF Valued
<1> HIDE DEF hs
<1>3. ASSUME NEW c \in b..k, ValueTo(t, b, c, k), q.headers = Append(hs, HeaderOf(t, b, c, k))
      PROVE  /\ q.headers \in Seq(HeaderRec) /\ q.headers # <<>>
             /\ LengthOf(q.headers) = IF q.headers[Len(q.headers)].name = <<CL>>
                                      THEN Number(q.headers[Len(q.headers)].value)
                                      ELSE LengthOf(hs)
  <2>1. HeaderOf(t, b, c, k) \in HeaderRec
    BY <1>3, HeaderOfType
  <2>2. PICK h \in HeaderRec : h = HeaderOf(t, b, c, k)
    BY <2>1
  <2>3. Appends(q.headers, hs, h)
    BY <1>3, <2>2 DEF Appends
  <2> QED
    BY <1>1, <2>3, AppendedIs
<1>4. ASSUME NEW m \in b..k + 1, hs # <<>>, q.headers = Extend(hs, SubSeq(t, m, k))
      PROVE  /\ q.headers \in Seq(HeaderRec) /\ q.headers # <<>>
             /\ LengthOf(q.headers) = IF q.headers[Len(q.headers)].name = <<CL>>
                                      THEN Number(q.headers[Len(q.headers)].value)
                                      ELSE LengthOf(hs)
  <2>1. SubSeq(t, m, k) \in Seq(Symbol)
    OBVIOUS
  <2> QED
    BY <1>1, <1>4, <2>1, ExtendedIs
<1> QED
  BY <1>2, <1>3, <1>4 DEF hs

(* The end of a header line.                                               *)
LEMMA LineEnds ==
  ASSUME NEW q, NEW t \in Seq(Symbol), NEW b \in 1..Len(t), NEW e \in b + 1..Len(t),
         Before(t, b), Valued(q, t, b, e - 1), Crlf(t, e)
  PROVE  Before(t, e + 2) /\ HeadersTo(t, e + 1) = q.headers
<1> DEFINE hs == HeadersTo(t, b - 1)
<1>1. /\ e + 1 <= Len(t) /\ e + 1 \in b..Len(t) /\ e + 1 \in 1..Len(t) /\ e \in b..Len(t)
      /\ e - 1 \in 0..Len(t) /\ b \in 1..Len(t) + 1 /\ e - 1 \in b - 1..Len(t)
      /\ (e - 1) + 2 = e + 1 /\ (e + 2) - 1 = e + 1 /\ (e + 2) - 2 = e /\ b \in 0..Len(t)
  BY DEF Crlf
<1>2. hs \in Seq(HeaderRec) /\ StartsLine(t, b) /\ b > 2
  BY <1>1, BeforeIs
<1>3. /\ Clean(t, b, e - 1) /\ IsHeaderLine(t, b)
      /\ WithLine(hs, Line(t, b)) = q.headers
  <2>1. CASE \E c \in b..e - 1 :
               ValueTo(t, b, c, e - 1) /\ q.headers = Append(hs, HeaderOf(t, b, c, e - 1))
    <3>1. PICK c \in b..e - 1 :
               ValueTo(t, b, c, e - 1) /\ q.headers = Append(hs, HeaderOf(t, b, c, e - 1))
      BY <2>1
    <3>2. c \in Nat
      OBVIOUS
    <3>3. /\ Clean(t, b, e - 1) /\ IsHeader(Line(t, b))
          /\ WithLine(hs, Line(t, b)) = Append(hs, HeaderOf(t, b, c, e - 1))
      BY <1>1, <3>1, <3>2, ValueLine
    <3> QED
      BY <3>1, <3>3 DEF IsHeaderLine
  <2>2. CASE \E m \in b..(e - 1) + 1 :
               MoreTo(t, b, m, e - 1) /\ hs # <<>> /\ q.headers = Extend(hs, SubSeq(t, m, e - 1))
    <3>1. PICK m \in b..(e - 1) + 1 :
               MoreTo(t, b, m, e - 1) /\ hs # <<>> /\ q.headers = Extend(hs, SubSeq(t, m, e - 1))
      BY <2>2
    <3>2. m \in Nat
      OBVIOUS
    <3>3. /\ Clean(t, b, e - 1) /\ IsContinuation(Line(t, b))
          /\ WithLine(hs, Line(t, b)) = Extend(hs, SubSeq(t, m, e - 1))
      BY <1>1, <3>1, <3>2, MoreLine
    <3>4. \E a \in 2..b - 1 : StartsLine(t, a)
      BY <3>1 DEF Before
    <3> QED
      BY <3>1, <3>3, <3>4 DEF IsHeaderLine
  <2> QED
    BY <2>1, <2>2 DEF Valued
<1>4. HeadersTo(t, b) = q.headers
  <2>1. b >= 2
    BY <1>2
  <2> QED
    BY <1>1, <1>2, <1>3, <2>1, HeadersStep
<1>5. \A a \in b + 1..e + 1 : ~StartsLine(t, a)
  BY <1>1, <1>2, <1>3, NoStart
<1>6. HeadersTo(t, e + 1) = q.headers
  BY <1>1, <1>4, <1>5, HeadersKeep
<1>7. q.headers # <<>>
  BY <1>1, ValuedIs
<1>8. ASSUME NEW a \in 2..e + 1, StartsLine(t, a) PROVE IsHeaderLine(t, a)
  <2>1. a \in 2..b - 1 \/ a = b \/ a \in b + 1..e + 1
    OBVIOUS
  <2> QED
    BY <1>3, <1>5, <1>8, <2>1 DEF Before
<1>9. b \in 2..e + 1
  BY <1>2
<1> QED
  <2>1. e + 2 > 2 /\ IsRequestLine(Line(t, 1))
    BY DEF Before
  <2> QED
    BY <1>1, <1>2, <1>6, <1>7, <1>8, <1>9, <2>1 DEF Before

LEMMA HeaderStep ==
  ASSUME NEW q \in Parsing, NEW t \in Seq(Symbol), NEW k \in 0..Len(t) - 1, Knows(q, t, k),
         NEW r \in HeaderRules, r.from = q.state, t[k + 1] \in r.on,
         r.does = "continue" => q.headers # <<>>
  PROVE  Knows(Apply(q, r, t[k + 1]), t, k + 1)
<1> DEFINE c == t[k + 1]
           e == Apply(q, r, c)
           n == k + 1
           Hs(b) == HeadersTo(t, b - 1)
<1>1. /\ n \in 1..Len(t) /\ k \in Nat /\ Len(t) \in Nat /\ c \in Symbol /\ c = t[n]
      /\ q \in Requests0 /\ r \in Rules /\ n - 1 = k /\ k \in 0..Len(t) /\ n \in 1..n
  BY DEF Parsing, Rules
<1>2. r.does \in {"skip", "continue", "header", "value", "named", "name", "valued"}
  BY OtherRules DEF Is
<1>3. /\ e.state = r.to
      /\ e.method = q.method /\ e.uri = q.uri /\ e.content = q.content
      /\ Named(q, t) => Named(e, t)
  BY <1>1, <1>2, ApplyIs DEF Named
<1>4. /\ r.does \in {"skip", "continue", "valued", "named"} => e.headers = q.headers
      /\ r.does = "header" => e.headers = Append(q.headers, [name |-> <<c>>, value |-> <<>>])
      /\ r.does = "name" => e.headers = [q.headers EXCEPT ![Len(q.headers)].name = Append(@, c)]
      /\ r.does = "value" => e.headers = [q.headers EXCEPT ![Len(q.headers)].value = Append(@, c)]
  BY <1>1, <1>2, ApplyIs
<1>5. /\ r.does # "named" => e.has_content = q.has_content
      /\ r.does = "named" => e.has_content = (q.has_content \/ IsLength(q))
      /\ r.does # "valued" => e.content_size = q.content_size
      /\ r.does = "valued" => e.content_size = IF IsLength(q)
             THEN Number(q.headers[Len(q.headers)].value) ELSE q.content_size
  BY <1>1, <1>2, ApplyIs
<1> HIDE DEF c, e, n
<1>more. \A a \in 1..n : /\ SubSeq(t, a, n) = Append(SubSeq(t, a, k), c)
                         /\ SubSeq(t, a, k) \in Seq(Symbol)
                         /\ k < a => SubSeq(t, a, k) = <<>>
                         /\ \A S : Span(t, a, k, S) /\ c \in S => Span(t, a, n, S)
  <2> TAKE a \in 1..n
  <2>1. a \in 1..Len(t) /\ a <= k + 1 /\ a \in Nat /\ k \in Nat /\ k \in 0..Len(t) - 1
    BY <1>1 DEF n
  <2> QED
    BY <2>1, SubSeqMore, SpanMore DEF c, n
<1>ext. /\ Append(<<>>, c) = <<c>> /\ <<c>> \in Seq(Symbol) /\ SubSeq(t, n, n) = <<c>>
        /\ \A S : c \in S => Span(t, n, n, S)
        /\ \A S : Span(t, n + 1, n, S) /\ Span(t, n, k, S)
  <2>1. n \in 1..n /\ k < n
    BY <1>1 DEF n
  <2>2. SubSeq(t, n, n) = Append(<<>>, c)
    BY <1>more, <2>1
  <2> QED
    BY <1>1, <2>2 DEF Span, n
<1>hs. \A b \in 1..Len(t) : Hs(b) \in Seq(HeaderRec)
  <2> TAKE b \in 1..Len(t)
  <2>1. b - 1 \in 0..Len(t)
    OBVIOUS
  <2> QED
    BY <2>1, HeadersStep
<1>in. \A b \in 1..k : b \in 1..n /\ b \in 1..Len(t) /\ b < n /\ b \in b..n
  BY <1>1 DEF n
<1>6. CASE Is(r, "header_line_start", {"CR"}, "expecting_newline_3", "skip")
  <2>1. AtLine(q, t, k) /\ e.state = "expecting_newline_3" /\ c = "CR"
    BY <1>3, <1>6 DEF Is, Knows, c
  <2>2. AtCr3(e, t, n)
    BY <1>1, <1>3, <1>4, <1>5, <1>6, <2>1 DEF AtLine, AtCr3, Filled, Is, n
  <2> QED
    BY <2>1, <2>2, Tells DEF e, c, n
<1>7. CASE Is(r, "header_line_start", Lws, "header_lws", "continue")
  <2>1. AtLine(q, t, k) /\ e.state = "header_lws" /\ c \in Lws /\ q.headers # <<>>
    BY <1>3, <1>7 DEF Is, Knows, c
  <2>2. Before(t, n) /\ Span(t, n, n, Lws) /\ Named(e, t)
    BY <1>3, <1>ext, <2>1 DEF AtLine, n
  <2>3. Filled(e, Hs(n)) /\ Hs(n) # <<>>
    BY <1>1, <1>4, <1>5, <1>7, <2>1 DEF AtLine, Filled, Is
  <2>4. AtBlank(e, t, n)
    BY <1>1, <2>2, <2>3 DEF AtBlank
  <2> QED
    BY <2>1, <2>4, Tells DEF e, c, n
<1>8. CASE Is(r, "header_line_start", Token, "header_name", "header")
  <2>1. AtLine(q, t, k) /\ e.state = "header_name" /\ c \in Token
    BY <1>3, <1>8 DEF Is, Knows, c
  <2>2. Before(t, n) /\ Span(t, n, n, Token) /\ Named(e, t)
    BY <1>3, <1>ext, <2>1 DEF AtLine, n
  <2>3. /\ e.headers = Append(Hs(n), [name |-> SubSeq(t, n, n), value |-> <<>>])
        /\ e.has_content = Holds(Hs(n), CL) /\ e.content_size = LengthOf(Hs(n))
    BY <1>1, <1>4, <1>5, <1>8, <1>ext, <2>1 DEF AtLine, Filled, Is
  <2>4. AtName(e, t, n)
    BY <1>1, <2>2, <2>3 DEF AtName
  <2> QED
    BY <2>1, <2>4, Tells DEF e, c, n
<1>9. CASE Is(r, "header_lws", {"CR"}, "expecting_newline_2", "skip")
  <2>1. AtBlank(q, t, k) /\ e.state = "expecting_newline_2" /\ c = "CR"
    BY <1>3, <1>9 DEF Is, Knows, c
  <2>2. PICK b \in 1..k : Before(t, b) /\ Span(t, b, k, Lws) /\ Hs(b) # <<>> /\ Filled(q, Hs(b))
    BY <2>1 DEF AtBlank
  <2>3. e.headers = Extend(Hs(b), SubSeq(t, n, k))
    <3>1. Extend(Hs(b), <<>>) = Hs(b)
      BY <1>hs, <1>in, <2>2, ExtendNothing
    <3>2. SubSeq(t, n, k) = <<>>
      BY <1>1, <1>more DEF n
    <3> QED
      BY <1>4, <1>9, <2>2, <3>1, <3>2 DEF Filled, Is
  <2>4. MoreTo(t, b, n, k) /\ n \in b..k + 1
    BY <1>1, <1>ext, <1>in, <2>2 DEF MoreTo, n
  <2>5. Valued(e, t, b, n - 1) /\ b \in 1..n - 1
    BY <1>1, <2>2, <2>3, <2>4 DEF Valued
  <2>6. Filled(e, e.headers)
    BY <1>4, <1>5, <1>9, <2>2 DEF Filled, Is
  <2>7. AtCr2(e, t, n)
    BY <1>1, <1>3, <2>1, <2>2, <2>5, <2>6 DEF AtCr2, AtBlank
  <2> QED
    BY <2>1, <2>7, Tells DEF e, c, n
<1>10. CASE Is(r, "header_lws", Lws, "header_lws", "skip")
  <2>1. AtBlank(q, t, k) /\ e.state = "header_lws" /\ c \in Lws
    BY <1>3, <1>10 DEF Is, Knows, c
  <2>2. PICK b \in 1..k : Before(t, b) /\ Span(t, b, k, Lws) /\ Hs(b) # <<>> /\ Filled(q, Hs(b))
    BY <2>1 DEF AtBlank
  <2>3. b \in 1..n /\ Span(t, b, n, Lws)
    BY <1>in, <1>more, <2>1, <2>2
  <2>4. Filled(e, Hs(b))
    BY <1>4, <1>5, <1>10, <2>2 DEF Filled, Is
  <2>5. AtBlank(e, t, n)
    BY <1>3, <2>1, <2>2, <2>3, <2>4 DEF AtBlank
  <2> QED
    BY <2>1, <2>5, Tells DEF e, c, n
<1>11. CASE Is(r, "header_lws", Text \ Lws, "header_value", "value")
  <2>1. AtBlank(q, t, k) /\ e.state = "header_value" /\ c \in Text \ Lws
    BY <1>3, <1>11 DEF Is, Knows, c
  <2>2. PICK b \in 1..k : Before(t, b) /\ Span(t, b, k, Lws) /\ Hs(b) # <<>> /\ Filled(q, Hs(b))
    BY <2>1 DEF AtBlank
  <2>3. e.headers = Extend(Hs(b), SubSeq(t, n, n))
    <3>1. q.headers = Hs(b) /\ Hs(b) \in Seq(HeaderRec)
      BY <1>hs, <1>in, <2>2 DEF Filled
    <3>2. e.headers = [q.headers EXCEPT ![Len(q.headers)].value = Append(@, c)]
      BY <1>4, <1>11 DEF Is
    <3>3. PICK hs \in Seq(HeaderRec) : hs = Hs(b) /\ hs = q.headers /\ hs # <<>>
      BY <2>2, <3>1
    <3>4. e.headers = [hs EXCEPT ![Len(hs)].value = Append(@, c)]
      BY <3>2, <3>3
    <3>5. e.headers = Extend(hs, <<c>>)
      BY <1>1, <3>3, <3>4, ExtendBy
    <3> QED
      BY <1>ext, <3>3, <3>5
  <2>4. MoreTo(t, b, n, n) /\ n \in b..n + 1
    <3>1. Span(t, n, n, Text)
      BY <1>ext, <2>1
    <3> QED
      BY <1>1, <1>in, <2>1, <2>2, <3>1 DEF MoreTo, n
  <2>5. Valued(e, t, b, n)
    BY <2>2, <2>3, <2>4 DEF Valued
  <2>6. e.has_content = Holds(e.headers, CL) /\ e.content_size = LengthOf(Hs(b))
    <3>1. Holds(e.headers, CL) <=> Holds(Hs(b), CL)
      <4>1. PICK hs \in Seq(HeaderRec) : hs = Hs(b)
        BY <1>hs, <1>in
      <4>2. PICK v \in Seq(Symbol) : v = SubSeq(t, n, n)
        BY <1>ext
      <4> QED
        BY <2>2, <2>3, <4>1, <4>2, ExtendedIs
    <3>2. e.has_content = Holds(Hs(b), CL) /\ e.content_size = LengthOf(Hs(b))
      BY <1>5, <1>11, <2>2 DEF Filled, Is
    <3> QED
      BY <3>1, <3>2 DEF Holds
  <2>7. ~Span(t, b, n, Lws) /\ b \in 1..n
    <3>1. b \in 1..n /\ n \in b..n
      BY <1>in, <1>1 DEF n
    <3> QED
      BY <1>1, <2>1, <3>1 DEF Span
  <2>8. AtValue(e, t, n)
    BY <1>3, <2>1, <2>2, <2>5, <2>6, <2>7 DEF AtValue, AtBlank
  <2> QED
    BY <2>1, <2>8, Tells DEF e, c, n
<1>12. CASE Is(r, "header_name", {":"}, "space_before_header_value", "named")
  <2>1. AtName(q, t, k) /\ e.state = "space_before_header_value" /\ c = ":"
    BY <1>3, <1>12 DEF Is, Knows, c
  <2>2. PICK b \in 1..k :
          /\ Before(t, b) /\ Span(t, b, k, Token)
          /\ q.headers = Append(Hs(b), [name |-> SubSeq(t, b, k), value |-> <<>>])
          /\ q.has_content = Holds(Hs(b), CL) /\ q.content_size = LengthOf(Hs(b))
    BY <2>1 DEF AtName
  <2>3. NameAt(t, b, n) /\ b \in 1..n
    BY <1>1, <1>in, <2>1, <2>2 DEF NameAt
  <2>4. e.headers = Append(Hs(b), [name |-> SubSeq(t, b, n - 1), value |-> <<>>])
        /\ e.content_size = LengthOf(Hs(b))
    BY <1>1, <1>4, <1>5, <1>12, <2>2 DEF Is
  <2>5. e.has_content = Holds(e.headers, CL)
    <3> DEFINE h == [name |-> SubSeq(t, b, k), value |-> <<>>]
    <3>1. h \in HeaderRec
      <4>1. SubSeq(t, b, k) \in Seq(Symbol) /\ <<>> \in Seq(Symbol)
        BY <1>more, <1>in
      <4> QED
        BY <4>1 DEF HeaderRec
    <3> HIDE DEF h
    <3>2. q.headers = Append(Hs(b), h) /\ e.headers = Append(Hs(b), h)
      BY <1>1, <2>2, <2>4 DEF h
    <3>3. /\ Holds(e.headers, CL) <=> Holds(Hs(b), CL) \/ h.name = <<CL>>
          /\ q.headers[Len(q.headers)] = h
      <4>1. PICK hs \in Seq(HeaderRec) : hs = Hs(b)
        BY <1>hs, <1>in
      <4>2. Appends(e.headers, hs, h) /\ e.headers = q.headers
        BY <3>2, <4>1 DEF Appends
      <4> QED
        BY <3>1, <4>1, <4>2, AppendedIs
    <3>4. IsLength(q) <=> h.name = <<CL>>
      BY <3>3 DEF IsLength, CL, Last
    <3>5. e.has_content = (q.has_content \/ IsLength(q))
      BY <1>5, <1>12 DEF Is
    <3>6. e.has_content \in BOOLEAN /\ Holds(e.headers, CL) \in BOOLEAN
          /\ (e.has_content <=> Holds(e.headers, CL))
      BY <2>2, <3>3, <3>4, <3>5 DEF Holds, IsLength
    <3> QED
      BY <3>6
  <2>6. AtColon(e, t, n)
    BY <1>3, <2>1, <2>2, <2>3, <2>4, <2>5 DEF AtColon, AtName
  <2> QED
    BY <2>1, <2>6, Tells DEF e, c, n
<1>13. CASE Is(r, "header_name", Token, "header_name", "name")
  <2>1. AtName(q, t, k) /\ e.state = "header_name" /\ c \in Token
    BY <1>3, <1>13 DEF Is, Knows, c
  <2>2. PICK b \in 1..k :
          /\ Before(t, b) /\ Span(t, b, k, Token)
          /\ q.headers = Append(Hs(b), [name |-> SubSeq(t, b, k), value |-> <<>>])
          /\ q.has_content = Holds(Hs(b), CL) /\ q.content_size = LengthOf(Hs(b))
    BY <2>1 DEF AtName
  <2>3. b \in 1..n /\ Span(t, b, n, Token)
    BY <1>in, <1>more, <2>1, <2>2
  <2>4. e.headers = Append(Hs(b), [name |-> SubSeq(t, b, n), value |-> <<>>])
    <3>1. PICK s \in Seq(Symbol), z \in Seq(Symbol) :
            s = SubSeq(t, b, k) /\ z = SubSeq(t, b, n) /\ z = Append(s, c)
      <4>1. SubSeq(t, b, k) \in Seq(Symbol) /\ SubSeq(t, b, n) = Append(SubSeq(t, b, k), c)
        BY <1>more, <1>in
      <4>2. \A s \in Seq(Symbol) : Append(s, c) \in Seq(Symbol)
        BY <1>1
      <4> QED
        BY <4>1, <4>2
    <3>2. PICK v \in Seq(Symbol) : v = <<>>
      <4>1. <<>> \in Seq(Symbol)
        OBVIOUS
      <4> QED
        BY <4>1
    <3>3. PICK hs \in Seq(HeaderRec) : hs = Hs(b)
      BY <1>hs, <1>in
    <3>4. q.headers = Append(hs, [name |-> s, value |-> v])
      BY <2>2, <3>1, <3>2, <3>3
    <3>5. e.headers = [q.headers EXCEPT ![Len(q.headers)].name = Append(@, c)]
      BY <1>4, <1>13 DEF Is
    <3>6. e.headers = Append(hs, [name |-> z, value |-> v])
      <4>1. PICK p : p = q.headers
        OBVIOUS
      <4>2. Appends(p, hs, [name |-> s, value |-> v]) /\ Appends(z, s, c)
        BY <3>1, <3>4, <4>1 DEF Appends
      <4>3. Appends([p EXCEPT ![Len(p)].name = Append(@, c)], hs, [name |-> z, value |-> v])
        BY <1>1, <4>2, NameLast
      <4>4. [p EXCEPT ![Len(p)].name = Append(@, c)] = e.headers
        BY <3>5, <4>1
      <4> QED
        BY <4>3, <4>4 DEF Appends
    <3> QED
      BY <3>1, <3>2, <3>3, <3>6
  <2>5. e.has_content = Holds(Hs(b), CL) /\ e.content_size = LengthOf(Hs(b))
    BY <1>5, <1>13, <2>2 DEF Is
  <2>6. AtName(e, t, n)
    BY <1>3, <2>1, <2>2, <2>3, <2>4, <2>5 DEF AtName
  <2> QED
    BY <2>1, <2>6, Tells DEF e, c, n
<1>14. CASE Is(r, "space_before_header_value", {"SP"}, "header_value", "skip")
  <2>1. AtColon(q, t, k) /\ e.state = "header_value" /\ c = "SP"
    BY <1>3, <1>14 DEF Is, Knows, c
  <2>2. PICK b \in 1..k :
          /\ Before(t, b) /\ NameAt(t, b, k)
          /\ q.headers = Append(Hs(b), [name |-> SubSeq(t, b, k - 1), value |-> <<>>])
          /\ q.has_content = Holds(q.headers, CL) /\ q.content_size = LengthOf(Hs(b))
    BY <2>1 DEF AtColon
  <2>3. b \in 1..n /\ k \in b..n /\ k < n /\ k + 2 = n + 1 /\ n + 1 \in Nat
    BY <1>1, <1>in, <2>2 DEF n
  <2>4. ValueTo(t, b, k, n)
    BY <1>1, <1>ext, <2>1, <2>2, <2>3 DEF ValueTo, c
  <2>5. e.headers = Append(Hs(b), HeaderOf(t, b, k, n))
    <3>1. SubSeq(t, k + 2, n) = <<>>
      BY <1>1, <2>3
    <3> QED
      BY <1>4, <1>14, <2>2, <3>1 DEF HeaderOf, Is
  <2>6. Valued(e, t, b, n)
    BY <2>3, <2>4, <2>5 DEF Valued
  <2>7. e.has_content = Holds(e.headers, CL) /\ e.content_size = LengthOf(Hs(b))
    BY <1>4, <1>5, <1>14, <2>2 DEF Is
  <2>8. ~Span(t, b, n, Lws)
    <3>1. b \in b..k - 1 /\ b \in b..n
      <4>1. b < k
        BY <2>2 DEF NameAt
      <4> QED
        BY <1>1, <2>3, <4>1
    <3>2. t[b] \in Token
      BY <2>2, <3>1 DEF NameAt, Span
    <3> QED
      BY <3>1, <3>2, Classes DEF Span
  <2>9. AtValue(e, t, n)
    BY <1>3, <2>1, <2>2, <2>3, <2>6, <2>7, <2>8 DEF AtValue, AtColon
  <2> QED
    BY <2>1, <2>9, Tells DEF e, c, n
<1>15. CASE Is(r, "header_value", {"CR"}, "expecting_newline_2", "valued")
  <2>1. AtValue(q, t, k) /\ e.state = "expecting_newline_2" /\ c = "CR"
    BY <1>3, <1>15 DEF Is, Knows, c
  <2>2. PICK b \in 1..k :
          /\ Before(t, b) /\ Valued(q, t, b, k) /\ ~Span(t, b, k, Lws)
          /\ q.has_content = Holds(q.headers, CL) /\ q.content_size = LengthOf(Hs(b))
    BY <2>1 DEF AtValue
  <2>3. b \in 1..n - 1 /\ e.headers = q.headers /\ Valued(e, t, b, n - 1)
    BY <1>1, <1>4, <1>15, <2>2 DEF Valued, Is
  <2>4. Filled(e, e.headers)
    <3>1. LengthOf(q.headers) = IF q.headers[Len(q.headers)].name = <<CL>>
                                THEN Number(q.headers[Len(q.headers)].value) ELSE LengthOf(Hs(b))
      BY <1>1, <1>in, <2>2, ValuedIs
    <3>2. IsLength(q) <=> q.headers[Len(q.headers)].name = <<CL>>
      BY DEF IsLength, CL, Last
    <3>3. e.content_size = LengthOf(q.headers) /\ e.has_content = Holds(q.headers, CL)
      BY <1>5, <1>15, <2>2, <3>1, <3>2 DEF Is
    <3> QED
      BY <2>3, <3>3 DEF Filled
  <2>5. AtCr2(e, t, n)
    BY <1>1, <1>3, <2>1, <2>2, <2>3, <2>4 DEF AtCr2, AtValue
  <2> QED
    BY <2>1, <2>5, Tells DEF e, c, n
<1>16. CASE Is(r, "header_value", Text, "header_value", "value")
  <2>1. AtValue(q, t, k) /\ e.state = "header_value" /\ c \in Text
    BY <1>3, <1>16 DEF Is, Knows, c
  <2>2. PICK b \in 1..k :
          /\ Before(t, b) /\ Valued(q, t, b, k) /\ ~Span(t, b, k, Lws)
          /\ q.has_content = Holds(q.headers, CL) /\ q.content_size = LengthOf(Hs(b))
    BY <2>1 DEF AtValue
  <2>3. q.headers \in Seq(HeaderRec) /\ q.headers # <<>> /\ b \in 1..n /\ b \in 1..Len(t)
    BY <1>1, <1>in, <2>2, ValuedIs
  <2>4. e.headers = Extend(q.headers, <<c>>)
    BY <1>1, <1>4, <1>16, <2>3, ExtendBy DEF Is
  <2>5. Valued(e, t, b, n)
    <3>1. CASE \E x \in b..k : ValueTo(t, b, x, k) /\ q.headers = Append(Hs(b), HeaderOf(t, b, x, k))
      <4>1. PICK x \in b..k : ValueTo(t, b, x, k) /\ q.headers = Append(Hs(b), HeaderOf(t, b, x, k))
        BY <3>1
      <4>2. x < k /\ b < x /\ x + 2 \in 1..n /\ x \in b..n /\ x < n
        BY <1>1, <4>1 DEF ValueTo, NameAt, n
      <4>3. ValueTo(t, b, x, n)
        BY <1>more, <2>1, <4>1, <4>2 DEF ValueTo
      <4>4. Extend(q.headers, <<c>>) = Append(Hs(b), HeaderOf(t, b, x, n))
        <5> DEFINE s == SubSeq(t, b, x - 1)
                   v == SubSeq(t, x + 2, k)
        <5>1. s \in Seq(Symbol) /\ v \in Seq(Symbol) /\ SubSeq(t, x + 2, n) = Append(v, c)
          <6>1. s \in Seq(Symbol)
            BY <1>1, <2>3, <4>2
          <6> QED
            BY <1>more, <4>2, <6>1
        <5>2. q.headers = Append(Hs(b), [name |-> s, value |-> v])
          BY <4>1 DEF HeaderOf
        <5> HIDE DEF s, v
        <5>3. PICK hs \in Seq(HeaderRec) : hs = Hs(b)
          BY <1>hs, <2>3
        <5>4. PICK w : w = Append(v, c)
          OBVIOUS
        <5>5. Extend(q.headers, <<c>>) = Append(hs, [name |-> s, value |-> w])
          <6>1. PICK p : p = q.headers
            OBVIOUS
          <6>2. Appends(p, hs, [name |-> s, value |-> v]) /\ Appends(w, v, c)
            BY <5>2, <5>3, <5>4, <6>1 DEF Appends
          <6>3. Appends(Extend(p, <<c>>), hs, [name |-> s, value |-> w])
            BY <1>1, <5>1, <6>2, ExtendLast
          <6> QED
            BY <6>1, <6>3 DEF Appends
        <5> QED
          BY <5>1, <5>3, <5>4, <5>5 DEF HeaderOf, s
      <4> QED
        BY <2>4, <4>2, <4>3, <4>4 DEF Valued
    <3>2. CASE \E m \in b..k + 1 :
           MoreTo(t, b, m, k) /\ Hs(b) # <<>> /\ q.headers = Extend(Hs(b), SubSeq(t, m, k))
      <4>1. PICK m \in b..k + 1 :
           MoreTo(t, b, m, k) /\ Hs(b) # <<>> /\ q.headers = Extend(Hs(b), SubSeq(t, m, k))
        BY <3>2
      <4>2. m <= k
        <5>1. m = k + 1 => Span(t, b, k, Lws)
          BY <1>1, <4>1 DEF MoreTo
        <5> QED
          BY <1>1, <2>2, <5>1
      <4>3. m \in 1..n /\ m \in b..n + 1 /\ m <= n + 1
        BY <1>1, <4>1, <4>2 DEF n
      <4>4. MoreTo(t, b, m, n)
        BY <1>more, <2>1, <4>1, <4>2, <4>3 DEF MoreTo
      <4>5. Extend(q.headers, <<c>>) = Extend(Hs(b), SubSeq(t, m, n))
        <5>1. SubSeq(t, m, n) = Append(SubSeq(t, m, k), c) /\ SubSeq(t, m, k) \in Seq(Symbol)
          BY <1>more, <4>3
        <5> QED
          BY <1>1, <1>hs, <2>3, <4>1, <5>1, ExtendMore
      <4> QED
        BY <2>4, <4>1, <4>3, <4>4, <4>5 DEF Valued
    <3> QED
      BY <2>2, <3>1, <3>2 DEF Valued
  <2>6. e.has_content = Holds(e.headers, CL) /\ e.content_size = LengthOf(Hs(b))
    <3>1. Holds(e.headers, CL) <=> Holds(q.headers, CL)
      BY <1>ext, <2>3, <2>4, ExtendedIs
    <3>2. e.has_content = Holds(q.headers, CL) /\ e.content_size = LengthOf(Hs(b))
      BY <1>5, <1>16, <2>2 DEF Is
    <3> QED
      BY <3>1, <3>2 DEF Holds
  <2>7. ~Span(t, b, n, Lws)
    <3>1. \A i \in b..k : i \in b..n
      BY <1>1 DEF n
    <3> QED
      BY <2>2, <3>1 DEF Span
  <2>8. AtValue(e, t, n)
    BY <1>3, <2>1, <2>2, <2>3, <2>5, <2>6, <2>7 DEF AtValue
  <2> QED
    BY <2>1, <2>8, Tells DEF e, c, n
<1>17. CASE Is(r, "expecting_newline_2", {"LF"}, "header_line_start", "skip")
  <2>1. AtCr2(q, t, k) /\ e.state = "header_line_start" /\ c = "LF"
    BY <1>3, <1>17 DEF Is, Knows, c
  <2>2. PICK b \in 1..k - 1 : Before(t, b) /\ Valued(q, t, b, k - 1) /\ Filled(q, q.headers)
    BY <2>1 DEF AtCr2
  <2>3. Crlf(t, k) /\ k \in b + 1..Len(t) /\ b \in 1..Len(t) /\ k + 2 = n + 1 /\ k + 1 = n
    <3>1. t[k] = "CR"
      BY <2>1 DEF AtCr2
    <3> QED
      BY <1>1, <2>1, <3>1 DEF Crlf, n, c
  <2>4. Before(t, n + 1) /\ HeadersTo(t, n) = q.headers
    BY <2>2, <2>3, LineEnds
  <2>5. Filled(e, q.headers)
    BY <1>4, <1>5, <1>17, <2>2 DEF Filled, Is
  <2>6. AtLine(e, t, n)
    BY <1>3, <2>1, <2>4, <2>5 DEF AtLine, AtCr2
  <2> QED
    BY <2>1, <2>6, Tells DEF e, c, n
<1> QED
  BY <1>6, <1>7, <1>8, <1>9, <1>10, <1>11, <1>12, <1>13, <1>14, <1>15, <1>16, <1>17,
     OtherRules
-----------------------------------------------------------------------------
(* The end of the head, and the content.                                   *)
LEMMA HeadEndIs ==
  ASSUME NEW t \in Seq(Symbol), NEW h \in HeadEnds(t),
         \A b \in 2..h + 1 : StartsLine(t, b) => IsHeaderLine(t, b)
  PROVE  HeadEnd(t) = h
<1>1. \A m \in HeadEnds(t) : m \in 1..Len(t) /\ Crlf(t, m) /\ Crlf(t, m + 2) /\ m + 2 <= Len(t)
  BY DEF HeadEnds, Crlf
<1>2. ASSUME NEW m \in HeadEnds(t), m < h PROVE FALSE
  <2>1. m + 2 \in 2..h + 1 /\ m + 2 > 2 /\ (m + 2) - 2 = m /\ m + 2 \in 1..Len(t)
    BY <1>1, <1>2
  <2>2. StartsLine(t, m + 2)
    BY <1>1, <2>1 DEF StartsLine
  <2> QED
    BY <1>1, <2>1, <2>2, EmptyLine
<1>3. \A m \in HeadEnds(t) : h <= m
  BY <1>1, <1>2
<1>4. \A m \in HeadEnds(t) : (\A k \in HeadEnds(t) : m <= k) => m = h
  BY <1>1, <1>3
<1> QED
  BY <1>3, <1>4 DEF HeadEnd

LEMMA HeadEndAt ==
  ASSUME NEW t \in Seq(Symbol), HeadEnds(t) # {}
  PROVE  /\ HeadEnd(t) \in HeadEnds(t) /\ HeadEnd(t) \in 1..Len(t)
         /\ Crlf(t, HeadEnd(t)) /\ Crlf(t, HeadEnd(t) + 2) /\ HeadEnd(t) + 3 <= Len(t)
<1> DEFINE S == HeadEnds(t)
<1>1. S \in SUBSET Nat /\ \A m \in S : m \in 1..Len(t) /\ Crlf(t, m) /\ Crlf(t, m + 2)
                                         /\ m + 3 <= Len(t)
  BY DEF HeadEnds, Crlf
<1>2. PICK h \in S : \A k \in S : h <= k
  <2>1. S # {}
    OBVIOUS
  <2> HIDE DEF S
  <2> QED
    BY <1>1, <2>1, SmallestOf
<1>3. HeadEnd(t) \in S
  BY <1>2 DEF HeadEnd
<1> QED
  BY <1>1, <1>3

LEMMA ValueIs ==
  ASSUME NEW t \in Seq(Symbol), NEW name
  PROVE  /\ Has(t, name) <=> Holds(Headers(t), name)
         /\ Value(t, name) = IF Holds(Headers(t), name)
                             THEN Headers(t)[LastOf(Headers(t), name)].value ELSE <<>>
<1>1. Has(t, name) <=> Holds(Headers(t), name)
  BY DEF Has, Holds
<1> QED
  BY <1>1 DEF Value, LastOf, LastNamed

LEMMA DeclaredIs ==
  ASSUME NEW t \in Seq(Symbol), HeadEnds(t) # {}, Has(t, CL)
  PROVE  Declared(t) = LengthOf(Headers(t)) /\ Declared(t) \in Nat
<1>1. Headers(t) \in Seq(HeaderRec)
  BY HeadEndAt, HeadersStep DEF Headers
<1>2. Holds(Headers(t), CL)
  BY ValueIs
<1>3. LastOf(Headers(t), CL) \in 1..Len(Headers(t))
  BY <1>1, <1>2, LastAt
<1>4. Value(t, CL) = Headers(t)[LastOf(Headers(t), CL)].value
  BY <1>2, ValueIs
<1>5. Value(t, CL) \in Seq(Symbol)
  <2>1. Headers(t)[LastOf(Headers(t), CL)] \in HeaderRec
    BY <1>1, <1>3
  <2> QED
    BY <1>4, <2>1 DEF HeaderRec
<1>6. Declared(t) = Number(Value(t, CL))
  BY DEF Declared, CL
<1>7. Declared(t) \in Nat
  BY <1>5, <1>6, NumberType
<1> QED
  BY <1>2, <1>4, <1>6, <1>7 DEF LengthOf, CL

(* The empty line at k ends the head.                                      *)
LEMMA HeadRead ==
  ASSUME NEW t \in Seq(Symbol), NEW k \in 1..Len(t), Before(t, k), Crlf(t, k)
  PROVE  IsHead(t) /\ HeadEnd(t) = k - 2 /\ Headers(t) = HeadersTo(t, k - 1)
<1>1. /\ k > 2 /\ Crlf(t, k - 2) /\ IsRequestLine(Line(t, 1))
      /\ \A a \in 2..k - 1 : StartsLine(t, a) => IsHeaderLine(t, a)
  BY DEF Before
<1>2. k - 2 \in HeadEnds(t)
  <2>1. k - 2 \in 1..Len(t) /\ (k - 2) + 2 = k
    BY <1>1
  <2> QED
    BY <1>1, <2>1 DEF HeadEnds
<1>3. HeadEnd(t) = k - 2
  <2>1. (k - 2) + 1 = k - 1
    OBVIOUS
  <2> QED
    BY <1>1, <1>2, <2>1, HeadEndIs
<1>4. IsHead(t)
  <2>1. \A b \in 2..k - 2 : b \in 2..k - 1
    OBVIOUS
  <2> QED
    BY <1>1, <1>2, <1>3, <2>1 DEF IsHead
<1>5. HeadersTo(t, k - 1) = HeadersTo(t, k - 2)
  <2>1. k - 1 \in 0..Len(t) /\ k - 1 >= 2 /\ (k - 1) - 1 = k - 2 /\ (k - 1) - 2 = k - 3
        /\ k - 1 # 1 /\ (k - 3) + 1 = k - 2
    BY <1>1
  <2>2. ~StartsLine(t, k - 1)
    BY <1>1, <2>1 DEF StartsLine, Crlf
  <2> QED
    BY <2>1, <2>2, HeadersStep
<1> QED
  BY <1>3, <1>4, <1>5 DEF Headers

LEMMA ContentStep ==
  ASSUME NEW q \in Parsing, NEW t \in Seq(Symbol), NEW k \in 0..Len(t) - 1, Knows(q, t, k),
         NEW r \in ContentRules, r.from = q.state, t[k + 1] \in r.on
  PROVE  Knows(Apply(q, r, t[k + 1]), t, k + 1)
<1> DEFINE c == t[k + 1]
           e == Apply(q, r, c)
           n == k + 1
<1>1. /\ n \in 1..Len(t) /\ k \in Nat /\ Len(t) \in Nat /\ c \in Symbol /\ c = t[n]
      /\ q \in Requests0 /\ r \in Rules /\ n - 1 = k
  BY DEF Parsing, Rules
<1>2. /\ e.method = q.method /\ e.uri = q.uri /\ e.headers = q.headers
      /\ e.has_content = q.has_content /\ e.content_size = q.content_size
      /\ e.content = IF r.does = "content" THEN Append(q.content, c) ELSE q.content
      /\ r.does = "end_of_headers" => e.state = IF q.has_content THEN r.to ELSE "good"
      /\ r.does = "content" =>
           e.state = IF Len(q.content) + 1 = q.content_size THEN "good" ELSE "content"
  <2>1. r.does \in {"end_of_headers", "content"}
    BY OtherRules DEF Is
  <2> QED
    BY <1>1, <2>1, ApplyIs
<1> HIDE DEF c, e, n
<1>3. CASE Is(r, "expecting_newline_3", {"LF"}, "content", "end_of_headers")
  <2>1. AtCr3(q, t, k) /\ c = "LF"
    BY <1>3 DEF Is, Knows, c
  <2>2. Before(t, k) /\ Named(q, t) /\ t[k] = "CR" /\ Filled(q, HeadersTo(t, k - 1))
    BY <2>1 DEF AtCr3
  <2>3. k \in 1..Len(t) /\ Crlf(t, k)
    <3>1. k > 2
      BY <2>2 DEF Before
    <3> QED
      BY <1>1, <2>1, <2>2, <3>1 DEF Crlf, n, c
  <2>4. IsHead(t) /\ HeadEnd(t) = k - 2 /\ Headers(t) = HeadersTo(t, k - 1)
    BY <2>2, <2>3, HeadRead
  <2>5. Headed(e, t)
    BY <1>2, <2>2, <2>4 DEF Headed, Named, Filled
  <2>6. e.content = <<>>
    BY <1>2, <1>3, <2>2 DEF Named, Is
  <2>7. q.has_content <=> Has(t, CL)
    BY <2>2, <2>4, ValueIs DEF Filled
  <2>8. CASE q.has_content
    <3>1. e.state = "content"
      BY <1>2, <1>3, <2>8 DEF Is
    <3>2. e.content_size = Declared(t) /\ Declared(t) \in Nat
      BY <1>2, <2>2, <2>4, <2>7, <2>8, DeclaredIs DEF Filled, IsHead
    <3>3. n >= HeadEnd(t) + 3 /\ HeadEnd(t) + 4 = n + 1 /\ n - HeadEnd(t) - 3 = 0
      BY <1>1, <2>3, <2>4 DEF n
    <3>4. SubSeq(t, n + 1, n) = <<>>
      BY <1>1
    <3>5. AtContent(e, t, n)
      <4>1. e.content_size = 0 \/ n - HeadEnd(t) - 3 < e.content_size
        BY <3>2, <3>3
      <4>2. e.content = SubSeq(t, HeadEnd(t) + 4, n)
        BY <2>6, <3>3, <3>4
      <4> QED
        BY <2>5, <2>7, <2>8, <3>2, <3>3, <4>1, <4>2 DEF AtContent
    <3> QED
      BY <3>1, <3>5, Tells DEF e, c, n
  <2>9. CASE ~q.has_content
    <3>1. e.state = "good"
      BY <1>2, <1>3, <2>9 DEF Is
    <3>2. AtGood(e, t)
      BY <2>4, <2>5, <2>6, <2>7, <2>9 DEF AtGood, Finished, Body, CL
    <3> QED
      BY <3>1, <3>2, Tells DEF e, c, n
  <2> QED
    BY <2>8, <2>9
<1>4. CASE Is(r, "content", Symbol, "content", "content")
  <2>1. AtContent(q, t, k)
    BY <1>4 DEF Is, Knows
  <2> DEFINE h == HeadEnd(t)
             z == q.content_size
  <2>2. /\ Headed(q, t) /\ Has(t, CL) /\ z = Declared(t)
        /\ k >= h + 3 /\ q.content = SubSeq(t, h + 4, k)
        /\ z = 0 \/ k - h - 3 < z
    BY <2>1 DEF AtContent
  <2>3. h \in 1..Len(t) /\ z \in Nat
    BY <2>2, HeadEndAt, DeclaredIs DEF Headed, IsHead
  <2>4. Headed(e, t) /\ e.content_size = z
    BY <1>2, <2>2 DEF Headed
  <2> HIDE DEF h, z
  <2>5. h + 4 \in 1..Len(t) /\ h + 4 <= k + 1 /\ k \in 0..Len(t) /\ h + 4 \in Nat \ {0}
    BY <1>1, <2>2, <2>3 DEF n
  <2>6. e.content = SubSeq(t, h + 4, n) /\ Len(q.content) = k - h - 3
    <3>1. SubSeq(t, h + 4, n) = Append(SubSeq(t, h + 4, k), c)
      BY <2>5, SubSeqMore DEF n, c
    <3>2. Len(SubSeq(t, h + 4, k)) = k - (h + 4) + 1
      BY <2>5
    <3>3. k - (h + 4) + 1 = k - h - 3
      BY <2>3
    <3> QED
      BY <1>2, <1>4, <2>2, <3>1, <3>2, <3>3 DEF Is
  <2>7. CASE Len(q.content) + 1 = q.content_size
    <3>1. e.state = "good"
      BY <1>2, <1>4, <2>7 DEF Is
    <3>2. h + 3 + z = n /\ z >= 1
      <4>1. (k - h - 3) + 1 = z
        BY <2>6, <2>7 DEF z
      <4>2. k >= h + 3 /\ k \in Nat /\ h \in Nat /\ z \in Nat /\ n = k + 1
        BY <1>1, <2>2, <2>3 DEF n
      <4> QED
        BY <4>1, <4>2
    <3>3. Finished(t) /\ Body(t) = SubSeq(t, h + 4, n)
      <4>1. HeadEnd(t) + 3 + Declared(t) = n /\ Declared(t) >= 1 /\ IsHead(t)
        BY <2>2, <3>2 DEF h, z, Headed
      <4>2. n <= Len(t)
        BY <1>1
      <4>3. Has(t, "Content-Length")
        BY <2>2 DEF CL
      <4>4. Finished(t)
        <5>1. Len(t) >= HeadEnd(t) + 3 + Declared(t)
          BY <1>1, <4>1, <4>2
        <5> QED
          BY <4>1, <5>1 DEF Finished, CL
      <4> QED
        BY <4>1, <4>3, <4>4 DEF Body, h
    <3>4. AtGood(e, t)
      BY <2>4, <2>6, <3>3 DEF AtGood
    <3> QED
      BY <3>1, <3>4, Tells DEF e, c, n
  <2>8. CASE Len(q.content) + 1 # q.content_size
    <3>1. e.state = "content"
      BY <1>2, <1>4, <2>8 DEF Is
    <3>2. z = 0 \/ n - h - 3 < z
      <4>1. (k - h - 3) + 1 # z
        BY <2>6, <2>8 DEF z
      <4>2. (z = 0 \/ k - h - 3 < z) /\ k \in Nat /\ h \in Nat /\ z \in Nat /\ n = k + 1
        BY <1>1, <2>2, <2>3 DEF n
      <4> QED
        BY <4>1, <4>2
    <3>3. n >= h + 3
      BY <1>1, <2>2, <2>3 DEF n
    <3>4. AtContent(e, t, n)
      BY <2>2, <2>4, <2>6, <3>2, <3>3 DEF AtContent, h
    <3> QED
      BY <3>1, <3>4, Tells DEF e, c, n
  <2> QED
    BY <2>7, <2>8
<1> QED
  BY <1>3, <1>4, OtherRules

-----------------------------------------------------------------------------
(* The other way round: within a complete request there is a rule for      *)
(* every symbol.                                                           *)
Goes(q, c) == \E r \in Rules : r.from = q.state /\ c \in r.on
                               /\ (r.does = "continue" => q.headers # <<>>)

Allows(from, on) == \E r \in Rules : r.from = from /\ r.on = on /\ r.does # "continue"

LEMMA RulesAre ==
  /\ Allows("method_start", Token) /\ Allows("method", {"SP"}) /\ Allows("method", Token)
  /\ Allows("uri", {"SP"}) /\ Allows("uri", Text \ {"SP"})
  /\ \A n \in 0..4 : Allows(HttpStates[n + 1], {Http[n + 1]})
  /\ Allows("http_version_major_start", Digit) /\ Allows("http_version_major", {"."})
  /\ Allows("http_version_major", Digit) /\ Allows("http_version_minor_start", Digit)
  /\ Allows("http_version_minor", {"CR"}) /\ Allows("http_version_minor", Digit)
  /\ Allows("expecting_newline_1", {"LF"})
  /\ Allows("header_line_start", {"CR"}) /\ Allows("header_line_start", Token)
  /\ \E r \in Rules : r.from = "header_line_start" /\ r.on = Lws /\ r.does = "continue"
  /\ Allows("header_lws", {"CR"}) /\ Allows("header_lws", Lws) /\ Allows("header_lws", Text \ Lws)
  /\ Allows("header_name", {":"}) /\ Allows("header_name", Token)
  /\ Allows("space_before_header_value", {"SP"})
  /\ Allows("header_value", {"CR"}) /\ Allows("header_value", Text)
  /\ Allows("expecting_newline_2", {"LF"})
  /\ Allows("expecting_newline_3", {"LF"}) /\ Allows("content", Symbol)
<1>0. \A from, on, to, does : /\ Rule(from, on, to, does).from = from
                              /\ Rule(from, on, to, does).on = on
                              /\ Rule(from, on, to, does).does = does
  BY DEF Rule
<1>1. \A from, on, to, does :
        Rule(from, on, to, does) \in Rules /\ does # "continue" => Allows(from, on)
  BY <1>0 DEF Allows
<1>2. /\ Rule("method_start", Token, "method", "method") \in Rules
      /\ Rule("method", {"SP"}, "uri", "skip") \in Rules
      /\ Rule("method", Token, "method", "method") \in Rules
      /\ Rule("uri", {"SP"}, "http_version_h", "skip") \in Rules
      /\ Rule("uri", Text \ {"SP"}, "uri", "uri") \in Rules
      /\ Rule("http_version_h", {"H"}, "http_version_t_1", "skip") \in Rules
      /\ Rule("http_version_t_1", {"T"}, "http_version_t_2", "skip") \in Rules
      /\ Rule("http_version_t_2", {"T"}, "http_version_p", "skip") \in Rules
      /\ Rule("http_version_p", {"P"}, "http_version_slash", "skip") \in Rules
      /\ Rule("http_version_slash", {"/"}, "http_version_major_start", "skip") \in Rules
      /\ Rule("http_version_major_start", Digit, "http_version_major", "skip") \in Rules
      /\ Rule("http_version_major", {"."}, "http_version_minor_start", "skip") \in Rules
      /\ Rule("http_version_major", Digit, "http_version_major", "skip") \in Rules
      /\ Rule("http_version_minor_start", Digit, "http_version_minor", "skip") \in Rules
      /\ Rule("http_version_minor", {"CR"}, "expecting_newline_1", "skip") \in Rules
      /\ Rule("http_version_minor", Digit, "http_version_minor", "skip") \in Rules
      /\ Rule("expecting_newline_1", {"LF"}, "header_line_start", "skip") \in Rules
  BY DEF Rules, RequestLineRules
<1>3. /\ Rule("header_line_start", {"CR"}, "expecting_newline_3", "skip") \in Rules
      /\ Rule("header_line_start", Lws, "header_lws", "continue") \in Rules
      /\ Rule("header_line_start", Token, "header_name", "header") \in Rules
      /\ Rule("header_lws", {"CR"}, "expecting_newline_2", "skip") \in Rules
      /\ Rule("header_lws", Lws, "header_lws", "skip") \in Rules
      /\ Rule("header_lws", Text \ Lws, "header_value", "value") \in Rules
      /\ Rule("header_name", {":"}, "space_before_header_value", "named") \in Rules
      /\ Rule("header_name", Token, "header_name", "name") \in Rules
      /\ Rule("space_before_header_value", {"SP"}, "header_value", "skip") \in Rules
      /\ Rule("header_value", {"CR"}, "expecting_newline_2", "valued") \in Rules
      /\ Rule("header_value", Text, "header_value", "value") \in Rules
      /\ Rule("expecting_newline_2", {"LF"}, "header_line_start", "skip") \in Rules
      /\ Rule("expecting_newline_3", {"LF"}, "content", "end_of_headers") \in Rules
      /\ Rule("content", Symbol, "content", "content") \in Rules
  BY DEF Rules, HeaderRules, ContentRules
<1>4. \A n \in 0..4 : Allows(HttpStates[n + 1], {Http[n + 1]})
  <2>1. /\ Http[1] = "H" /\ Http[2] = "T" /\ Http[3] = "T" /\ Http[4] = "P" /\ Http[5] = "/"
    BY DEF Http
  <2>2. /\ Allows("http_version_h", {"H"}) /\ Allows("http_version_t_1", {"T"})
        /\ Allows("http_version_t_2", {"T"}) /\ Allows("http_version_p", {"P"})
        /\ Allows("http_version_slash", {"/"})
    BY <1>1, <1>2
  <2>3. \A n \in 0..4 : n = 0 \/ n = 1 \/ n = 2 \/ n = 3 \/ n = 4
    OBVIOUS
  <2> QED
    BY <2>1, <2>2, <2>3, HttpNames
<1>5. \E r \in Rules : r.from = "header_line_start" /\ r.on = Lws /\ r.does = "continue"
  BY <1>0, <1>3
<1> QED
  BY <1>1, <1>2, <1>3, <1>4, <1>5

LEMMA Allowed ==
  ASSUME NEW q, NEW from, q.state = from, NEW on, Allows(from, on), NEW c \in on
  PROVE  Goes(q, c)
BY DEF Allows, Goes

(* Where the parts of a first line end is certain.                         *)
LEMMA SameVerb ==
  ASSUME NEW t, NEW i \in Nat, NEW x \in Nat, Verb(t, i), Verb(t, x) PROVE i = x
<1>1. ~(i < x)
  <2> SUFFICES ASSUME i < x PROVE FALSE
    OBVIOUS
  <2>1. i \in 1..x - 1
    BY DEF Verb
  <2> QED
    BY <2>1, Classes DEF Verb, Span
<1>2. ~(x < i)
  <2> SUFFICES ASSUME x < i PROVE FALSE
    OBVIOUS
  <2>1. x \in 1..i - 1
    BY DEF Verb
  <2> QED
    BY <2>1, Classes DEF Verb, Span
<1> QED
  BY <1>1, <1>2

LEMMA SameUri ==
  ASSUME NEW t, NEW i \in Nat, NEW j \in Nat, NEW x \in Nat, Uri(t, i, j), Uri(t, i, x)
  PROVE  j = x
<1>1. ~(j < x)
  <2> SUFFICES ASSUME j < x PROVE FALSE
    OBVIOUS
  <2>1. j \in i + 1..x - 1
    BY DEF Uri
  <2> QED
    BY <2>1 DEF Uri, Span
<1>2. ~(x < j)
  <2> SUFFICES ASSUME x < j PROVE FALSE
    OBVIOUS
  <2>1. x \in i + 1..j - 1
    BY DEF Uri
  <2> QED
    BY <2>1 DEF Uri, Span
<1> QED
  BY <1>1, <1>2

LEMMA SameMajor ==
  ASSUME NEW t, NEW j \in Nat, NEW d \in Nat, NEW x \in Nat, Major(t, j, d), Major(t, j, x)
  PROVE  d = x
<1>1. ~(d < x)
  <2> SUFFICES ASSUME d < x PROVE FALSE
    OBVIOUS
  <2>1. d \in j + 6..x - 1
    BY DEF Major
  <2> QED
    BY <2>1, Classes DEF Major, Span
<1>2. ~(x < d)
  <2> SUFFICES ASSUME x < d PROVE FALSE
    OBVIOUS
  <2>1. x \in j + 6..d - 1
    BY DEF Major
  <2> QED
    BY <2>1, Classes DEF Major, Span
<1> QED
  BY <1>1, <1>2

(* The first line of a head.                                               *)
LEMMA FirstLineAt ==
  ASSUME NEW t \in Seq(Symbol), IsHead(t)
  PROVE  \E e \in 1..Len(t) : \E i, j, d \in 1..e - 1 :
           /\ Verb(t, i) /\ Uri(t, i, j) /\ Slash(t, j, 5) /\ Major(t, j, d)
           /\ d < e - 1 /\ Span(t, d + 1, e - 1, Digit) /\ Crlf(t, e)
<1> DEFINE e == LineEnd(t, 1)
           l == Line(t, 1)
<1>1. IsRequestLine(l) /\ HeadEnds(t) # {}
  BY DEF IsHead
<1>2. HeadEnd(t) \in 1..Len(t) /\ Crlf(t, HeadEnd(t))
  BY <1>1, HeadEndAt
<1>3. 1 \in 1..Len(t) /\ e \in 1..Len(t) + 1 /\ Crlf(t, e)
  <2>1. 1 \in 1..Len(t)
    BY <1>2
  <2> QED
    BY <1>2, <2>1, LineEndAt
<1>4. e \in 1..Len(t)
  BY <1>3 DEF Crlf
<1>5. l \in Seq(Symbol) /\ Len(l) = e - 1 /\ \A x \in 1..e - 1 : l[x] = t[x]
  <2>1. l \in Seq(Symbol) /\ Len(l) = e - 1 /\ \A x \in 1..e - 1 : l[x] = t[1 + x - 1]
    BY <1>3, LineIs
  <2>2. \A x \in 1..e - 1 : 1 + x - 1 = x
    BY <1>3
  <2> HIDE DEF e, l
  <2> QED
    BY <2>1, <2>2
<1> HIDE DEF e, l
<1>6. PICK i \in Nat, j \in Nat, d \in Nat : RequestLineAt(l, i, j, d)
  BY <1>1, <1>5, RequestLineIs
<1>7. /\ 1 < i /\ i < j /\ j + 6 < d /\ d < e - 1 /\ l[i] = "SP" /\ l[j] = "SP" /\ l[d] = "."
      /\ Span(l, 1, i - 1, Token) /\ Span(l, i + 1, j - 1, Text \ {"SP"})
      /\ Span(l, j + 6, d - 1, Digit) /\ Span(l, d + 1, e - 1, Digit)
      /\ \A m \in 1..5 : l[j + m] = Http[m]
  BY <1>5, <1>6 DEF RequestLineAt
<1>8. /\ 1 < i /\ i < j /\ j + 6 < d /\ d < e - 1 /\ e \in Nat
  BY <1>4, <1>7
<1>9. /\ \A x \in 1..i - 1 : x \in 1..e - 1
      /\ \A x \in i + 1..j - 1 : x \in 1..e - 1
      /\ \A x \in j + 6..d - 1 : x \in 1..e - 1
      /\ \A x \in d + 1..e - 1 : x \in 1..e - 1
      /\ \A m \in 1..5 : j + m \in 1..e - 1
      /\ i \in 1..e - 1 /\ j \in 1..e - 1 /\ d \in 1..e - 1
  BY <1>8
<1>10. /\ Span(t, 1, i - 1, Token) /\ Span(t, i + 1, j - 1, Text \ {"SP"})
       /\ Span(t, j + 6, d - 1, Digit) /\ Span(t, d + 1, e - 1, Digit)
       /\ t[i] = "SP" /\ t[j] = "SP" /\ t[d] = "."
  BY <1>5, <1>7, <1>9 DEF Span
<1>11. \A m \in 1..5 : t[j + m] = Http[m]
  BY <1>5, <1>7, <1>9
<1>12. Verb(t, i) /\ Uri(t, i, j) /\ Slash(t, j, 5) /\ Major(t, j, d)
  BY <1>8, <1>10, <1>11 DEF Verb, Uri, Slash, Major
<1> QED
  BY <1>3, <1>4, <1>8, <1>9, <1>10, <1>12

LEMMA FirstGoes ==
  ASSUME NEW q, NEW t \in Seq(Symbol), NEW k \in 0..Len(t), IsHead(t), Knows(q, t, k),
         q.state \in {"method_start", "method", "uri", "http_version_h", "http_version_t_1",
              "http_version_t_2", "http_version_p", "http_version_slash",
              "http_version_major_start", "http_version_major",
              "http_version_minor_start", "http_version_minor", "expecting_newline_1"}
  PROVE  k < Len(t) /\ Goes(q, t[k + 1])
<1>1. PICK e \in 1..Len(t) : \E i, j, d \in 1..e - 1 :
           /\ Verb(t, i) /\ Uri(t, i, j) /\ Slash(t, j, 5) /\ Major(t, j, d)
           /\ d < e - 1 /\ Span(t, d + 1, e - 1, Digit) /\ Crlf(t, e)
  BY FirstLineAt
<1>2. PICK i \in 1..e - 1, j \in 1..e - 1, d \in 1..e - 1 :
           /\ Verb(t, i) /\ Uri(t, i, j) /\ Slash(t, j, 5) /\ Major(t, j, d)
           /\ d < e - 1 /\ Span(t, d + 1, e - 1, Digit) /\ Crlf(t, e)
  BY <1>1
<1>3. /\ 1 < i /\ Span(t, 1, i - 1, Token) /\ t[i] = "SP"
      /\ i < j /\ Span(t, i + 1, j - 1, Text \ {"SP"}) /\ t[j] = "SP"
      /\ j + 6 < d /\ Span(t, j + 6, d - 1, Digit) /\ t[d] = "."
      /\ e < Len(t) /\ t[e] = "CR" /\ t[e + 1] = "LF"
  BY <1>2 DEF Verb, Uri, Major, Crlf
<1>4. /\ 1 < i /\ i < j /\ j + 6 < d /\ d < e - 1 /\ e < Len(t) /\ Len(t) \in Nat /\ k \in Nat
      /\ i \in Nat /\ j \in Nat /\ d \in Nat /\ e \in Nat
  BY <1>2, <1>3
<1>5. CASE q.state = "method_start"
  <2>1. k = 0 /\ 1 \in 1..i - 1 /\ k + 1 = 1 /\ k < Len(t)
    BY <1>4, <1>5 DEF Knows, AtMethodStart
  <2>2. t[k + 1] \in Token
    BY <1>3, <2>1 DEF Span
  <2> QED
    BY <1>5, <2>1, <2>2, RulesAre, Allowed
<1>6. CASE q.state = "method"
  <2>1. k >= 1 /\ Span(t, 1, k, Token)
    BY <1>6 DEF Knows, AtMethod
  <2>2. k < i
    <3>1. k >= i => i \in 1..k
      BY <1>4
    <3> QED
      BY <1>3, <1>4, <2>1, <3>1, Classes DEF Span
  <2>3. k < Len(t) /\ (k + 1 = i \/ k + 1 \in 1..i - 1)
    BY <1>4, <2>2
  <2>4. t[k + 1] \in {"SP"} \/ t[k + 1] \in Token
    BY <1>3, <2>3 DEF Span
  <2> QED
    BY <1>6, <2>3, <2>4, RulesAre, Allowed
<1>7. CASE q.state = "uri"
  <2>1. PICK x \in 1..k : Verb(t, x) /\ Span(t, x + 1, k, Text \ {"SP"})
    BY <1>7 DEF Knows, AtUri
  <2>2. x = i
    BY <1>2, <1>4, <2>1, SameVerb
  <2>3. k < j
    <3>1. k >= j => j \in i + 1..k
      BY <1>4
    <3> QED
      BY <1>3, <1>4, <2>1, <2>2, <3>1 DEF Span
  <2>4. k < Len(t) /\ (k + 1 = j \/ k + 1 \in i + 1..j - 1)
    <3>1. k >= i
      BY <2>1, <2>2
    <3> QED
      BY <1>4, <2>3, <3>1
  <2>5. t[k + 1] \in {"SP"} \/ t[k + 1] \in Text \ {"SP"}
    BY <1>3, <2>4 DEF Span
  <2> QED
    BY <1>7, <2>4, <2>5, RulesAre, Allowed
<1>8. ASSUME NEW x \in 1..k, NEW y \in 1..k, Asked(q, t, x, y)
      PROVE  x = i /\ y = j
  <2>1. Verb(t, x) /\ Uri(t, x, y)
    BY <1>8 DEF Asked
  <2>2. x = i
    BY <1>2, <1>4, <2>1, SameVerb
  <2> QED
    BY <1>2, <1>4, <2>1, <2>2, SameUri
<1>9. ASSUME NEW n \in 0..5, q.state = HttpStates[n + 1]
      PROVE  k < Len(t) /\ Goes(q, t[k + 1])
  <2>1. PICK x \in 1..k, y \in 1..k : Asked(q, t, x, y) /\ k = y + n
    BY <1>9 DEF Knows, AtHttp
  <2>2. k = j + n
    BY <1>8, <2>1
  <2>3. k < Len(t)
    BY <1>4, <2>2
  <2>4. CASE n = 5
    <3>1. k + 1 = j + 6 /\ j + 6 \in j + 6..d - 1
      BY <1>4, <2>2, <2>4
    <3>2. t[k + 1] \in Digit
      BY <1>3, <3>1 DEF Span
    <3>3. q.state = "http_version_major_start"
      BY <1>9, <2>4, HttpNames
    <3> QED
      BY <2>3, <3>2, <3>3, RulesAre, Allowed
  <2>5. CASE n # 5
    <3>1. n \in 0..4 /\ n + 1 \in 1..5 /\ k + 1 = j + (n + 1)
      BY <1>4, <2>2, <2>5
    <3>2. t[k + 1] \in {Http[n + 1]}
      <4>1. \A m \in 1..5 : t[j + m] = Http[m]
        BY <1>2 DEF Slash
      <4>2. t[j + (n + 1)] = Http[n + 1]
        BY <3>1, <4>1
      <4> QED
        BY <3>1, <4>2
    <3>3. Allows(HttpStates[n + 1], {Http[n + 1]})
      BY <3>1, RulesAre
    <3> QED
      BY <1>9, <2>3, <3>2, <3>3, Allowed
  <2> QED
    BY <2>4, <2>5
<1>10. CASE q.state = "http_version_major"
  <2>1. PICK x \in 1..k, y \in 1..k :
          Asked(q, t, x, y) /\ y + 6 <= k /\ Span(t, y + 6, k, Digit)
    BY <1>10 DEF Knows, AtMajor
  <2>2. j + 6 <= k /\ Span(t, j + 6, k, Digit)
    BY <1>8, <2>1
  <2>3. k < d
    <3>1. k >= d => d \in j + 6..k
      BY <1>4
    <3> QED
      BY <1>3, <1>4, <2>2, <3>1, Classes DEF Span
  <2>4. k < Len(t) /\ (k + 1 = d \/ k + 1 \in j + 6..d - 1)
    BY <1>4, <2>2, <2>3
  <2>5. t[k + 1] \in {"."} \/ t[k + 1] \in Digit
    BY <1>3, <2>4 DEF Span
  <2> QED
    BY <1>10, <2>4, <2>5, RulesAre, Allowed
<1>11. CASE q.state = "http_version_minor_start"
  <2>1. PICK x \in 1..k, y \in 1..k : Asked(q, t, x, y) /\ Major(t, y, k)
    BY <1>11 DEF Knows, AtDot
  <2>2. k = d
    BY <1>2, <1>4, <1>8, <2>1, SameMajor
  <2>3. k < Len(t) /\ k + 1 \in d + 1..e - 1
    BY <1>4, <2>2
  <2>4. t[k + 1] \in Digit
    BY <1>2, <2>3 DEF Span
  <2> QED
    BY <1>11, <2>3, <2>4, RulesAre, Allowed
<1>12. ASSUME NEW x \in 1..k, NEW y \in 1..k, NEW z \in 1..k,
              Asked(q, t, x, y), Major(t, y, z)
       PROVE  z = d
  BY <1>2, <1>4, <1>8, <1>12, SameMajor
<1>13. CASE q.state = "http_version_minor"
  <2>1. PICK x \in 1..k, y \in 1..k, z \in 1..k :
          Asked(q, t, x, y) /\ Major(t, y, z) /\ z < k /\ Span(t, z + 1, k, Digit)
    BY <1>13 DEF Knows, AtMinor
  <2>2. d < k /\ Span(t, d + 1, k, Digit)
    BY <1>12, <2>1
  <2>3. k < e
    <3>1. k >= e => e \in d + 1..k
      BY <1>4
    <3> QED
      BY <1>3, <1>4, <2>2, <3>1, Classes DEF Span
  <2>4. k < Len(t) /\ (k + 1 = e \/ k + 1 \in d + 1..e - 1)
    BY <1>4, <2>2, <2>3
  <2>5. t[k + 1] \in {"CR"} \/ t[k + 1] \in Digit
    BY <1>2, <1>3, <2>4 DEF Span
  <2> QED
    BY <1>13, <2>4, <2>5, RulesAre, Allowed
<1>14. CASE q.state = "expecting_newline_1"
  <2>1. PICK x \in 1..k, y \in 1..k, z \in 1..k :
          /\ Asked(q, t, x, y) /\ Major(t, y, z) /\ z < k - 1 /\ Span(t, z + 1, k - 1, Digit)
          /\ t[k] = "CR"
    BY <1>14 DEF Knows, AtCr1
  <2>2. d < k - 1 /\ Span(t, d + 1, k - 1, Digit) /\ t[k] = "CR"
    BY <1>12, <2>1
  <2>3. k = e
    <3>1. ~(k < e)
      <4>1. k < e => k \in d + 1..e - 1
        BY <1>4, <2>2
      <4> QED
        BY <1>2, <2>2, <4>1, Classes DEF Span
    <3>2. ~(e < k)
      <4>1. e < k => e \in d + 1..k - 1
        BY <1>4, <2>2
      <4> QED
        BY <1>3, <2>2, <4>1, Classes DEF Span
    <3> QED
      BY <1>4, <3>1, <3>2
  <2>4. k < Len(t) /\ t[k + 1] \in {"LF"}
    BY <1>3, <2>3
  <2> QED
    BY <1>14, <2>4, RulesAre, Allowed
<1>15. q.state \in {"http_version_h", "http_version_t_1", "http_version_t_2",
                    "http_version_p", "http_version_slash", "http_version_major_start"}
         => \E n \in 0..5 : q.state = HttpStates[n + 1]
  <2>1. 0 \in 0..5 /\ 1 \in 0..5 /\ 2 \in 0..5 /\ 3 \in 0..5 /\ 4 \in 0..5 /\ 5 \in 0..5
        /\ 0 + 1 = 1 /\ 1 + 1 = 2 /\ 2 + 1 = 3 /\ 3 + 1 = 4 /\ 4 + 1 = 5 /\ 5 + 1 = 6
    OBVIOUS
  <2> QED
    BY <2>1, HttpNames
<1> QED
  BY <1>5, <1>6, <1>7, <1>9, <1>10, <1>11, <1>13, <1>14, <1>15

(* The line at a place that lines go before.                               *)
LEMMA NextLine ==
  ASSUME NEW t \in Seq(Symbol), NEW b \in 1..Len(t) + 1, IsHead(t), Before(t, b)
  PROVE  \/ b + 1 <= Len(t) /\ Crlf(t, b)
         \/ \E e \in b + 1..Len(t) : Crlf(t, e) /\ \E c \in Nat : ValueTo(t, b, c, e - 1)
         \/ /\ HeadersTo(t, b - 1) # <<>>
            /\ \E e \in b + 1..Len(t) : Crlf(t, e) /\ \E m \in Nat : MoreTo(t, b, m, e - 1)
<1> DEFINE h == HeadEnd(t)
<1>1. h \in 1..Len(t) /\ Crlf(t, h) /\ Crlf(t, h + 2) /\ h + 3 <= Len(t)
  BY HeadEndAt DEF IsHead
<1>2. /\ b > 2 /\ Crlf(t, b - 2) /\ StartsLine(t, b)
      /\ \A a \in 2..b - 1 : StartsLine(t, a) => IsHeaderLine(t, a)
      /\ HeadersTo(t, b - 1) = <<>> <=> \A a \in 2..b - 1 : ~StartsLine(t, a)
  BY DEF Before, StartsLine
<1>3. \A a \in 2..h : StartsLine(t, a) => IsHeaderLine(t, a)
  BY DEF IsHead
<1> HIDE DEF h
<1>4. ~(b > h + 2)
  <2> SUFFICES ASSUME b > h + 2 PROVE FALSE
    OBVIOUS
  <2>1. h + 2 \in 2..b - 1 /\ h + 2 > 2 /\ (h + 2) - 2 = h /\ h + 2 \in 1..Len(t)
    BY <1>1
  <2>2. StartsLine(t, h + 2)
    BY <1>1, <2>1 DEF StartsLine
  <2> QED
    BY <1>1, <1>2, <2>1, <2>2, EmptyLine
<1>5. b # h + 1
  <2> SUFFICES ASSUME b = h + 1 PROVE FALSE
    OBVIOUS
  <2>1. (b - 2) + 1 = h
    BY <1>1
  <2> QED
    BY <1>1, <1>2, <2>1 DEF Crlf
<1>6. CASE b = h + 2
  BY <1>1, <1>6
<1>7. CASE b <= h
  <2>1. b \in 2..h /\ b \in 1..Len(t) /\ h \in b..Len(t)
    BY <1>1, <1>2, <1>7
  <2>2. IsHeaderLine(t, b)
    BY <1>2, <1>3, <2>1
  <2>3. PICK e \in b..Len(t) + 1 : e = LineEnd(t, b) /\ Crlf(t, e)
    BY <1>1, <2>1, LineEndAt
  <2>4. e \in b..Len(t)
    BY <2>3 DEF Crlf
  <2>5. e # b
    <3>1. Crlf(t, b) => ~IsHeaderLine(t, b)
      BY <2>1, EmptyLine
    <3> QED
      BY <2>2, <2>3, <3>1
  <2>6. e \in b + 1..Len(t)
    BY <2>4, <2>5
  <2>7. /\ IsHeader(Line(t, b)) => \E c \in Nat : ValueTo(t, b, c, e - 1)
        /\ IsContinuation(Line(t, b)) => \E m \in Nat : MoreTo(t, b, m, e - 1)
    BY <2>1, <2>3, <2>4, LineShape
  <2> QED
    BY <1>2, <2>2, <2>3, <2>6, <2>7 DEF IsHeaderLine
<1> QED
  BY <1>1, <1>4, <1>5, <1>6, <1>7

(* A header line starts with a token, a continuation line with white       *)
(* space, and neither holds a carriage return.                             *)
LEMMA LineStarts ==
  ASSUME NEW t \in Seq(Symbol), NEW b \in 1..Len(t), NEW k \in b..Len(t)
  PROVE  /\ \A c \in Nat : ValueTo(t, b, c, k) =>
              t[b] \in Token /\ b < c /\ c < k /\ Clean(t, b, k)
         /\ \A m \in Nat : MoreTo(t, b, m, k) => t[b] \in Lws /\ Clean(t, b, k)
<1>1. ASSUME NEW c \in Nat, ValueTo(t, b, c, k)
      PROVE  t[b] \in Token /\ b < c /\ c < k /\ Clean(t, b, k)
  <2>1. /\ b < c /\ c < k /\ t[c] = ":" /\ t[c + 1] = "SP"
        /\ Span(t, b, c - 1, Token) /\ Span(t, c + 2, k, Text)
    BY <1>1 DEF ValueTo, NameAt
  <2>2. b \in b..c - 1
    BY <2>1
  <2>3. \A i \in b..k : i \in b..c - 1 \/ i = c \/ i = c + 1 \/ i \in c + 2..k
    BY <2>1
  <2> QED
    BY <2>1, <2>2, <2>3, Classes DEF Span, Clean
<1>2. ASSUME NEW m \in Nat, MoreTo(t, b, m, k) PROVE t[b] \in Lws /\ Clean(t, b, k)
  <2>1. b < m /\ Span(t, b, m - 1, Lws) /\ Span(t, m, k, Text)
    BY <1>2 DEF MoreTo
  <2>2. b \in b..m - 1 /\ \A i \in b..k : i \in b..m - 1 \/ i \in m..k
    BY <2>1
  <2> QED
    BY <2>1, <2>2, Classes DEF Span, Clean
<1> QED
  BY <1>1, <1>2

(* The line that starts at b, with a token or with white space.            *)
LEMMA TokenLine ==
  ASSUME NEW t \in Seq(Symbol), NEW b \in 1..Len(t), IsHead(t), Before(t, b), t[b] \in Token
  PROVE  \E e \in b + 1..Len(t), c \in Nat :
           Crlf(t, e) /\ ValueTo(t, b, c, e - 1) /\ Clean(t, b, e - 1)
<1>1. ~Crlf(t, b)
  BY Classes DEF Crlf
<1>2. ASSUME NEW e \in b + 1..Len(t), NEW m \in Nat, MoreTo(t, b, m, e - 1) PROVE FALSE
  <2>1. e - 1 \in b..Len(t)
    OBVIOUS
  <2>2. t[b] \in Lws
    BY <1>2, <2>1, LineStarts
  <2> QED
    BY <2>2, Classes
<1>3. b \in 1..Len(t) + 1
  OBVIOUS
<1>4. PICK e \in b + 1..Len(t) : Crlf(t, e) /\ \E c \in Nat : ValueTo(t, b, c, e - 1)
  BY <1>1, <1>2, <1>3, NextLine
<1>5. PICK c \in Nat : ValueTo(t, b, c, e - 1)
  BY <1>4
<1>6. e - 1 \in b..Len(t)
  OBVIOUS
<1> QED
  BY <1>4, <1>5, <1>6, LineStarts

LEMMA BlankLine ==
  ASSUME NEW t \in Seq(Symbol), NEW b \in 1..Len(t), IsHead(t), Before(t, b), t[b] \in Lws
  PROVE  \E e \in b + 1..Len(t), m \in Nat :
           Crlf(t, e) /\ MoreTo(t, b, m, e - 1) /\ Clean(t, b, e - 1)
<1>1. ~Crlf(t, b)
  BY Classes DEF Crlf
<1>2. ASSUME NEW e \in b + 1..Len(t), NEW c \in Nat, ValueTo(t, b, c, e - 1) PROVE FALSE
  <2>1. e - 1 \in b..Len(t)
    OBVIOUS
  <2>2. t[b] \in Token
    BY <1>2, <2>1, LineStarts
  <2> QED
    BY <2>2, Classes
<1>3. b \in 1..Len(t) + 1
  OBVIOUS
<1>4. PICK e \in b + 1..Len(t) : Crlf(t, e) /\ \E m \in Nat : MoreTo(t, b, m, e - 1)
  BY <1>1, <1>2, <1>3, NextLine
<1>5. PICK m \in Nat : MoreTo(t, b, m, e - 1)
  BY <1>4
<1>6. e - 1 \in b..Len(t)
  OBVIOUS
<1> QED
  BY <1>4, <1>5, <1>6, LineStarts

(* What has been read of the line cannot have passed its end.              *)
LEMMA Within ==
  ASSUME NEW t \in Seq(Symbol), NEW b \in 1..Len(t), NEW e \in b + 1..Len(t), Crlf(t, e),
         NEW k \in b..Len(t), Clean(t, b, k)
  PROVE  k < e /\ e < Len(t) /\ t[e] = "CR" /\ t[e + 1] = "LF"
<1>1. e + 1 <= Len(t) /\ t[e] = "CR" /\ t[e + 1] = "LF"
  BY DEF Crlf
<1>2. k >= e => e \in b..k
  OBVIOUS
<1> QED
  BY <1>1, <1>2 DEF Clean

LEMMA SpanClean ==
  ASSUME NEW t, NEW b, NEW k, NEW S \in {Token, Lws}, Span(t, b, k, S)
  PROVE  Clean(t, b, k)
BY Classes DEF Span, Clean

LEMMA LineGoes ==
  ASSUME NEW q, NEW t \in Seq(Symbol), NEW k \in 0..Len(t), IsHead(t), Knows(q, t, k),
         q.state = "header_line_start"
  PROVE  k < Len(t) /\ Goes(q, t[k + 1])
<1>1. Before(t, k + 1) /\ q.headers = HeadersTo(t, k) /\ k + 1 \in 1..Len(t) + 1 /\ (k + 1) - 1 = k
  BY DEF Knows, AtLine, Filled
<1> DEFINE b == k + 1
<1>2. \/ b + 1 <= Len(t) /\ Crlf(t, b)
      \/ \E e \in b + 1..Len(t) : Crlf(t, e) /\ \E c \in Nat : ValueTo(t, b, c, e - 1)
      \/ /\ HeadersTo(t, b - 1) # <<>>
         /\ \E e \in b + 1..Len(t) : Crlf(t, e) /\ \E m \in Nat : MoreTo(t, b, m, e - 1)
  BY <1>1, NextLine
<1>3. b < Len(t) => b \in 1..Len(t) /\ k < Len(t)
  BY <1>1
<1>4. CASE b + 1 <= Len(t) /\ Crlf(t, b)
  <2>1. k < Len(t) /\ t[k + 1] \in {"CR"}
    BY <1>4 DEF Crlf
  <2> QED
    BY <2>1, RulesAre, Allowed
<1>5. ASSUME NEW e \in b + 1..Len(t), NEW c \in Nat, ValueTo(t, b, c, e - 1)
      PROVE  k < Len(t) /\ Goes(q, t[k + 1])
  <2>1. b \in 1..Len(t) /\ k < Len(t) /\ e - 1 \in b..Len(t)
    BY <1>1
  <2>2. t[k + 1] \in Token
    BY <1>5, <2>1, LineStarts
  <2> QED
    BY <2>1, <2>2, RulesAre, Allowed
<1>6. ASSUME NEW e \in b + 1..Len(t), NEW m \in Nat, MoreTo(t, b, m, e - 1),
             HeadersTo(t, b - 1) # <<>>
      PROVE  k < Len(t) /\ Goes(q, t[k + 1])
  <2>1. b \in 1..Len(t) /\ k < Len(t) /\ e - 1 \in b..Len(t)
    BY <1>1
  <2>2. t[k + 1] \in Lws
    BY <1>6, <2>1, LineStarts
  <2>3. q.headers # <<>>
    BY <1>1, <1>6
  <2> QED
    BY <2>1, <2>2, <2>3, RulesAre DEF Goes
<1> QED
  BY <1>2, <1>4, <1>5, <1>6

LEMMA NameGoes ==
  ASSUME NEW q, NEW t \in Seq(Symbol), NEW k \in 0..Len(t), IsHead(t), Knows(q, t, k),
         q.state \in {"header_lws", "header_name", "space_before_header_value"}
  PROVE  k < Len(t) /\ Goes(q, t[k + 1])
<1>0. \A b \in 1..k : b \in 1..Len(t) /\ k \in b..Len(t) /\ b \in b..k
  OBVIOUS
<1>1. CASE q.state = "header_lws"
  <2>1. PICK b \in 1..k : Before(t, b) /\ Span(t, b, k, Lws)
    BY <1>1 DEF Knows, AtBlank
  <2>2. t[b] \in Lws /\ Clean(t, b, k)
    BY <1>0, <2>1, SpanClean DEF Span
  <2>3. PICK e \in b + 1..Len(t), m \in Nat : Crlf(t, e) /\ MoreTo(t, b, m, e - 1)
    BY <1>0, <2>1, <2>2, BlankLine
  <2>4. k < e /\ e < Len(t) /\ t[e] = "CR"
    BY <1>0, <2>2, <2>3, Within
  <2>5. Span(t, b, m - 1, Lws) /\ Span(t, m, e - 1, Text)
    BY <2>3 DEF MoreTo
  <2>6. k < Len(t) /\ (k + 1 = e \/ k + 1 \in b..m - 1 \/ k + 1 \in m..e - 1)
    BY <2>4
  <2>7. t[k + 1] \in {"CR"} \/ t[k + 1] \in Lws \/ t[k + 1] \in Text \ Lws
    BY <2>4, <2>5, <2>6 DEF Span
  <2> QED
    BY <1>1, <2>6, <2>7, RulesAre, Allowed
<1>2. CASE q.state = "header_name"
  <2>1. PICK b \in 1..k : Before(t, b) /\ Span(t, b, k, Token)
    BY <1>2 DEF Knows, AtName
  <2>2. t[b] \in Token /\ Clean(t, b, k)
    BY <1>0, <2>1, SpanClean DEF Span
  <2>3. PICK e \in b + 1..Len(t), c \in Nat : Crlf(t, e) /\ ValueTo(t, b, c, e - 1)
    BY <1>0, <2>1, <2>2, TokenLine
  <2>4. b < c /\ c < e - 1 /\ Span(t, b, c - 1, Token) /\ t[c] = ":"
    BY <2>3 DEF ValueTo, NameAt
  <2>5. k < c
    <3>1. k >= c => c \in b..k
      BY <2>4
    <3> QED
      BY <2>1, <2>4, <3>1, Classes DEF Span
  <2>6. k < Len(t) /\ (k + 1 = c \/ k + 1 \in b..c - 1)
    BY <2>4, <2>5
  <2>7. t[k + 1] \in {":"} \/ t[k + 1] \in Token
    BY <2>4, <2>6 DEF Span
  <2> QED
    BY <1>2, <2>6, <2>7, RulesAre, Allowed
<1>3. CASE q.state = "space_before_header_value"
  <2>1. PICK b \in 1..k : Before(t, b) /\ NameAt(t, b, k)
    BY <1>3 DEF Knows, AtColon
  <2>2. b < k /\ Span(t, b, k - 1, Token) /\ t[k] = ":"
    BY <2>1 DEF NameAt
  <2>3. t[b] \in Token
    <3>1. b \in b..k - 1
      BY <2>2
    <3> QED
      BY <2>2, <3>1 DEF Span
  <2>4. PICK e \in b + 1..Len(t), c \in Nat : Crlf(t, e) /\ ValueTo(t, b, c, e - 1)
    BY <1>0, <2>1, <2>3, TokenLine
  <2>5. b < c /\ c < e - 1 /\ Span(t, b, c - 1, Token) /\ t[c] = ":" /\ t[c + 1] = "SP"
    BY <2>4 DEF ValueTo, NameAt
  <2>6. k = c
    <3>1. (k < c => k \in b..c - 1) /\ (c < k => c \in b..k - 1)
      BY <2>2, <2>5
    <3>2. ~(k < c) /\ ~(c < k)
      BY <2>2, <2>5, <3>1, Classes DEF Span
    <3> QED
      BY <3>2
  <2>7. k < Len(t) /\ t[k + 1] \in {"SP"}
    BY <2>5, <2>6
  <2> QED
    BY <1>3, <2>7, RulesAre, Allowed
<1> QED
  BY <1>1, <1>2, <1>3

LEMMA ValueGoes ==
  ASSUME NEW q, NEW t \in Seq(Symbol), NEW k \in 0..Len(t), IsHead(t), Knows(q, t, k),
         q.state \in {"header_value", "expecting_newline_2"}
  PROVE  k < Len(t) /\ Goes(q, t[k + 1])
<1>1. ASSUME NEW b \in 1..Len(t), NEW n \in b..Len(t), Valued(q, t, b, n)
      PROVE  \/ \E c \in Nat : ValueTo(t, b, c, n)
             \/ \E m \in Nat : MoreTo(t, b, m, n)
  <2>1. (\A c \in b..n : c \in Nat) /\ \A m \in b..n + 1 : m \in Nat
    OBVIOUS
  <2> QED
    BY <1>1, <2>1 DEF Valued
(* What lies before n of the line at b; where it ends, and what follows.   *)
<1>2. ASSUME NEW b \in 1..Len(t), NEW n \in b..Len(t), Before(t, b), Valued(q, t, b, n)
      PROVE  \E e \in n + 1..Len(t) :
               /\ Crlf(t, e) /\ Clean(t, b, e - 1)
               /\ ~Span(t, b, n, Lws) /\ n + 1 < e => t[n + 1] \in Text
  <2>0. n \in Nat /\ b \in Nat /\ Len(t) \in Nat /\ b <= n
    OBVIOUS
  <2>1. CASE \E c \in Nat : ValueTo(t, b, c, n)
    <3>1. PICK c \in Nat : ValueTo(t, b, c, n)
      BY <2>1
    <3>2. t[b] \in Token /\ b < c /\ c < n /\ Clean(t, b, n)
      BY <3>1, LineStarts
    <3>3. PICK e \in b + 1..Len(t), d \in Nat :
            Crlf(t, e) /\ ValueTo(t, b, d, e - 1) /\ Clean(t, b, e - 1)
      BY <1>2, <3>2, TokenLine
    <3>4. n < e
      BY <3>2, <3>3, Within
    <3>5. /\ b < d /\ Span(t, b, d - 1, Token) /\ t[d] = ":" /\ Span(t, d + 2, e - 1, Text)
          /\ Span(t, b, c - 1, Token) /\ t[c] = ":"
      BY <3>1, <3>3 DEF ValueTo, NameAt
    <3>6. d = c
      <4>1. (c < d => c \in b..d - 1) /\ (d < c => d \in b..c - 1)
        BY <2>0, <3>2, <3>5
      <4>2. ~(c < d) /\ ~(d < c)
        BY <3>5, <4>1, Classes DEF Span
      <4> QED
        BY <4>2
    <3>7. n + 1 < e => n + 1 \in d + 2..e - 1
      BY <2>0, <3>2, <3>6
    <3>8. e \in n + 1..Len(t)
      BY <2>0, <3>4
    <3>9. n + 1 < e => t[n + 1] \in Text
      BY <3>5, <3>7 DEF Span
    <3> QED
      BY <3>3, <3>8, <3>9
  <2>2. CASE \E m \in Nat : MoreTo(t, b, m, n)
    <3>1. PICK m \in Nat : MoreTo(t, b, m, n)
      BY <2>2
    <3>2. t[b] \in Lws /\ Clean(t, b, n)
      BY <3>1, LineStarts
    <3>3. PICK e \in b + 1..Len(t), d \in Nat :
            Crlf(t, e) /\ MoreTo(t, b, d, e - 1) /\ Clean(t, b, e - 1)
      BY <1>2, <3>2, BlankLine
    <3>4. n < e
      BY <3>2, <3>3, Within
    <3>5. /\ b < m /\ m <= n + 1 /\ Span(t, b, m - 1, Lws) /\ (m <= n => t[m] \notin Lws)
          /\ Span(t, b, d - 1, Lws) /\ Span(t, d, e - 1, Text)
      BY <3>1, <3>3 DEF MoreTo
    <3>6. ASSUME ~Span(t, b, n, Lws) PROVE d <= n
      <4>1. m <= n
        <5>1. m = n + 1 => m - 1 = n
          BY <2>0
        <5>2. m # n + 1
          BY <3>5, <3>6, <5>1
        <5> QED
          BY <2>0, <3>5, <5>2
      <4>2. d > m => m \in b..d - 1
        BY <2>0, <3>5
      <4>3. ~(d > m)
        BY <3>5, <4>1, <4>2 DEF Span
      <4> QED
        BY <2>0, <4>1, <4>3
    <3>7. ASSUME ~Span(t, b, n, Lws), n + 1 < e PROVE t[n + 1] \in Text
      <4>1. n + 1 \in d..e - 1
        BY <2>0, <3>6, <3>7
      <4> QED
        BY <3>5, <4>1 DEF Span
    <3>8. e \in n + 1..Len(t)
      BY <2>0, <3>4
    <3> QED
      BY <3>3, <3>7, <3>8
  <2> QED
    BY <1>1, <1>2, <2>1, <2>2
<1>3. CASE q.state = "header_value"
  <2>1. PICK b \in 1..k : Before(t, b) /\ Valued(q, t, b, k) /\ ~Span(t, b, k, Lws)
    BY <1>3 DEF Knows, AtValue
  <2>2. b \in 1..Len(t) /\ k \in b..Len(t)
    OBVIOUS
  <2>3. PICK e \in k + 1..Len(t) : Crlf(t, e) /\ (k + 1 < e => t[k + 1] \in Text)
    BY <1>2, <2>1, <2>2
  <2>4. k < Len(t) /\ (k + 1 = e \/ k + 1 < e)
    OBVIOUS
  <2>5. t[k + 1] \in {"CR"} \/ t[k + 1] \in Text
    BY <2>3, <2>4 DEF Crlf
  <2> QED
    BY <1>3, <2>4, <2>5, RulesAre, Allowed
<1>4. CASE q.state = "expecting_newline_2"
  <2>1. PICK b \in 1..k - 1 : Before(t, b) /\ Valued(q, t, b, k - 1) /\ t[k] = "CR"
    BY <1>4 DEF Knows, AtCr2
  <2>2. b \in 1..Len(t) /\ k - 1 \in b..Len(t) /\ (k - 1) + 1 = k
    OBVIOUS
  <2>3. PICK e \in k..Len(t) : Crlf(t, e) /\ Clean(t, b, e - 1)
    BY <1>2, <2>1, <2>2
  <2>4. e = k
    <3>1. k < e => k \in b..e - 1
      BY <2>2
    <3> QED
      BY <2>1, <2>3, <3>1 DEF Clean
  <2>5. k < Len(t) /\ t[k + 1] \in {"LF"}
    BY <2>3, <2>4 DEF Crlf
  <2> QED
    BY <1>4, <2>5, RulesAre, Allowed
<1> QED
  BY <1>3, <1>4

LEMMA ContentGoes ==
  ASSUME NEW q, NEW t \in Seq(Symbol), NEW k \in 0..Len(t), Finished(t), Knows(q, t, k),
         q.state \in {"expecting_newline_3", "content"}
  PROVE  k < Len(t) /\ Goes(q, t[k + 1])
<1>0. IsHead(t)
  BY DEF Finished
<1>1. CASE q.state = "expecting_newline_3"
  <2>1. Before(t, k) /\ t[k] = "CR" /\ k > 2
    BY <1>1 DEF Knows, AtCr3, Before
  <2>2. k \in 1..Len(t) /\ k \in 1..Len(t) + 1
    BY <2>1
  <2>3. ASSUME NEW e \in k + 1..Len(t) PROVE e - 1 \in k..Len(t)
    OBVIOUS
  <2>4. t[k] \notin Token /\ t[k] \notin Lws
    BY <2>1, Classes
  <2>5. k + 1 <= Len(t) /\ Crlf(t, k)
    <3>1. \A e \in k + 1..Len(t), c \in Nat : ~ValueTo(t, k, c, e - 1)
      BY <2>2, <2>3, <2>4, LineStarts
    <3>2. \A e \in k + 1..Len(t), m \in Nat : ~MoreTo(t, k, m, e - 1)
      BY <2>2, <2>3, <2>4, LineStarts
    <3> QED
      BY <1>0, <2>1, <2>2, <3>1, <3>2, NextLine
  <2>6. k < Len(t) /\ t[k + 1] \in {"LF"}
    BY <2>2, <2>5 DEF Crlf
  <2> QED
    BY <1>1, <2>6, RulesAre, Allowed
<1>2. CASE q.state = "content"
  <2> DEFINE h == HeadEnd(t)
             z == Declared(t)
  <2>1. Has(t, CL) /\ q.content_size = z /\ (q.content_size = 0 \/ k - h - 3 < q.content_size)
    BY <1>2 DEF Knows, AtContent
  <2>2. z >= 1 /\ Len(t) >= h + 3 + z
    BY <2>1 DEF Finished, CL
  <2>3. h \in 1..Len(t) /\ z \in Nat
    BY <1>0, <2>1, HeadEndAt, DeclaredIs DEF IsHead
  <2> HIDE DEF h, z
  <2>4. k < Len(t)
    <3>1. k - h - 3 < z
      BY <2>1, <2>2, <2>3
    <3> QED
      BY <2>2, <2>3, <3>1
  <2>5. t[k + 1] \in Symbol
    <3>1. k + 1 \in 1..Len(t)
      BY <2>4
    <3> QED
      BY <3>1
  <2> QED
    BY <1>2, <2>4, <2>5, RulesAre, Allowed
<1> QED
  BY <1>1, <1>2

LEMMA StateNames ==
  ASSUME NEW s \in States, s \notin Ended
  PROVE  \/ s \in {"method_start", "method", "uri", "http_version_h", "http_version_t_1",
              "http_version_t_2", "http_version_p", "http_version_slash",
              "http_version_major_start", "http_version_major",
              "http_version_minor_start", "http_version_minor", "expecting_newline_1"}
         \/ s = "header_line_start"
         \/ s \in {"header_lws", "header_name", "space_before_header_value"}
         \/ s \in {"header_value", "expecting_newline_2"}
         \/ s \in {"expecting_newline_3", "content"}
<1>1. PICK r \in Rules : s = r.from
  BY DEF States
<1>2. CASE r \in RequestLineRules
  <2>1. \A n \in 0..4 : n \in 0..5
    OBVIOUS
  <2> QED
    BY <1>1, <1>2, <2>1, FirstRules, HttpNames DEF Is
<1>3. CASE r \in HeaderRules
  BY <1>1, <1>3, OtherRules DEF Is
<1>4. CASE r \in ContentRules
  BY <1>1, <1>4, OtherRules DEF Is
<1> QED
  BY <1>2, <1>3, <1>4 DEF Rules

LEMMA Progress ==
  ASSUME NEW q \in Parsing, q.state \notin Ended, NEW t \in Seq(Symbol), NEW k \in 0..Len(t),
         Finished(t), Knows(q, t, k)
  PROVE  k < Len(t) /\ Goes(q, t[k + 1])
<1>1. IsHead(t)
  BY DEF Finished
<1>2. q.state \in States
  BY DEF Parsing, Requests0
<1> QED
  BY <1>1, <1>2, StateNames, FirstGoes, LineGoes, NameGoes, ValueGoes, ContentGoes

LEMMA ConsumeIs ==
  ASSUME NEW q \in Parsing, q.state \notin Ended, NEW c \in Symbol
  PROVE  \/ Goes(q, c) /\ \E r \in Rules :
              /\ r.from = q.state /\ c \in r.on /\ (r.does = "continue" => q.headers # <<>>)
              /\ Consume(q, c) = Apply(q, r, c)
         \/ ~Goes(q, c) /\ Consume(q, c).state = "bad"
<1>1. q.state \in {x.from : x \in Rules} /\ q \in Requests0
  BY DEF Parsing, Requests0, States
<1>2. RulesFrom[q.state] = {r \in Rules : r.from = q.state}
  BY <1>1 DEF RulesFrom
<1>3. Applicable(q, c) = {r \in RulesFrom[q.state] :
                            c \in r.on /\ (r.does = "continue" => q.headers # <<>>)}
  BY DEF Applicable
<1>4. \A r : r \in Applicable(q, c) <=>
          /\ r \in Rules /\ r.from = q.state
          /\ c \in r.on /\ (r.does = "continue" => q.headers # <<>>)
  BY <1>2, <1>3
<1>5. Goes(q, c) <=> Applicable(q, c) # {}
  BY <1>4 DEF Goes
<1>6. CASE Applicable(q, c) = {}
  <2>1. Consume(q, c) = [q EXCEPT !.state = "bad"]
    BY <1>6 DEF Consume
  <2> QED
    BY <1>1, <1>5, <1>6, <2>1 DEF Requests0
<1>7. CASE Applicable(q, c) # {}
  <2> DEFINE r == CHOOSE x \in Applicable(q, c) : TRUE
  <2>1. r \in Applicable(q, c)
    BY <1>7
  <2>2. Consume(q, c) = Apply(q, r, c)
    BY <1>7 DEF Consume
  <2> HIDE DEF r
  <2> QED
    BY <1>4, <1>5, <1>7, <2>1, <2>2
<1> QED
  BY <1>6, <1>7

(* One symbol more, and what is known stays known.                         *)
LEMMA StepKnows ==
  ASSUME NEW q \in Parsing, NEW t \in Seq(Symbol), NEW k \in 0..Len(t) - 1,
         q.state = "bad" \/ Knows(q, t, k), Finished(t) => q.state # "bad"
  PROVE  LET e == Step1(q, t[k + 1])
         IN /\ e.state = "bad" \/ Knows(e, t, k + 1)
            /\ Finished(t) => e.state # "bad"
<1> DEFINE c == t[k + 1]
           e == Step1(q, c)
<1>1. k \in 0..Len(t) /\ c \in Symbol
  OBVIOUS
<1>2. CASE q.state \in Ended
  <2>1. e = q
    BY <1>2 DEF Step1
  <2> HIDE DEF e
  <2>2. q.state = "good" => Knows(q, t, k + 1)
    BY Tells DEF Knows
  <2>3. q.state = "good" \/ q.state = "bad"
    BY <1>2 DEF Ended
  <2> QED
    BY <2>1, <2>2, <2>3 DEF e
<1>3. CASE q.state \notin Ended
  <2>1. e = Consume(q, c) /\ Knows(q, t, k)
    BY <1>3 DEF Step1, Ended
  <2> HIDE DEF e
  <2>2. CASE Goes(q, c)
    <3>1. PICK r \in Rules :
              /\ r.from = q.state /\ c \in r.on /\ (r.does = "continue" => q.headers # <<>>)
              /\ e = Apply(q, r, c)
      BY <1>1, <1>3, <2>1, <2>2, ConsumeIs
    <3>2. Knows(e, t, k + 1)
      <4>1. CASE r \in RequestLineRules
        BY <2>1, <3>1, <4>1, FirstStep
      <4>2. CASE r \in HeaderRules
        BY <2>1, <3>1, <4>2, HeaderStep
      <4>3. CASE r \in ContentRules
        BY <2>1, <3>1, <4>3, ContentStep
      <4> QED
        BY <4>1, <4>2, <4>3 DEF Rules
    <3>3. e.state # "bad"
      <4>1. q \in Requests0
        BY DEF Parsing
      <4>2. Apply(q, r, c).state \in {r.to, "good", "content"}
        <5>1. c \in Symbol
          BY <1>1
        <5> HIDE DEF c
        <5>2. CASE r.does = "end_of_headers"
          BY <4>1, <5>1, <5>2, ApplyIs
        <5>3. CASE r.does = "content"
          BY <4>1, <5>1, <5>3, ApplyIs
        <5>4. CASE r.does # "end_of_headers" /\ r.does # "content"
          BY <4>1, <5>1, <5>4, ApplyIs
        <5> QED
          BY <5>2, <5>3, <5>4
      <4>3. r.to \notin Ended
        BY RuleFacts
      <4> QED
        BY <3>1, <4>2, <4>3 DEF Ended
    <3> QED
      BY <3>2, <3>3 DEF e
  <2>3. CASE ~Goes(q, c)
    <3>1. e.state = "bad"
      BY <1>1, <1>3, <2>1, <2>3, ConsumeIs
    <3>2. ~Finished(t)
      BY <1>1, <1>3, <2>1, <2>3, Progress
    <3> QED
      BY <3>1, <3>2 DEF e
  <2> QED
    BY <2>2, <2>3
<1> QED
  BY <1>2, <1>3

(* The parser accepts what the grammar says, and records what it means.    *)
LEMMA ParseIs ==
  ASSUME NEW t \in Seq(Symbol)
  PROVE  LET q == Parse(NewRequest, t)
         IN /\ q.state = "good" <=> Finished(t)
            /\ q.state = "good" => AtGood(q, t)
<1> DEFINE n == Len(t)
<1>1. PICK g \in [0..n -> Parsing] :
        Turn(g, NewRequest, t) /\ Parse(NewRequest, t) = g[n]
  BY NewType, ParseSteps
<1> DEFINE P(k) == /\ g[k].state = "bad" \/ Knows(g[k], t, k)
                   /\ Finished(t) => g[k].state # "bad"
           S == {k \in 0..n : ~P(k)}
<1>2. n \in Nat /\ \A k \in 0..n : g[k] \in Parsing
  BY <1>1
<1>3. P(0)
  <2>1. g[0] = NewRequest
    BY <1>1 DEF Turn
  <2>2. NewRequest.state = "method_start" /\ AtMethodStart(NewRequest, t, 0)
    BY DEF NewRequest, AtMethodStart, NoneYet
  <2> QED
    BY <2>1, <2>2, Tells
<1>4. ASSUME NEW k \in 1..n, P(k - 1) PROVE P(k)
  <2>1. k - 1 \in 0..n - 1 /\ (k - 1) + 1 = k /\ g[k - 1] \in Parsing
    BY <1>2
  <2>2. g[k] = Step1(g[k - 1], t[k])
    BY <1>1 DEF Turn
  <2>3. PICK j \in 0..n - 1, p \in Parsing : j = k - 1 /\ p = g[k - 1]
    BY <2>1
  <2>4. (p.state = "bad" \/ Knows(p, t, j)) /\ (Finished(t) => p.state # "bad")
    BY <1>4, <2>3
  <2>5. /\ Step1(p, t[j + 1]).state = "bad" \/ Knows(Step1(p, t[j + 1]), t, j + 1)
        /\ Finished(t) => Step1(p, t[j + 1]).state # "bad"
    BY <2>4, StepKnows
  <2> QED
    BY <2>1, <2>2, <2>3, <2>5
<1>5. S = {}
  <2> SUFFICES ASSUME S # {} PROVE FALSE
    OBVIOUS
  <2> HIDE DEF P
  <2>1. S \in SUBSET Nat
    OBVIOUS
  <2>2. PICK m \in S : \A k \in S : m <= k
    <3> HIDE DEF S
    <3> QED
      BY <2>1, SmallestOf
  <2>3. m # 0 /\ m \in 0..n /\ ~P(m)
    BY <1>3, <2>2
  <2>4. m - 1 \in 0..n /\ m \in 1..n /\ ~(m <= m - 1)
    BY <1>2, <2>3
  <2>5. P(m - 1)
    BY <2>2, <2>4
  <2> QED
    BY <1>4, <2>3, <2>4, <2>5
<1>6. P(n)
  <2>1. n \in 0..n
    BY <1>2
  <2> HIDE DEF P
  <2> QED
    BY <1>5, <2>1
<1>7. g[n] \in Parsing /\ n \in 0..Len(t) /\ ~(n < Len(t))
  BY <1>2
<1>8. ASSUME Finished(t) PROVE g[n].state = "good"
  <2>1. g[n].state # "bad" /\ Knows(g[n], t, n)
    BY <1>6, <1>8
  <2>2. g[n].state \in Ended
    BY <1>7, <1>8, <2>1, Progress
  <2> QED
    BY <2>1, <2>2 DEF Ended
<1>9. ASSUME g[n].state = "good" PROVE AtGood(g[n], t)
  BY <1>6, <1>9 DEF Knows
<1>10. AtGood(g[n], t) => Finished(t)
  BY DEF AtGood
<1> QED
  BY <1>1, <1>8, <1>9, <1>10
-----------------------------------------------------------------------------
(* The invariant.  What parse makes of all that a connection has received, *)
(* and what becomes of its uri once it has been handled.                   *)
Handled  == {"write", "end", "closed"}
Whole(c) == Parse(NewRequest, Received(c))

Parsed(c) ==
  request[c] = IF cpc[c] \in Handled /\ Whole(c).state = "good"
               THEN [Whole(c) EXCEPT !.uri = HandleRequest(Whole(c).uri)]
               ELSE Whole(c)

Stage(c) ==
  /\ cpc[c] \in {"none", "queued"} => pos[c] = 0
  /\ cpc[c] \in {"none", "queued", "read"} => Whole(c).state \notin Ended
  /\ cpc[c] = "route" => Whole(c).state = "good"
  /\ cpc[c] = "write" => Whole(c).state \in Ended

(* The reply to a request that the parser has ended, as handle_request, a  *)
(* handler or the parser's refusal left it.                                *)
Bodies == {<<>>, Something, Binary} \cup {Encode(s) : s \in Contents}
Types  == {Html, Json, "image/png", "text/plain", "none"}
ReplyRec == [status : {0, 200, 400, 404}, type : Types, length : Nat, body : Seq(Int)]

Fits(q, rep) ==
  LET route == Route(q.method, q.uri)
  IN /\ rep \in ReplyRec /\ rep.body \in Bodies /\ rep.length = Len(rep.body)
     /\ rep.status = 400 <=> q.state = "bad" \/ q.uri = <<>>
     /\ rep.status = 0 => route = "judge" /\ rep.type = "none"
     /\ rep.status = 404 => route \in {"problem", "default"}
     /\ rep.status = 200 /\ route = "problem" => \E s \in Contents : rep.body = Encode(s)

Given(q) ==
  IF q.state = "good" /\ Route(q.method, q.uri) = "judge"
       /\ Supported(Header(q.headers, "lang"))
  THEN [lang |-> Header(q.headers, "lang"), pid |-> Header(q.headers, "pid"),
        code |-> q.content]
  ELSE NotJudged

Answered(c) ==
  IF cpc[c] \in Handled /\ Whole(c).state \in Ended
  THEN Fits(request[c], reply[c]) /\ judged[c] = Given(request[c])
  ELSE reply[c] = Unset /\ judged[c] = NotJudged

Told(c) ==
  server # "dead" /\ got[c] # Unset =>
    /\ cpc[c] \in {"end", "closed"} /\ Whole(c).state \in Ended
    /\ got[c] = Sent(reply[c])

ConnOK(c) == Parsed(c) /\ Stage(c) /\ Answered(c) /\ Told(c)

Shapes ==
  /\ server \in {"starting", "up", "dead"}
  /\ wish \in [Clients -> Seq(Symbol)]
  /\ talk \in [Clients -> {"off", "sending", "silent", "closed"}]
  /\ cpc \in [Clients -> ConnPC]
  /\ pos \in [Clients -> Nat]
  /\ \A c \in Clients : pos[c] <= Len(wish[c])
  /\ DOMAIN request = Clients /\ DOMAIN reply = Clients
  /\ DOMAIN got = Clients /\ DOMAIN judged = Clients

(* Every connection has been committed once, and is run by one thread.     *)
Once ==
  /\ waiting \in Seq(Clients)
  /\ running \in [Threads -> Clients \cup {NoClient}]
  /\ \A i, j \in 1..Len(waiting) : waiting[i] = waiting[j] => i = j
  /\ \A v, w \in Threads : running[v] = running[w] /\ running[v] # NoClient => v = w
  /\ \A c \in Clients :
       /\ (\E i \in 1..Len(waiting) : waiting[i] = c) <=> cpc[c] = "queued"
       /\ (\E w \in Threads : running[w] = c)
            <=> cpc[c] \in {"read", "route", "write", "end"}

Inv == Shapes /\ Once /\ \A c \in Clients : ConnOK(c)

-----------------------------------------------------------------------------
(* Routes and replies.                                                     *)
RouteNames == {"problem", "result_json", "result", "judge", "default"}

LEMMA RouteType ==
  ASSUME NEW method, NEW path
  PROVE  /\ Route(method, path) \in RouteNames
         /\ Matches(Route(method, path), method, path)
<1> DEFINE I == {i \in 1..Len(Routes) : Matches(Routes[i], method, path)}
<1>1. Len(Routes) = 5 /\ \A i \in 1..5 : Routes[i] \in RouteNames
  BY DEF Routes, RouteNames
<1>2. 5 \in I
  <2>1. Routes[5] = "default"
    BY DEF Routes
  <2>2. Matches("default", method, path)
    BY DEF Matches
  <2> QED
    BY <1>1, <2>1, <2>2
<1>3. I \in SUBSET Nat /\ I \subseteq 1..5
  BY <1>1
<1>4. Route(method, path) = Routes[CHOOSE x \in I : \A y \in I : x =< y]
  BY <1>2 DEF Route, SelectInSeq, Min
<1>5. \A i \in I : Matches(Routes[i], method, path)
  OBVIOUS
<1> HIDE DEF I
<1>6. \E x \in I : \A y \in I : x <= y
  BY <1>2, <1>3, SmallestOf
<1> QED
  BY <1>1, <1>3, <1>4, <1>5, <1>6

LEMMA JudgeRoute ==
  ASSUME NEW method, NEW path, Route(method, path) = "judge"
  PROVE  method = <<"POST">> /\ path = <<"/", "judge">>
<1>1. Matches("judge", method, path)
  BY RouteType
<1> QED
  BY <1>1 DEF Matches

(* Encode gives codes, of which none is a NUL.                             *)
LEMMA EncodeType ==
  ASSUME NEW s \in Contents
  PROVE  /\ Encode(s) \in Seq(Int) /\ Len(Encode(s)) \in Nat
         /\ \A i \in 1..Len(Encode(s)) : Encode(s)[i] # NUL
<1>1. s \in Seq(Byte8)
  BY HttpServerAssumption DEF Byte8
<1> DEFINE n == Codes(s)
           e == [k \in 1..n |-> CodeAt(s, k)]
<1>2. n \in Nat
  <2>1. Len(s) \in Nat
    BY <1>1
  <2> QED
    BY <2>1 DEF Codes
<1>3. Encode(s) = e
  BY <1>1, EncodeIs
<1> HIDE DEF n
<1>4. \A k \in 1..n : CodeAt(s, k) \in -1..63
  <2>1. \A k \in 1..n : k \in Nat \ {0}
    BY <1>2
  <2> QED
    BY <1>1, <2>1, CodeType
<1>5. -1..63 \subseteq Int /\ NUL \notin -1..63
  BY DEF NUL
<1>6. e \in Seq(Int) /\ Len(e) = n /\ \A i \in 1..n : e[i] = CodeAt(s, i)
  <2>1. e \in [1..n -> Int]
    BY <1>4, <1>5
  <2> QED
    BY <1>2, <2>1
<1> HIDE DEF e
<1> QED
  BY <1>2, <1>3, <1>4, <1>5, <1>6

LEMMA BodyType ==
  ASSUME NEW b \in Bodies PROVE b \in Seq(Int) /\ Len(b) \in Nat
<1>1. <<>> \in Seq(Int) /\ Len(<<>>) \in Nat
  OBVIOUS
<1>2. Something \in Seq(Int) /\ Len(Something) \in Nat
  BY DEF Something
<1>3. Binary \in Seq(Int) /\ Len(Binary) \in Nat
  <2>1. 1 \in Int /\ NUL \in Int
    BY DEF NUL
  <2> QED
    BY <2>1 DEF Binary
<1> QED
  BY <1>1, <1>2, <1>3, EncodeType DEF Bodies

LEMMA StockType ==
  ASSUME NEW status \in {400, 404}
  PROVE  /\ Stock(status) \in ReplyRec /\ Stock(status).status = status
         /\ Stock(status).body \in Bodies
         /\ Stock(status).length = Len(Stock(status).body)
<1>1. Something \in Seq(Int) /\ Something \in Bodies /\ Len(Something) = 1
  BY DEF Something, Bodies
<1>2. Html \in Types
  BY DEF Types
<1> QED
  BY <1>1, <1>2 DEF Stock, ReplyRec

(* What a handler may answer fits the request it has handled,              *)
LEMMA RepliesFit ==
  ASSUME NEW q, q.state = "good", q.uri # <<>>,
         Route(q.method, q.uri) # "judge",
         NEW r \in Replies(Route(q.method, q.uri), q.uri)
  PROVE  Fits(q, r)
<1> DEFINE route == Route(q.method, q.uri)
<1>1. route \in RouteNames /\ route # "judge"
  BY RouteType
<1> HIDE DEF route
<1>2. \A b \in Bodies, t \in Types :
        /\ SetContent(b, t) \in ReplyRec /\ SetContent(b, t).status = 200
        /\ SetContent(b, t).body = b /\ SetContent(b, t).length = Len(b)
  BY BodyType DEF SetContent, ReplyRec
<1>3. /\ Stock(404) \in ReplyRec /\ Stock(404).status = 404
      /\ Stock(404).body \in Bodies /\ Stock(404).length = Len(Stock(404).body)
  BY StockType DEF Stock
<1>4. Something \in Bodies /\ Binary \in Bodies /\ \A s \in Contents : Encode(s) \in Bodies
  BY DEF Bodies
<1>5. Html \in Types /\ Json \in Types /\ \A p : Type(p) \in Types
  BY DEF Types, Type
<1>6. \/ route = "problem" /\ r = Stock(404)
      \/ route = "problem" /\ \E s \in Contents : r = SetContent(Encode(s), Html)
      \/ route = "default" /\ r = Stock(404)
      \/ route # "problem" /\ \E b \in {Something, Binary}, t \in Types : r = SetContent(b, t)
  <2>1. r \in Replies(route, q.uri)
    BY DEF route
  <2>2. CASE route = "problem"
    BY <2>1, <2>2 DEF Replies
  <2>3. CASE route = "result_json"
    BY <1>5, <2>1, <2>3 DEF Replies
  <2>4. CASE route = "result"
    BY <1>5, <2>1, <2>4 DEF Replies, Files
  <2>5. CASE route = "default"
    BY <1>5, <2>1, <2>5 DEF Replies, Files
  <2> QED
    BY <1>1, <2>2, <2>3, <2>4, <2>5 DEF RouteNames
<1>7. CASE r = Stock(404)
  <2>1. route # "judge" /\ route \in {"problem", "default"}
    BY <1>2, <1>3, <1>4, <1>5, <1>6, <1>7
  <2> QED
    BY <1>3, <1>7, <2>1 DEF Fits, route
<1>8. CASE \E b \in Bodies, t \in Types : r = SetContent(b, t) /\ (route = "problem" => \E s \in Contents : b = Encode(s))
  BY <1>2, <1>8 DEF Fits, route
<1> QED
  BY <1>4, <1>5, <1>6, <1>7, <1>8

LEMMA JudgeRepliesFit ==
  ASSUME NEW q, q.state = "good", q.uri # <<>>,
         Route(q.method, q.uri) = "judge",
         NEW r \in JudgeReplies(Header(q.headers, "lang"))
  PROVE  Fits(q, r)
<1>1. Something \in Seq(Int) /\ <<>> \in Seq(Int) /\ Len(Something) = 1 /\ Len(<<>>) = 0
  BY DEF Something
<1>2. Json \in Types /\ "none" \in Types
  BY DEF Types
<1>3. Something \in Bodies /\ <<>> \in Bodies
  BY DEF Bodies
<1>4. CASE r = Unset
  BY <1>1, <1>2, <1>3, <1>4 DEF Unset, Fits, ReplyRec
<1>5. CASE r = SetContent(Something, Json)
  BY <1>1, <1>2, <1>3, <1>5 DEF SetContent, Fits, ReplyRec
<1> QED
  BY <1>4, <1>5 DEF JudgeReplies

(* and a 400 fits one that has been refused.                               *)
LEMMA RefusalFits ==
  ASSUME NEW q, q.state = "bad" \/ q.uri = <<>> PROVE Fits(q, Stock(400))
BY StockType DEF Fits

-----------------------------------------------------------------------------
(* What has been received, and what parse makes of it.                     *)
LEMMA WholeType ==
  ASSUME Shapes, NEW c \in Clients
  PROVE  /\ Received(c) \in Seq(Symbol) /\ Whole(c) \in Parsing
         /\ pos[c] = 0 => Whole(c) = NewRequest /\ Whole(c).state \notin Ended
<1>1. wish[c] \in Seq(Symbol) /\ pos[c] \in Nat /\ pos[c] <= Len(wish[c])
  BY DEF Shapes
<1>2. Received(c) \in Seq(Symbol)
  BY <1>1 DEF Received
<1>3. pos[c] = 0 => Received(c) = <<>>
  BY <1>1 DEF Received
<1>4. NewRequest.state \notin Ended
  BY NewType DEF Ended
<1> QED
  BY <1>2, <1>3, <1>4, NewType, ParseType, ParseNothing DEF Whole

LEMMA WholeFields ==
  ASSUME NEW q \in Parsing
  PROVE  /\ q.method \in Seq(Symbol) /\ q.uri \in Seq(Symbol)
         /\ q.content \in Seq(Symbol) /\ q.headers \in Seq(HeaderRec)
         /\ \A u : /\ [q EXCEPT !.uri = u].uri = u
                   /\ [q EXCEPT !.uri = u].state = q.state
                   /\ [q EXCEPT !.uri = u].method = q.method
                   /\ [q EXCEPT !.uri = u].headers = q.headers
                   /\ [q EXCEPT !.uri = u].content = q.content
BY DEF Parsing, Requests0

(* A connection that a step leaves alone stays as it should be.            *)
Same(d) ==
  /\ wish'[d] = wish[d] /\ pos'[d] = pos[d] /\ cpc'[d] = cpc[d]
  /\ request'[d] = request[d] /\ reply'[d] = reply[d]
  /\ got'[d] = got[d] /\ judged'[d] = judged[d]
  /\ server = "dead" => server' = "dead"

LEMMA SameStays ==
  ASSUME NEW d \in Clients, ConnOK(d), Same(d) PROVE ConnOK(d)'
<1>1. Whole(d)' = Whole(d)
  BY DEF Same, Whole, Received
<1> QED
  BY <1>1 DEF ConnOK, Same, Parsed, Stage, Answered, Told

Run == {"read", "route", "write", "end"}

(* A thread goes on with its connection.                                   *)
LEMMA RunStays ==
  ASSUME Inv, NEW c \in Clients, UNCHANGED <<waiting, running, server, wish, talk>>,
         cpc[c] \in Run, NEW to \in Run, cpc' = [cpc EXCEPT ![c] = to],
         pos' \in [Clients -> Nat], pos'[c] <= Len(wish[c]),
         DOMAIN request' = Clients, DOMAIN reply' = Clients,
         DOMAIN got' = Clients, DOMAIN judged' = Clients,
         \A d \in Clients \ {c} :
            /\ pos'[d] = pos[d] /\ request'[d] = request[d] /\ reply'[d] = reply[d]
            /\ got'[d] = got[d] /\ judged'[d] = judged[d],
         ConnOK(c)'
  PROVE  Inv'
<1>1. Shapes'
  BY DEF Inv, Shapes, Run, ConnPC
<1>2. Once'
  BY DEF Inv, Shapes, Once, Run
<1>3. \A d \in Clients \ {c} : Same(d)
  BY DEF Inv, Shapes, Same
<1> QED
  BY <1>1, <1>2, <1>3, SameStays DEF Inv

LEMMA InitInv == Init => Inv
<1> SUFFICES ASSUME Init PROVE Inv
  OBVIOUS
<1>1. wish \in [Clients -> Seq(Symbol)]
  BY HttpServerAssumption DEF Init
<1>2. /\ waiting = <<>> /\ running = [w \in Threads |-> NoClient]
      /\ cpc = [c \in Clients |-> "none"] /\ pos = [c \in Clients |-> 0]
      /\ request = [c \in Clients |-> NewRequest]
      /\ reply = [c \in Clients |-> Unset] /\ got = [c \in Clients |-> Unset]
      /\ judged = [c \in Clients |-> NotJudged]
  BY DEF Init, Nothing
<1>3. Shapes
  <2>1. \A c \in Clients : Len(wish[c]) \in Nat
    BY <1>1
  <2> QED
    BY <1>1, <1>2, <2>1 DEF Init, Shapes, ConnPC
<1>4. Once
  <2>1. waiting \in Seq(Clients) /\ Len(waiting) = 0
    BY <1>2
  <2> QED
    BY <1>2, <2>1, HttpServerAssumption DEF Once
<1>5. ASSUME NEW c \in Clients PROVE ConnOK(c)
  <2>1. Whole(c) = NewRequest /\ Whole(c).state \notin Ended
    BY <1>2, <1>3, WholeType
  <2> QED
    BY <1>2, <2>1 DEF ConnOK, Parsed, Stage, Answered, Told, Handled
<1> QED
  BY <1>3, <1>4, <1>5 DEF Inv

(* The process dies: nothing is left but what the clients have.            *)
LEMMA DieKeeps == ASSUME Inv, Die PROVE Inv'
<1>1. wish \in [Clients -> Seq(Symbol)] /\ DOMAIN got = Clients
  BY DEF Inv, Shapes
<1>2. /\ waiting' = <<>> /\ running' = [w \in Threads |-> NoClient]
      /\ cpc' = [c \in Clients |-> "none"] /\ pos' = [c \in Clients |-> 0]
      /\ request' = [c \in Clients |-> NewRequest]
      /\ reply' = [c \in Clients |-> Unset] /\ got' = got /\ wish' = wish
      /\ judged' = [c \in Clients |-> NotJudged] /\ server' = "dead"
      /\ talk' = talk
  BY DEF Die, Nothing
<1>3. Shapes'
  <2>1. \A c \in Clients : Len(wish[c]) \in Nat
    BY <1>1
  <2> QED
    BY <1>1, <1>2, <2>1 DEF Inv, Shapes, ConnPC
<1>4. Once'
  <2>1. waiting' \in Seq(Clients) /\ Len(waiting') = 0
    BY <1>2
  <2> QED
    BY <1>2, <2>1, HttpServerAssumption DEF Once
<1>5. ASSUME NEW c \in Clients PROVE ConnOK(c)'
  <2>1. Received(c)' = <<>>
    BY <1>1, <1>2 DEF Received
  <2>2. Whole(c)' = NewRequest /\ NewRequest.state \notin Ended
    BY <2>1, NewType, ParseNothing DEF Whole, Ended
  <2> QED
    BY <1>2, <2>2 DEF ConnOK, Parsed, Stage, Answered, Told, Handled
<1> QED
  BY <1>3, <1>4, <1>5 DEF Inv

(* Startup, and the clients.                                               *)
LEMMA TurnsKeeps ==
  ASSUME Inv, UNCHANGED <<waiting, running, wish, connVars>>,
         server' \in {"starting", "up", "dead"}, server # "dead" \/ server' = "dead",
         talk' \in [Clients -> {"off", "sending", "silent", "closed"}]
  PROVE  Inv'
<1>1. Shapes' /\ Once'
  BY DEF Inv, Shapes, Once, connVars
<1>2. \A d \in Clients : Same(d)
  BY DEF Same, connVars
<1> QED
  BY <1>1, <1>2, SameStays DEF Inv

LEMMA ClientKeeps ==
  ASSUME Inv, NEW c \in Clients, Connect(c) \/ FallSilent(c) \/ Close(c)
  PROVE  Inv'
<1>1. /\ UNCHANGED <<waiting, running, wish, connVars, server>>
      /\ talk' \in [Clients -> {"off", "sending", "silent", "closed"}]
  BY DEF Connect, FallSilent, Close, Turns, serverVars, Inv, Shapes
<1>2. server \in {"starting", "up", "dead"}
  BY DEF Inv, Shapes
<1> QED
  BY <1>1, <1>2, TurnsKeeps

-----------------------------------------------------------------------------
(* The pool: commit, take and finish.                                      *)
LEMMA AcceptKeeps ==
  ASSUME Inv, server = "up", NEW c \in Clients, Accept(c) PROVE Inv'
<1>1. /\ cpc[c] = "none" /\ cpc' = [cpc EXCEPT ![c] = "queued"]
      /\ waiting' = Append(waiting, c) /\ running' = running
      /\ UNCHANGED <<server, wish, talk, pos, request, reply, got, judged>>
  BY DEF Accept, ConnAt, Pool!Commit
<1>2. Shapes'
  BY <1>1 DEF Inv, Shapes, ConnPC
<1>3. Once'
  <2>1. /\ waiting \in Seq(Clients) /\ Len(waiting) \in Nat
        /\ \A i \in 1..Len(waiting) : waiting[i] # c
    BY <1>1 DEF Inv, Once
  <2>2. /\ waiting' \in Seq(Clients) /\ Len(waiting') = Len(waiting) + 1
        /\ \A i \in 1..Len(waiting) : waiting'[i] = waiting[i]
        /\ waiting'[Len(waiting) + 1] = c
    BY <1>1, <2>1
  <2>3. \A i, j \in 1..Len(waiting') : waiting'[i] = waiting'[j] => i = j
    BY <2>1, <2>2 DEF Inv, Once
  <2>4. ASSUME NEW d \in Clients
        PROVE  (\E i \in 1..Len(waiting') : waiting'[i] = d) <=> cpc'[d] = "queued"
    <3>1. CASE d = c
      <4>1. Len(waiting) + 1 \in 1..Len(waiting')
        BY <2>1, <2>2
      <4> QED
        BY <1>1, <2>2, <3>1, <4>1 DEF Inv, Shapes
    <3>2. CASE d # c
      <4>1. (\E i \in 1..Len(waiting') : waiting'[i] = d) <=> \E i \in 1..Len(waiting) : waiting[i] = d
        BY <2>1, <2>2, <3>2
      <4> QED
        BY <1>1, <3>2, <4>1 DEF Inv, Once, Shapes
    <3> QED
      BY <3>1, <3>2
  <2> QED
    BY <1>1, <2>2, <2>3, <2>4 DEF Inv, Once, Shapes
<1>4. \A d \in Clients \ {c} : Same(d)
  BY <1>1 DEF Inv, Shapes, Same
<1>5. ConnOK(c)'
  <2>1. cpc'[c] = "queued" /\ Whole(c)' = Whole(c) /\ ConnOK(c)
    BY <1>1 DEF Inv, Shapes, Whole, Received
  <2> QED
    BY <1>1, <2>1 DEF ConnOK, Parsed, Stage, Answered, Told, Handled
<1> QED
  BY <1>2, <1>3, <1>4, <1>5, SameStays DEF Inv

LEMMA StartKeeps ==
  ASSUME Inv, server = "up", NEW w \in Threads, Start(w) PROVE Inv'
<1>0. PICK c : c = Head(waiting)
  OBVIOUS
<1>1. /\ waiting \in Seq(Clients) /\ waiting # <<>> /\ Len(waiting) \in Nat
      /\ running \in [Threads -> Clients \cup {NoClient}]
      /\ running[w] = NoClient
      /\ running' = [running EXCEPT ![w] = c] /\ waiting' = Tail(waiting)
      /\ UNCHANGED <<server, wish, talk, pos, request, reply, got, judged>>
  BY <1>0 DEF Start, Pool!Take, Inv, Once
<1>2. c \in Clients /\ 1 \in 1..Len(waiting) /\ waiting[1] = c
  BY <1>0, <1>1
<1>3. /\ running'[w] = c
      /\ cpc[c] = "queued" /\ cpc' = [cpc EXCEPT ![c] = "read"]
  <2>1. running'[w] = c
    BY <1>1
  <2> QED
    BY <2>1 DEF Start, ConnAt
<1>4. Shapes'
  BY <1>1, <1>2, <1>3 DEF Inv, Shapes, ConnPC
<1>5. Once'
  <2>1. /\ waiting' \in Seq(Clients) /\ Len(waiting') = Len(waiting) - 1
        /\ \A i \in 1..Len(waiting') : waiting'[i] = waiting[i + 1]
    BY <1>1
  <2>2. \A i, j \in 1..Len(waiting) : waiting[i] = waiting[j] => i = j
    BY DEF Inv, Once
  <2>3. \A i, j \in 1..Len(waiting') : waiting'[i] = waiting'[j] => i = j
    <3> TAKE i, j \in 1..Len(waiting')
    <3>1. i + 1 \in 1..Len(waiting) /\ j + 1 \in 1..Len(waiting)
      BY <1>1, <2>1
    <3> QED
      BY <2>1, <2>2, <3>1
  <2>4. ASSUME NEW d \in Clients
        PROVE  (\E i \in 1..Len(waiting') : waiting'[i] = d)
                 <=> d # c /\ \E i \in 1..Len(waiting) : waiting[i] = d
    <3>1. ASSUME NEW i \in 1..Len(waiting'), waiting'[i] = d
          PROVE  i + 1 \in 1..Len(waiting) /\ waiting[i + 1] = d /\ i + 1 # 1
      BY <1>1, <2>1, <3>1
    <3>2. ASSUME NEW i \in 1..Len(waiting), waiting[i] = d, d # c
          PROVE  i - 1 \in 1..Len(waiting') /\ waiting'[i - 1] = d
      BY <1>1, <1>2, <2>1, <3>2
    <3> QED
      BY <1>2, <2>2, <3>1, <3>2
  <2>5. \A v \in Threads : running[v] # c
    BY <1>2, <1>3 DEF Inv, Once
  <2>6. \A v \in Threads : running'[v] = IF v = w THEN c ELSE running[v]
    BY <1>1
  <2>7. running' \in [Threads -> Clients \cup {NoClient}]
    BY <1>1, <1>2
  <2>8. \A v, u \in Threads : running'[v] = running'[u] /\ running'[v] # NoClient => v = u
    BY <2>5, <2>6 DEF Inv, Once
  <2>9. ASSUME NEW d \in Clients
        PROVE  /\ (\E i \in 1..Len(waiting') : waiting'[i] = d) <=> cpc'[d] = "queued"
               /\ (\E v \in Threads : running'[v] = d)
                    <=> cpc'[d] \in {"read", "route", "write", "end"}
    <3>1. d \in DOMAIN cpc /\ c \in DOMAIN cpc
      BY <1>2 DEF Inv, Shapes
    <3>2. CASE d = c
      BY <1>3, <2>4, <2>6, <3>1, <3>2
    <3>3. CASE d # c
      <4>1. cpc'[d] = cpc[d]
        BY <1>3, <3>1, <3>3
      <4>2. (\E v \in Threads : running'[v] = d) <=> \E v \in Threads : running[v] = d
        BY <1>1, <2>6, <3>3, HttpServerAssumption
      <4>3. /\ (\E i \in 1..Len(waiting) : waiting[i] = d) <=> cpc[d] = "queued"
            /\ (\E v \in Threads : running[v] = d) <=> cpc[d] \in {"read", "route", "write", "end"}
        BY DEF Inv, Once
      <4> QED
        BY <2>4, <3>3, <4>1, <4>2, <4>3
    <3> QED
      BY <3>2, <3>3
  <2> QED
    BY <2>1, <2>3, <2>7, <2>8, <2>9 DEF Once
<1>6. \A d \in Clients \ {c} : Same(d)
  BY <1>1, <1>3 DEF Inv, Shapes, Same
<1>7. ConnOK(c)'
  <2>1. cpc'[c] = "read" /\ Whole(c)' = Whole(c) /\ ConnOK(c)
    BY <1>1, <1>2, <1>3 DEF Inv, Shapes, Whole, Received
  <2>2. Whole(c).state \notin Ended
    BY <1>3, <2>1 DEF ConnOK, Stage
  <2> QED
    BY <1>1, <1>3, <2>1, <2>2 DEF ConnOK, Parsed, Stage, Answered, Told, Handled
<1> QED
  BY <1>2, <1>4, <1>5, <1>6, <1>7, SameStays DEF Inv

LEMMA FinishKeeps ==
  ASSUME Inv, server = "up", NEW w \in Threads, Finish(w) PROVE Inv'
<1>2. PICK c : running[w] = c
  OBVIOUS
<1>1. /\ running \in [Threads -> Clients \cup {NoClient}] /\ c # NoClient /\ c \in Clients
      /\ running' = [running EXCEPT ![w] = NoClient] /\ waiting' = waiting
      /\ cpc[c] = "end" /\ cpc' = [cpc EXCEPT ![c] = "closed"]
      /\ UNCHANGED <<server, wish, talk, pos, request, reply, got, judged>>
  BY <1>2 DEF Finish, Pool!Finish, ConnAt, Inv, Once
<1>3. Shapes'
  BY <1>1 DEF Inv, Shapes, ConnPC
<1>4. Once'
  <2>1. \A v \in Threads : running'[v] = IF v = w THEN NoClient ELSE running[v]
    BY <1>1
  <2>2. \A v \in Threads : v # w => running[v] # c
    BY <1>1, <1>2 DEF Inv, Once
  <2>3. \A v, u \in Threads : running'[v] = running'[u] /\ running'[v] # NoClient => v = u
    BY <2>1 DEF Inv, Once
  <2>4. ASSUME NEW d \in Clients
        PROVE  /\ (\E i \in 1..Len(waiting') : waiting'[i] = d) <=> cpc'[d] = "queued"
               /\ (\E v \in Threads : running'[v] = d)
                    <=> cpc'[d] \in {"read", "route", "write", "end"}
    <3>1. /\ (\E i \in 1..Len(waiting) : waiting[i] = d) <=> cpc[d] = "queued"
          /\ (\E v \in Threads : running[v] = d) <=> cpc[d] \in {"read", "route", "write", "end"}
          /\ d \in DOMAIN cpc /\ d # NoClient
      BY HttpServerAssumption DEF Inv, Once, Shapes
    <3>2. CASE d = c
      BY <1>1, <1>2, <2>1, <2>2, <3>1, <3>2
    <3>3. CASE d # c
      BY <1>1, <1>2, <2>1, <3>1, <3>3
    <3> QED
      BY <3>2, <3>3
  <2>5. running' \in [Threads -> Clients \cup {NoClient}]
    BY <1>1
  <2> QED
    BY <1>1, <2>3, <2>4, <2>5 DEF Inv, Once
<1>5. \A d \in Clients \ {c} : Same(d)
  BY <1>1 DEF Inv, Shapes, Same
<1>6. ConnOK(c)'
  <2>1. cpc'[c] = "closed" /\ Whole(c)' = Whole(c) /\ ConnOK(c)
    BY <1>1 DEF Inv, Shapes, Whole, Received
  <2> QED
    BY <1>1, <2>1 DEF ConnOK, Parsed, Stage, Answered, Told, Handled
<1> QED
  BY <1>1, <1>3, <1>4, <1>5, <1>6, SameStays DEF Inv

-----------------------------------------------------------------------------
(* A turn of handle_read: the next piece goes on where the last ended.     *)
LEMMA RecvKeeps ==
  ASSUME Inv, server = "up", NEW c \in Clients, Recv(c) PROVE Inv'
<1>1. /\ cpc[c] = "read" /\ UNCHANGED <<serverVars, wish, talk, got, judged>>
      /\ pos[c] < Len(wish[c])
  BY DEF Recv
<1>2. PICK n \in Pieces :
        /\ pos' = [pos EXCEPT ![c] = IF @ + n > Len(wish[c]) THEN Len(wish[c]) ELSE @ + n]
        /\ \E q \in {Parse(request[c], SubSeq(wish[c], pos[c] + 1, pos'[c]))} :
             /\ cpc' = [cpc EXCEPT ![c] = After(q.state)]
             /\ request' = [request EXCEPT ![c] = q]
             /\ reply' = [reply EXCEPT ![c] = IF q.state = "bad" THEN Stock(400) ELSE @]
  BY DEF Recv
<1> DEFINE old == SubSeq(wish[c], 1, pos[c])
           piece == SubSeq(wish[c], pos[c] + 1, pos'[c])
<1>3. PICK q : /\ q = Parse(request[c], piece)
               /\ cpc' = [cpc EXCEPT ![c] = After(q.state)]
               /\ request' = [request EXCEPT ![c] = q]
               /\ reply' = [reply EXCEPT ![c] = IF q.state = "bad" THEN Stock(400) ELSE @]
  BY <1>2
<1>4. /\ wish[c] \in Seq(Symbol) /\ Len(wish[c]) \in Nat
      /\ pos \in [Clients -> Nat] /\ pos[c] \in Nat /\ n \in Nat \ {0}
      /\ c \in DOMAIN cpc /\ c \in DOMAIN request /\ c \in DOMAIN reply
  BY HttpServerAssumption DEF Inv, Shapes
<1>5. /\ pos'[c] \in Nat /\ pos[c] < pos'[c] /\ pos'[c] <= Len(wish[c])
      /\ pos' \in [Clients -> Nat] /\ \A d \in Clients \ {c} : pos'[d] = pos[d]
  BY <1>1, <1>2, <1>4
<1>6. old \o piece = SubSeq(wish[c], 1, pos'[c])
  <2>1. 1 \in 1..Len(wish[c]) + 1 /\ pos[c] \in 1 - 1..Len(wish[c])
        /\ pos'[c] \in pos[c]..Len(wish[c])
    BY <1>4, <1>5
  <2> QED
    BY <1>4, <2>1, ConcatAdjacentSubSeq
<1>7. old \in Seq(Symbol) /\ piece \in Seq(Symbol)
  BY <1>4, <1>5
<1>8. Received(c) = old /\ Received(c)' = old \o piece
  BY <1>1, <1>6 DEF Received
<1> HIDE DEF old, piece
<1>9. request[c] = Whole(c) /\ Whole(c).state \notin Ended /\ reply[c] = Unset
      /\ judged[c] = NotJudged /\ got[c] = Unset
  BY <1>1 DEF Inv, ConnOK, Parsed, Stage, Answered, Told, Handled
<1>10. q = Whole(c)'
  BY <1>3, <1>7, <1>8, <1>9, NewType, ParseConcat DEF Whole
<1>11. q.state = "good" \/ q.state = "bad" \/ q.state \notin Ended
  BY DEF Ended
<1>12. cpc'[c] = After(q.state) /\ request'[c] = q /\ wish' = wish
       /\ reply'[c] = (IF q.state = "bad" THEN Stock(400) ELSE Unset)
       /\ judged'[c] = NotJudged /\ got'[c] = Unset /\ server' = "up"
  BY <1>1, <1>3, <1>4, <1>9 DEF serverVars
<1>13. ConnOK(c)'
  <2>1. CASE q.state = "good"
    <3>1. cpc'[c] = "route"
      BY <1>12, <2>1 DEF After
    <3> QED
      BY <1>10, <1>12, <2>1, <3>1
      DEF ConnOK, Parsed, Stage, Answered, Told, Handled, Ended
  <2>2. CASE q.state = "bad"
    <3>1. cpc'[c] = "write" /\ reply'[c] = Stock(400)
      BY <1>12, <2>2 DEF After
    <3>2. Fits(q, Stock(400)) /\ Given(q) = NotJudged
      BY <2>2, RefusalFits DEF Given
    <3> QED
      BY <1>10, <1>12, <2>2, <3>1, <3>2
      DEF ConnOK, Parsed, Stage, Answered, Told, Handled, Ended
  <2>3. CASE q.state \notin Ended
    <3>1. cpc'[c] = "read" /\ reply'[c] = Unset
      BY <1>12, <2>3 DEF After, Ended
    <3> QED
      BY <1>10, <1>12, <2>3, <3>1
      DEF ConnOK, Parsed, Stage, Answered, Told, Handled
  <2> QED
    BY <1>11, <2>1, <2>2, <2>3
<1>14. After(q.state) \in Run /\ cpc[c] \in Run
  BY <1>1, <1>11 DEF After, Run, Ended
<1>15. /\ DOMAIN request' = Clients /\ DOMAIN reply' = Clients
       /\ DOMAIN got' = Clients /\ DOMAIN judged' = Clients
       /\ \A d \in Clients \ {c} :
            /\ request'[d] = request[d] /\ reply'[d] = reply[d]
            /\ got'[d] = got[d] /\ judged'[d] = judged[d]
  BY <1>1, <1>3 DEF Inv, Shapes
<1> QED
  BY <1>1, <1>3, <1>5, <1>13, <1>14, <1>15, RunStays DEF serverVars

(* A step that leaves what has been received alone.                        *)
LEMMA HandleStays ==
  ASSUME Inv, NEW c \in Clients, UNCHANGED <<serverVars, wish, talk, pos>>,
         cpc[c] \in Run, NEW to \in Run, cpc' = [cpc EXCEPT ![c] = to],
         DOMAIN request' = Clients, DOMAIN reply' = Clients,
         DOMAIN got' = Clients, DOMAIN judged' = Clients,
         \A d \in Clients \ {c} :
            /\ request'[d] = request[d] /\ reply'[d] = reply[d]
            /\ got'[d] = got[d] /\ judged'[d] = judged[d],
         ConnOK(c)'
  PROVE  Inv'
<1>1. pos' \in [Clients -> Nat] /\ pos'[c] <= Len(wish[c])
      /\ \A d \in Clients \ {c} : pos'[d] = pos[d]
  BY DEF Inv, Shapes
<1> QED
  BY <1>1, RunStays DEF serverVars

LEMMA RecvEndsKeeps ==
  ASSUME Inv, server = "up", NEW c \in Clients, RecvEnds(c) PROVE Inv'
<1>1. /\ cpc[c] = "read" /\ cpc' = [cpc EXCEPT ![c] = "end"] /\ cpc'[c] = "end"
      /\ UNCHANGED <<serverVars, wish, talk, pos, request, reply, got, judged>>
  BY DEF RecvEnds, ConnAt, Inv, Shapes
<1>2. Whole(c)' = Whole(c) /\ ConnOK(c) /\ Whole(c).state \notin Ended
  BY <1>1 DEF Inv, ConnOK, Stage, Whole, Received
<1>3. ConnOK(c)'
  BY <1>1, <1>2 DEF ConnOK, Parsed, Stage, Answered, Told, Handled, Ended, serverVars
<1>4. cpc[c] \in Run /\ "end" \in Run
  BY <1>1 DEF Run
<1>5. /\ DOMAIN request' = Clients /\ DOMAIN reply' = Clients
      /\ DOMAIN got' = Clients /\ DOMAIN judged' = Clients
  BY <1>1 DEF Inv, Shapes
<1> QED
  BY <1>1, <1>3, <1>4, <1>5, HandleStays

(* A request that the parser has finished, and what handling it makes of   *)
(* the connection.                                                         *)
LEMMA Routed ==
  ASSUME Inv, server = "up", NEW c \in Clients, cpc[c] = "route"
  PROVE  /\ request[c] = Whole(c) /\ Whole(c) \in Parsing /\ Whole(c).state = "good"
         /\ reply[c] = Unset /\ judged[c] = NotJudged /\ got[c] = Unset
BY WholeType DEF Inv, ConnOK, Parsed, Stage, Answered, Told, Handled, Ended

LEMMA HandledKeeps ==
  ASSUME Inv, server = "up", NEW c \in Clients, ConnAt(c, "route", "write"),
         UNCHANGED <<serverVars, wish, talk, pos, got>>,
         request' = [request EXCEPT ![c].uri = HandleRequest(request[c].uri)],
         NEW rep, reply' = [reply EXCEPT ![c] = rep], Fits(request'[c], rep),
         judged'[c] = Given(request'[c]), DOMAIN judged' = Clients,
         \A d \in Clients \ {c} : judged'[d] = judged[d]
  PROVE  Inv'
<1>1. cpc[c] = "route" /\ cpc' = [cpc EXCEPT ![c] = "write"] /\ cpc'[c] = "write"
  BY DEF ConnAt, Inv, Shapes
<1>2. /\ request[c] = Whole(c) /\ Whole(c).state = "good" /\ got[c] = Unset
      /\ Whole(c) \in Parsing
  BY <1>1, Routed
<1>3. Whole(c)' = Whole(c)
  BY DEF Whole, Received
<1>4. /\ request'[c] = [Whole(c) EXCEPT !.uri = HandleRequest(Whole(c).uri)]
      /\ reply'[c] = rep /\ got'[c] = Unset
  BY <1>2 DEF Inv, Shapes
<1>5. ConnOK(c)'
  BY <1>1, <1>2, <1>3, <1>4
  DEF ConnOK, Parsed, Stage, Answered, Told, Handled, Ended, serverVars
<1>6. cpc[c] \in Run /\ "write" \in Run
  BY <1>1 DEF Run
<1>7. /\ DOMAIN request' = Clients /\ DOMAIN reply' = Clients
      /\ DOMAIN got' = Clients /\ DOMAIN judged' = Clients
      /\ \A d \in Clients \ {c} :
            /\ request'[d] = request[d] /\ reply'[d] = reply[d]
            /\ got'[d] = got[d] /\ judged'[d] = judged[d]
  BY DEF Inv, Shapes
<1> QED
  BY <1>1, <1>5, <1>6, <1>7, HandleStays

LEMMA HandledKeepsNone ==
  ASSUME Inv, server = "up", NEW c \in Clients, ConnAt(c, "route", "write"),
         UNCHANGED <<serverVars, wish, talk, pos, got, judged>>,
         request' = [request EXCEPT ![c].uri = HandleRequest(request[c].uri)],
         NEW rep, reply' = [reply EXCEPT ![c] = rep], Fits(request'[c], rep),
         judged[c] = Given(request'[c])
  PROVE  Inv'
<1>1. DOMAIN judged' = Clients
  BY DEF Inv, Shapes
<1> QED
  BY <1>1, HandledKeeps

LEMMA RefuseKeeps ==
  ASSUME Inv, server = "up", NEW c \in Clients, Refuse(c) PROVE Inv'
<1>1. /\ ConnAt(c, "route", "write") /\ HandleRequest(request[c].uri) = <<>>
      /\ reply' = [reply EXCEPT ![c] = Stock(400)]
      /\ request' = [request EXCEPT ![c].uri = HandleRequest(request[c].uri)]
      /\ UNCHANGED <<serverVars, wish, talk, pos, got, judged>>
  BY DEF Refuse
<1>2. request[c] = Whole(c) /\ Whole(c) \in Parsing /\ Whole(c).state = "good"
      /\ judged[c] = NotJudged
  BY <1>1, Routed DEF ConnAt
<1>3. request'[c] = [Whole(c) EXCEPT !.uri = <<>>] /\ request'[c].uri = <<>>
  BY <1>1, <1>2, WholeFields DEF Inv, Shapes
<1>4. Fits(request'[c], Stock(400))
  BY <1>3, RefusalFits
<1>5. Given(request'[c]) = NotJudged
  BY <1>3, JudgeRoute DEF Given
<1> QED
  BY <1>1, <1>2, <1>4, <1>5, HandledKeepsNone

LEMMA HandleKeeps ==
  ASSUME Inv, server = "up", NEW c \in Clients, Handle(c) PROVE Inv'
<1> DEFINE path == HandleRequest(request[c].uri)
           route == Route(request[c].method, path)
<1>1. PICK rep \in Replies(route, path) :
        /\ ConnAt(c, "route", "write") /\ path # <<>> /\ route # "judge"
        /\ reply' = [reply EXCEPT ![c] = rep]
        /\ request' = [request EXCEPT ![c].uri = path]
        /\ UNCHANGED <<serverVars, wish, talk, pos, got, judged>>
  BY DEF Handle
<1>2. request[c] = Whole(c) /\ Whole(c) \in Parsing /\ Whole(c).state = "good"
      /\ judged[c] = NotJudged
  BY <1>1, Routed DEF ConnAt
<1>3. request'[c] = [Whole(c) EXCEPT !.uri = path]
  BY <1>1, <1>2 DEF Inv, Shapes
<1> HIDE DEF path
<1>4. /\ request'[c].uri = path /\ request'[c].state = "good"
      /\ request'[c].method = request[c].method
  BY <1>2, <1>3, WholeFields
<1>5. Fits(request'[c], rep)
  BY <1>1, <1>4, RepliesFit
<1>6. Given(request'[c]) = NotJudged
  BY <1>1, <1>4 DEF Given
<1> QED
  BY <1>1, <1>2, <1>5, <1>6, HandledKeepsNone DEF path

LEMMA HandleJudgeKeeps ==
  ASSUME Inv, server = "up", NEW c \in Clients, HandleJudge(c) PROVE Inv'
<1> DEFINE path == HandleRequest(request[c].uri)
           hs   == request[c].headers
           lang == Header(hs, "lang")
           given == [lang |-> lang, pid |-> Header(hs, "pid"), code |-> request[c].content]
           j == IF ~Supported(lang) THEN judged[c] ELSE given
<1>1. PICK rep \in JudgeReplies(lang) :
        /\ ConnAt(c, "route", "write") /\ path # <<>>
        /\ Route(request[c].method, path) = "judge"
        /\ reply' = [reply EXCEPT ![c] = rep]
        /\ request' = [request EXCEPT ![c].uri = path]
        /\ judged' = [judged EXCEPT ![c] = j]
        /\ UNCHANGED <<serverVars, wish, talk, pos, got>>
  BY DEF HandleJudge
<1>2. request[c] = Whole(c) /\ Whole(c) \in Parsing /\ Whole(c).state = "good"
      /\ judged[c] = NotJudged
  BY <1>1, Routed DEF ConnAt
<1>3. request'[c] = [Whole(c) EXCEPT !.uri = path]
  BY <1>1, <1>2 DEF Inv, Shapes
<1> HIDE DEF path
<1>4. /\ request'[c].uri = path /\ request'[c].state = "good"
      /\ request'[c].method = request[c].method /\ request'[c].headers = hs
      /\ request'[c].content = request[c].content
  BY <1>2, <1>3, WholeFields
<1> HIDE DEF hs
<1>5. Fits(request'[c], rep)
  BY <1>1, <1>4, JudgeRepliesFit
<1>6. Given(request'[c]) = j
  BY <1>1, <1>2, <1>4 DEF Given
<1> HIDE DEF j
<1>7. judged'[c] = j /\ DOMAIN judged' = Clients
      /\ \A d \in Clients \ {c} : judged'[d] = judged[d]
  BY <1>1 DEF Inv, Shapes
<1> QED
  BY <1>1, <1>5, <1>6, <1>7, HandledKeeps DEF path

(* handle_write.                                                           *)
LEMMA WriteKeeps ==
  ASSUME Inv, server = "up", NEW c \in Clients, Write(c) PROVE Inv'
<1>1. /\ cpc[c] = "write" /\ cpc' = [cpc EXCEPT ![c] = "end"] /\ cpc'[c] = "end"
      /\ UNCHANGED <<serverVars, wish, talk, pos, request, reply, judged>>
      /\ got' = IF talk[c] = "closed" THEN got ELSE [got EXCEPT ![c] = Sent(reply[c])]
  BY DEF Write, ConnAt, Inv, Shapes
<1>2. Whole(c)' = Whole(c) /\ ConnOK(c) /\ Whole(c).state \in Ended
  BY <1>1 DEF Inv, ConnOK, Stage, Whole, Received
<1>3. got'[c] = got[c] \/ got'[c] = Sent(reply[c])
  BY <1>1 DEF Inv, Shapes
<1>4. got[c] = Unset
  BY <1>1, <1>2 DEF ConnOK, Told
<1>5. ConnOK(c)'
  BY <1>1, <1>2, <1>3, <1>4 DEF ConnOK, Parsed, Stage, Answered, Told, Handled, serverVars
<1>6. cpc[c] \in Run /\ "end" \in Run
  BY <1>1 DEF Run
<1>7. /\ DOMAIN request' = Clients /\ DOMAIN reply' = Clients
      /\ DOMAIN got' = Clients /\ DOMAIN judged' = Clients
      /\ \A d \in Clients \ {c} : got'[d] = got[d]
  BY <1>1 DEF Inv, Shapes
<1> QED
  BY <1>1, <1>5, <1>6, <1>7, HandleStays

LEMMA NextKeeps == Inv /\ [Next]_vars => Inv'
<1> SUFFICES ASSUME Inv, [Next]_vars PROVE Inv'
  OBVIOUS
<1>1. CASE Startup
  <2>1. talk \in [Clients -> {"off", "sending", "silent", "closed"}]
    BY DEF Inv, Shapes
  <2> QED
    BY <1>1, <2>1, TurnsKeeps DEF Startup
<1>2. CASE UNCHANGED vars
  <2>1. /\ talk \in [Clients -> {"off", "sending", "silent", "closed"}]
        /\ server \in {"starting", "up", "dead"}
    BY DEF Inv, Shapes
  <2> QED
    BY <1>2, <2>1, TurnsKeeps DEF vars, serverVars
<1>3. CASE server = "up" /\ AcceptFails
  BY <1>3, DieKeeps DEF AcceptFails
<1>4. ASSUME server = "up", NEW c \in Clients,
             \/ Connect(c) \/ FallSilent(c) \/ Close(c)
             \/ Accept(c) \/ Serve(c) \/ HandleDies(c) \/ WriteKilled(c)
      PROVE  Inv'
  <2>1. CASE Connect(c) \/ FallSilent(c) \/ Close(c)
    BY <2>1, ClientKeeps
  <2>2. CASE Accept(c)
    BY <1>4, <2>2, AcceptKeeps
  <2>3. CASE Serve(c)
    BY <1>4, <2>3, RecvKeeps, RecvEndsKeeps, RefuseKeeps, HandleKeeps, HandleJudgeKeeps,
       WriteKeeps DEF Serve
  <2>4. CASE HandleDies(c) \/ WriteKilled(c)
    BY <2>4, DieKeeps DEF HandleDies, WriteKilled
  <2> QED
    BY <1>4, <2>1, <2>2, <2>3, <2>4
<1>5. ASSUME server = "up", NEW w \in Threads, Start(w) \/ Finish(w) PROVE Inv'
  BY <1>5, StartKeeps, FinishKeeps
<1> QED
  BY <1>1, <1>2, <1>3, <1>4, <1>5 DEF Next

LEMMA SpecInv == Spec => []Inv
BY InitInv, NextKeeps, PTL DEF Spec

-----------------------------------------------------------------------------
(* Types, positions and the pool's account of the connections: TypeOK, of  *)
(* Accept, Start and Finish (server.cpp, lines 14-60; mythreadpool.hpp).   *)
THEOREM TypeCorrect == Spec => []TypeOK
<1>1. Inv => TypeOK
  <2> SUFFICES ASSUME Inv PROVE TypeOK
    OBVIOUS
  <2>1. ASSUME NEW c \in Clients
        PROVE  pos[c] \in 0..Len(wish[c]) /\ reply[c].status \in {0, 200, 400, 404}
    <3>1. pos[c] \in Nat /\ Len(wish[c]) \in Nat /\ pos[c] <= Len(wish[c])
      BY DEF Inv, Shapes
    <3>2. reply[c] = Unset \/ reply[c] \in ReplyRec
      BY DEF Inv, ConnOK, Answered, Fits
    <3> QED
      BY <3>1, <3>2 DEF Unset, ReplyRec
  <2> QED
    BY <2>1 DEF Inv, Shapes, Once, TypeOK
<1> QED
  BY <1>1, SpecInv, PTL

(* The pieces do not matter: at any time, what the parser holds of a       *)
(* connection is what it would have made of all that has been received at  *)
(* once, and what is in the uri of a handled request is the decoded path,  *)
(* or nothing (connection.hpp, lines 64-97; request.cpp, lines 109-383).   *)
THEOREM PiecesDoNotMatter == Spec => [](\A c \in Clients : Parsed(c))
<1>1. Inv => \A c \in Clients : Parsed(c)
  BY DEF Inv, ConnOK
<1> QED
  BY <1>1, SpecInv, PTL

(* A reply as it goes over the wire: only one that holds a NUL is cut.     *)
LEMMA SentIs ==
  ASSUME NEW rep \in ReplyRec, rep.body \in Bodies
  PROVE  /\ Sent(rep).status = IF rep.status = 0 THEN 500 ELSE rep.status
         /\ Sent(rep).type = rep.type /\ Sent(rep).length = rep.length
         /\ rep.body # Binary => Sent(rep).body = rep.body
<1> DEFINE I == {i \in 1..Len(rep.body) : rep.body[i] = NUL}
           cut == IF I # {} THEN Min(I) ELSE 0
<1>1. Sent(rep) = [rep EXCEPT !.status = IF @ = 0 THEN 500 ELSE @,
                              !.body = IF cut = 0 THEN @ ELSE SubSeq(@, 1, cut - 1)]
  BY DEF Sent, SelectInSeq
<1>2. rep.body # Binary => I = {}
  <2>1. \A i \in 1..Len(Something) : Something[i] # NUL
    BY DEF Something, NUL
  <2>2. \A i \in 1..Len(<<>>) : <<>>[i] # NUL
    OBVIOUS
  <2> QED
    BY <2>1, <2>2, EncodeType DEF Bodies
<1>3. rep.body # Binary => cut = 0
  BY <1>2
<1> HIDE DEF cut
<1> QED
  BY <1>1, <1>3 DEF ReplyRec

(* What a client is sent is what its text calls for, whatever the files    *)
(* hold: AnswerFits.  The file of a problem comes back as RFC 4648 says,   *)
(* and decodes to itself, by the theorems on Base64.                       *)
THEOREM AnswersFit == Spec => []AnswerFits
<1>1. Inv => AnswerFits
  <2> SUFFICES ASSUME Inv, NEW c \in Clients, server = "up", got[c] # Unset
               PROVE  LET g == got[c]
                          q == request[c]
                          route == Route(q.method, q.uri)
                      IN /\ g.status = 400 <=> q.state = "bad" \/ q.uri = <<>>
                         /\ g.status = 500 => route = "judge" /\ g.type = "none"
                         /\ g.status = 404 => route \in {"problem", "default"}
                         /\ reply[c].body # Binary => g.length = Len(g.body)
                         /\ g.status = 200 /\ route = "problem" =>
                              \E s \in Contents : g.body = Reference(s) /\ Decode(g.body) = s
    BY DEF AnswerFits
  <2> DEFINE g == got[c]
             q == request[c]
             rep == reply[c]
             route == Route(q.method, q.uri)
  <2>1. g = Sent(rep) /\ Fits(q, rep)
    BY DEF Inv, ConnOK, Told, Answered, Handled
  <2> HIDE DEF g, q, rep
  <2>2. /\ rep \in ReplyRec /\ rep.body \in Bodies /\ rep.length = Len(rep.body)
        /\ rep.status = 400 <=> q.state = "bad" \/ q.uri = <<>>
        /\ rep.status = 0 => route = "judge" /\ rep.type = "none"
        /\ rep.status = 404 => route \in {"problem", "default"}
        /\ rep.status = 200 /\ route = "problem" => \E s \in Contents : rep.body = Encode(s)
    BY <2>1 DEF Fits
  <2> HIDE DEF route
  <2>3. rep.status \in {0, 200, 400, 404}
    BY <2>2 DEF ReplyRec
  <2>4. /\ g.status = IF rep.status = 0 THEN 500 ELSE rep.status
        /\ g.type = rep.type /\ g.length = rep.length
        /\ rep.body # Binary => g.body = rep.body
    BY <2>1, <2>2, SentIs
  <2>5. \A s \in Contents :
          Encode(s) # Binary /\ Encode(s) = Reference(s) /\ Decode(Encode(s)) = s
    <3> TAKE s \in Contents
    <3>1. s \in Seq(Byte8)
      BY HttpServerAssumption DEF Byte8
    <3>2. 2 \in 1..Len(Binary) /\ Binary[2] = NUL
      BY DEF Binary
    <3> QED
      BY <3>1, <3>2, EncodeType, EncodeIsReference, DecodeUndoesEncode
  <2>6. g.status = 200 /\ route = "problem" =>
          \E s \in Contents : g.body = Reference(s) /\ Decode(g.body) = s
    <3> HAVE g.status = 200 /\ route = "problem"
    <3>1. PICK s \in Contents : rep.body = Encode(s)
      BY <2>2, <2>3, <2>4
    <3> QED
      BY <2>4, <2>5, <3>1
  <2> QED
    BY <2>2, <2>3, <2>4, <2>6 DEF g, q, rep, route
<1> QED
  BY <1>1, SpecInv, PTL


-----------------------------------------------------------------------------
(* The parser finishes exactly the requests of the grammar, and records of *)
(* them what the grammar reads: ParsesExactly, for every text and whatever *)
(* pieces it comes in (request.cpp, lines 109-383).  When a request that   *)
(* declares an empty content is finished is left open, as it is there.     *)
THEOREM ParsesAsTheGrammar == Spec => []ParsesExactly
<1>1. Inv => ParsesExactly
  <2> SUFFICES ASSUME Inv, NEW c \in Clients
               PROVE  LET t == Received(c)
                          q == request[c]
                      IN /\ ~DeclaresNothing(t) => (Complete(t) <=> q.state = "good")
                         /\ q.state = "good" => /\ q.method = Method(t)
                                                /\ q.headers = Headers(t)
                                                /\ q.content = Body(t)
    BY DEF ParsesExactly
  <2>1. Received(c) \in Seq(Symbol) /\ Whole(c) \in Parsing /\ Parsed(c)
    BY WholeType DEF Inv, ConnOK
  <2>2. /\ request[c].state = Whole(c).state /\ request[c].method = Whole(c).method
        /\ request[c].headers = Whole(c).headers /\ request[c].content = Whole(c).content
    BY <2>1, WholeFields DEF Parsed
  <2>3. /\ Whole(c).state = "good" <=> Finished(Received(c))
        /\ Whole(c).state = "good" => AtGood(Whole(c), Received(c))
    BY <2>1, ParseIs DEF Whole
  <2>4. ASSUME NEW t \in Seq(Symbol), ~DeclaresNothing(t)
        PROVE  Complete(t) <=> Finished(t)
    <3>1. IsHead(t) /\ Has(t, CL) => Declared(t) \in Nat /\ Declared(t) # 0
      BY <2>4, DeclaredIs DEF IsHead, DeclaresNothing, CL
    <3>2. IsHead(t) /\ Has(t, CL) => Declared(t) >= 1
      BY <3>1
    <3> QED
      BY <3>2 DEF Complete, Finished, CL
  <2> QED
    BY <2>1, <2>2, <2>3, <2>4 DEF AtGood, Headed
<1> QED
  BY <1>1, SpecInv, PTL

(* The loop of the handler finds the last header of a name.                *)
LEMMA MaxIs ==
  ASSUME NEW S \in SUBSET Nat, NEW n \in S, \A m \in S : m <= n
  PROVE  Max(S) = n
<1>1. \A x \in S : (\A y \in S : x >= y) => x = n
  OBVIOUS
<1>2. \A y \in S : n >= y
  OBVIOUS
<1> QED
  BY <1>1, <1>2 DEF Max

LEMMA HeaderReads ==
  ASSUME NEW hs \in Seq(HeaderRec), NEW name
  PROVE  Header(hs, name) = IF Holds(hs, name) THEN hs[LastOf(hs, name)].value ELSE <<>>
<1> DEFINE I == {i \in 1..Len(hs) : hs[i].name = <<name>>}
           last == IF I # {} THEN Max(I) ELSE 0
<1>1. Header(hs, name) = IF last = 0 THEN <<>> ELSE hs[last].value
  BY DEF Header, SelectLastInSeq
<1>2. I # {} <=> Holds(hs, name)
  BY DEF Holds
<1>3. CASE ~Holds(hs, name)
  BY <1>1, <1>2, <1>3
<1>4. CASE Holds(hs, name)
  <2> DEFINE n == LastOf(hs, name)
  <2>1. n \in 1..Len(hs) /\ LastNamed(hs, name, n)
    BY <1>4, LastAt
  <2> HIDE DEF n
  <2>2. I \in SUBSET Nat /\ n \in I
    BY <2>1 DEF LastNamed
  <2>3. \A m \in I : m <= n
    <3> SUFFICES ASSUME NEW m \in I, ~(m <= n) PROVE FALSE
      OBVIOUS
    <3>1. m \in n + 1..Len(hs) /\ hs[m].name = <<name>>
      BY <2>1
    <3> QED
      BY <2>1, <3>1 DEF LastNamed
  <2>4. I # {}
    BY <2>2
  <2> HIDE DEF I
  <2>5. last = n /\ n # 0
    BY <2>1, <2>2, <2>3, <2>4, MaxIs
  <2> QED
    BY <1>1, <1>4, <2>5 DEF n
<1> QED
  BY <1>3, <1>4

(* The judge is given what the text says, once: JudgedAsSent, of the       *)
(* POST /judge handler (main.cpp, lines 70-107).                           *)
THEOREM JudgedExactlyAsSent == Spec => []JudgedAsSent
<1>1. Inv => JudgedAsSent
  <2> SUFFICES ASSUME Inv, NEW c \in Clients, cpc[c] \in {"write", "end", "closed"}
               PROVE  LET t == Received(c)
                          toJudge == /\ request[c].state = "good"
                                     /\ Route(request[c].method, request[c].uri) = "judge"
                                     /\ Value(t, "lang") = <<"cpp">>
                      IN judged[c] = IF ~toJudge THEN NotJudged
                                     ELSE [lang |-> <<"cpp">>, pid |-> Value(t, "pid"),
                                           code |-> Body(t)]
    BY DEF JudgedAsSent
  <2>1. /\ Received(c) \in Seq(Symbol) /\ Whole(c) \in Parsing /\ Parsed(c)
        /\ judged[c] = IF Whole(c).state \in Ended THEN Given(request[c]) ELSE NotJudged
    BY WholeType DEF Inv, ConnOK, Answered, Handled
  <2>2. /\ request[c].state = Whole(c).state
        /\ request[c].headers = Whole(c).headers /\ request[c].content = Whole(c).content
    BY <2>1, WholeFields DEF Parsed
  <2>3. CASE request[c].state # "good"
    BY <2>1, <2>3 DEF Given
  <2>4. CASE request[c].state = "good"
    <3>1. /\ request[c].headers = Headers(Received(c)) /\ request[c].content = Body(Received(c))
          /\ Headers(Received(c)) \in Seq(HeaderRec)
      BY <2>1, <2>2, <2>4, ParseIs, WholeFields DEF Whole, AtGood, Headed
    <3>2. \A name : Header(request[c].headers, name) = Value(Received(c), name)
      <4> TAKE name
      <4> DEFINE t == Received(c)
                 hs == Headers(t)
      <4>1. t \in Seq(Symbol) /\ hs \in Seq(HeaderRec)
        BY <2>1, <3>1
      <4>2. Header(hs, name) = IF Holds(hs, name) THEN hs[LastOf(hs, name)].value ELSE <<>>
        <5> HIDE DEF hs
        <5> QED
          BY <4>1, HeaderReads
      <4>3. Value(t, name) = IF Holds(hs, name) THEN hs[LastOf(hs, name)].value ELSE <<>>
        <5> HIDE DEF t
        <5> QED
          BY <4>1, ValueIs
      <4> QED
        BY <3>1, <4>2, <4>3
    <3>3. judged[c] = Given(request[c])
      BY <2>1, <2>2, <2>4 DEF Ended
    <3> QED
      BY <2>4, <3>1, <3>2, <3>3 DEF Given, Supported
  <2> QED
    BY <2>3, <2>4
<1> QED
  BY <1>1, SpecInv, PTL

-----------------------------------------------------------------------------
(* The decoder.  url_decode from a place on, given what it makes of the    *)
(* places behind it.                                                       *)
Out == Symbol \cup {"error"}
UrlTurn(u, f, i) ==
  IF i > Len(u) THEN <<>>
  ELSE CASE u[i] = "%" ->
              IF i + 2 <= Len(u) /\ Readable(u[i+1], u[i+2])
              THEN Decoded(u[i+1], u[i+2]) \o f[i + 3] ELSE <<"error">>
         [] u[i] = "+" -> <<"SP">> \o f[i + 1]
         [] OTHER -> <<u[i]>> \o f[i + 1]

LEMMA ByteType == ASSUME NEW hi, NEW lo PROVE Byte(hi, lo) \in Symbol /\ Byte(hi, lo) \in Out
<1>1. {"ctl", "SP", ".", "/", "other", "hi"} \subseteq Symbol
  BY DEF Symbol, Char, Ctl, TSpecial
<1>2. Byte(hi, lo) \in {"ctl", "SP", ".", "/", "other", "hi"}
  <2>1. CASE hi = "2" /\ lo \in Hex
    BY <2>1 DEF Byte, Hex, Digit
  <2>2. CASE ~(hi = "2" /\ lo \in Hex)
    BY <2>2 DEF Byte
  <2> QED
    BY <2>1, <2>2
<1> QED
  BY <1>1, <1>2 DEF Out

LEMMA UrlTurnType ==
  ASSUME NEW u \in Seq(Symbol), NEW i \in Nat \ {0}, NEW f,
         i <= Len(u) => f[i + 1] \in Seq(Out) /\ f[i + 3] \in Seq(Out)
  PROVE  UrlTurn(u, f, i) \in Seq(Out)
<1>1. CASE i > Len(u)
  BY <1>1 DEF UrlTurn
<1>2. CASE ~(i > Len(u))
  <2>1. /\ i \in 1..Len(u) /\ u[i] \in Out /\ "SP" \in Out /\ "error" \in Out
        /\ f[i + 1] \in Seq(Out) /\ f[i + 3] \in Seq(Out)
    BY <1>2 DEF Out, Symbol, Char, TSpecial
  <2>2. \A x \in Out : <<x>> \o f[i + 1] \in Seq(Out) /\ <<x>> \in Seq(Out)
    BY <2>1
  <2>3. Decoded(u[i+1], u[i+2]) \o f[i + 3] \in Seq(Out)
    <3>1. "other" \in Out
      BY DEF Out, Symbol, Char
    <3>2. Decoded(u[i+1], u[i+2]) \in Seq(Out)
      BY <3>1, ByteType DEF Decoded
    <3> QED
      BY <2>1, <3>2
  <2> QED
    BY <1>2, <2>1, <2>2, <2>3 DEF UrlTurn
<1> QED
  BY <1>1, <1>2

LEMMA UrlDecodeSteps ==
  ASSUME NEW u \in Seq(Symbol)
  PROVE  \E d : /\ UrlDecode(u) = d[1]
                /\ \A i \in 1..Len(u) + 3 : d[i] = UrlTurn(u, d, i) /\ d[i] \in Seq(Out)
<1> DEFINE n == Len(u)
           V == Seq(Out)
           From(m) == n + 1 - m..n + 3
           Partly(m) == \E f \in [From(m) -> V] : \A i \in From(m) : f[i] = UrlTurn(u, f, i)
           S == {m \in 0..n : ~Partly(m)}
<1>1. n \in Nat
  OBVIOUS
<1>2. Partly(0)
  <2> DEFINE f == [i \in From(0) |-> <<>>]
  <2>1. f \in [From(0) -> V]
    OBVIOUS
  <2>2. ASSUME NEW i \in From(0) PROVE f[i] = UrlTurn(u, f, i)
    <3>1. i > Len(u) /\ f[i] = <<>>
      BY <1>1
    <3> HIDE DEF f
    <3> QED
      BY <3>1 DEF UrlTurn
  <2> HIDE DEF f
  <2> QED
    BY <2>1, <2>2
<1>3. ASSUME NEW m \in 1..n, Partly(m - 1) PROVE Partly(m)
  <2> DEFINE k == n + 1 - m
  <2>1. PICK f \in [From(m - 1) -> V] : \A i \in From(m - 1) : f[i] = UrlTurn(u, f, i)
    BY <1>3
  <2>2. /\ k \in Nat \ {0} /\ k \in From(m) /\ k <= n /\ k \notin From(m - 1)
        /\ \A i \in From(m) : i \in Nat \ {0} /\ (i = k \/ i \in From(m - 1))
        /\ \A i \in From(m) : i <= n =>
             /\ i + 1 \in From(m - 1) /\ i + 3 \in From(m - 1) /\ i + 1 # k /\ i + 3 # k
             /\ i + 1 \in From(m) /\ i + 3 \in From(m)
    BY <1>1
  <2> DEFINE g == [i \in From(m) |-> IF i = k THEN UrlTurn(u, f, k) ELSE f[i]]
  <2> HIDE DEF k, From
  <2>3. UrlTurn(u, f, k) \in V
    <3>1. f[k + 1] \in V /\ f[k + 3] \in V
      BY <2>2
    <3> QED
      BY <2>2, <3>1, UrlTurnType
  <2>4. g \in [From(m) -> V]
    BY <2>2, <2>3
  <2>5. ASSUME NEW i \in From(m) PROVE g[i] = UrlTurn(u, g, i)
    <3>1. i <= n => g[i + 1] = f[i + 1] /\ g[i + 3] = f[i + 3]
      BY <2>2
    <3>2. UrlTurn(u, g, i) = UrlTurn(u, f, i)
      <4>1. i \in Nat /\ (~(i > Len(u)) => i <= n)
        BY <2>2, <1>1
      <4> HIDE DEF g
      <4> QED
        BY <3>1, <4>1 DEF UrlTurn
    <3>3. g[i] = IF i = k THEN UrlTurn(u, f, k) ELSE f[i]
      OBVIOUS
    <3> HIDE DEF g
    <3> QED
      BY <2>1, <2>2, <3>2, <3>3
  <2> HIDE DEF g
  <2> QED
    BY <2>4, <2>5
<1>4. S = {}
  <2> SUFFICES ASSUME S # {} PROVE FALSE
    OBVIOUS
  <2> HIDE DEF Partly
  <2>1. S \in SUBSET Nat
    OBVIOUS
  <2>2. PICK m \in S : \A k \in S : m <= k
    <3> HIDE DEF S
    <3> QED
      BY <2>1, SmallestOf
  <2>3. m # 0 /\ m \in 0..n /\ ~Partly(m)
    BY <1>2, <2>2
  <2>4. m - 1 \in 0..n /\ m \in 1..n /\ ~(m <= m - 1)
    BY <1>1, <2>3
  <2>5. Partly(m - 1)
    BY <2>2, <2>4
  <2> QED
    BY <1>3, <2>3, <2>4, <2>5
<1>5. PICK f \in [1..n + 3 -> V] : \A i \in 1..n + 3 : f[i] = UrlTurn(u, f, i)
  <2>1. n \in 0..n /\ From(n) = 1..n + 3
    BY <1>1
  <2>2. Partly(n)
    <3> HIDE DEF Partly
    <3> QED
      BY <1>4, <2>1
  <2> QED
    BY <2>1, <2>2
<1> HIDE DEF S, Partly
<1> DEFINE Rec(h) == [i \in 1..(Len(u) + 3) |->
                        IF i > Len(u) THEN <<>>
                        ELSE CASE u[i] = "%" ->
                                    IF i + 2 <= Len(u) /\ Readable(u[i+1], u[i+2])
                                    THEN Decoded(u[i+1], u[i+2]) \o h[i + 3] ELSE <<"error">>
                               [] u[i] = "+" -> <<"SP">> \o h[i + 1]
                               [] OTHER -> <<u[i]>> \o h[i + 1]]
           d == CHOOSE h : h = Rec(h)
<1>6. UrlDecode(u) = d[1]
  BY DEF UrlDecode
<1>7. \A h : DOMAIN Rec(h) = 1..n + 3 /\ \A i \in 1..n + 3 : Rec(h)[i] = UrlTurn(u, h, i)
  BY DEF UrlTurn
<1>8. f = Rec(f)
  <2>1. \A i \in 1..n + 3 : f[i] = Rec(f)[i]
    BY <1>5, <1>7
  <2>2. f = [i \in 1..n + 3 |-> f[i]] /\ Rec(f) = [i \in 1..n + 3 |-> Rec(f)[i]]
    OBVIOUS
  <2> HIDE DEF Rec
  <2> QED
    BY <2>1, <2>2
<1>9. d = Rec(d)
  BY <1>8
<1> HIDE DEF d, Rec
<1>10. \A i \in 1..n + 3 : d[i] = UrlTurn(u, d, i)
  BY <1>7, <1>9
<1> DEFINE B == {m \in 0..n + 2 : d[n + 3 - m] \notin V}
<1>11. B = {}
  <2> SUFFICES ASSUME B # {} PROVE FALSE
    OBVIOUS
  <2>1. B \in SUBSET Nat
    OBVIOUS
  <2>2. PICK m \in B : \A k \in B : m <= k
    <3> HIDE DEF B
    <3> QED
      BY <2>1, SmallestOf
  <2> DEFINE i == n + 3 - m
  <2>3. m \in 0..n + 2 /\ i \in 1..n + 3 /\ i \in Nat \ {0} /\ d[i] \notin V
    BY <1>1, <2>2
  <2>4. ASSUME i <= n PROVE d[i + 1] \in V /\ d[i + 3] \in V
    <3>1. /\ m - 1 \in 0..n + 2 /\ n + 3 - (m - 1) = i + 1 /\ ~(m <= m - 1)
          /\ m - 3 \in 0..n + 2 /\ n + 3 - (m - 3) = i + 3 /\ ~(m <= m - 3)
      BY <1>1, <2>3, <2>4
    <3>2. m - 1 \notin B /\ m - 3 \notin B
      BY <2>2, <3>1
    <3> QED
      BY <3>1, <3>2
  <2> HIDE DEF i
  <2> QED
    BY <1>10, <2>3, <2>4, UrlTurnType
<1>12. ASSUME NEW i \in 1..n + 3 PROVE d[i] \in V
  <2>1. n + 3 - i \in 0..n + 2 /\ n + 3 - (n + 3 - i) = i
    BY <1>1
  <2> QED
    BY <1>11, <2>1
<1> HIDE DEF B
<1> QED
  BY <1>6, <1>10, <1>12

(* Plain, a place after the other.                                         *)
Escapes(u) == {i \in 1..Len(u) : u[i] = "%"}
Stands(u, i) ==
  IF i \in Escapes(u) THEN Byte(u[i + 1], u[i + 2]) ELSE IF u[i] = "+" THEN "SP" ELSE u[i]
PlainTurn(u, s, i) ==
  IF {i - 1, i - 2} \cap Escapes(u) # {} THEN s ELSE Append(s, Stands(u, i))

LEMMA PlainSteps ==
  ASSUME NEW u \in Seq(Symbol)
  PROVE  \E g \in [0..Len(u) -> Seq(Symbol)] :
           /\ g[0] = <<>> /\ Plain(u) = g[Len(u)]
           /\ \A i \in 1..Len(u) : g[i] = PlainTurn(u, g[i - 1], i)
<1> DEFINE n == Len(u)
           V == Seq(Symbol)
           esc == {i \in 1..Len(u) : u[i] = "%"}
           of(i) == IF i \in esc THEN Byte(u[i + 1], u[i + 2])
                    ELSE IF u[i] = "+" THEN "SP" ELSE u[i]
           F == [x \in (1..n) \X V |-> PlainTurn(u, x[2], x[1])]
           Rec(f) == [i \in 0..Len(u) |->
                        IF i = 0 THEN <<>>
                        ELSE IF {i - 1, i - 2} \cap esc # {} THEN f[i - 1]
                        ELSE Append(f[i - 1], of(i))]
           to == CHOOSE f : f = Rec(f)
<1>1. n \in Nat /\ <<>> \in V
  OBVIOUS
<1>2. Plain(u) = to[n]
  BY DEF Plain
<1>3. F \in [(1..n) \X V -> V]
  <2>1. ASSUME NEW i \in 1..n, NEW s \in V PROVE PlainTurn(u, s, i) \in V
    <3>1. u[i] \in Symbol /\ "SP" \in Symbol
      BY DEF Symbol, Char, TSpecial
    <3>2. Stands(u, i) \in Symbol
      BY <3>1, ByteType DEF Stands
    <3> QED
      BY <3>2 DEF PlainTurn
  <2> HIDE DEF n, V
  <2> QED
    BY <2>1
<1>4. PICK g \in [0..n -> V] : ByRec(g, n, <<>>, F)
  <2> HIDE DEF F, V
  <2> QED
    BY <1>1, <1>3, RecExists
<1>5. /\ g[0] = <<>>
      /\ \A i \in 1..n : g[i] = PlainTurn(u, g[i - 1], i)
  <2>1. \A i \in 0..n : g[i] = IF i = 0 THEN <<>> ELSE F[<<i, g[i - 1]>>]
    <3> HIDE DEF F
    <3> QED
      BY <1>4 DEF ByRec
  <2>2. ASSUME NEW i \in 1..n PROVE F[<<i, g[i - 1]>>] = PlainTurn(u, g[i - 1], i)
    <3>1. <<i, g[i - 1]>> \in (1..n) \X V
      <4>1. i - 1 \in 0..n
        BY <1>1
      <4> HIDE DEF n, V
      <4> QED
        BY <4>1
    <3> QED
      BY <3>1
  <2>3. 0 \in 0..n /\ \A i \in 1..n : i \in 0..n /\ i # 0
    BY <1>1
  <2> HIDE DEF F
  <2> QED
    BY <2>1, <2>2, <2>3
<1>6. \A f : \A i \in 0..n : Rec(f)[i] = IF i = 0 THEN <<>> ELSE PlainTurn(u, f[i - 1], i)
  BY <1>1 DEF PlainTurn, Stands, Escapes
<1>7. g = Rec(g)
  <2>1. ASSUME NEW i \in 0..n PROVE g[i] = Rec(g)[i]
    <3>1. Rec(g)[i] = IF i = 0 THEN <<>> ELSE PlainTurn(u, g[i - 1], i)
      <4> HIDE DEF Rec
      <4> QED
        BY <1>6
    <3>2. i # 0 => i \in 1..n
      BY <1>1
    <3> HIDE DEF Rec
    <3> QED
      BY <1>5, <3>1, <3>2
  <2>2. g = [i \in 0..n |-> g[i]] /\ Rec(g) = [i \in 0..n |-> Rec(g)[i]]
    OBVIOUS
  <2> HIDE DEF Rec
  <2> QED
    BY <2>1, <2>2
<1>8. to = Rec(to)
  BY <1>7
<1>9. AgreeByRec(to, g, 0, n)
  <2> HIDE DEF Rec, to
  <2>1. \A i \in 0..n : to[i] = IF i = 0 THEN <<>> ELSE PlainTurn(u, to[i - 1], i)
    BY <1>6, <1>8
  <2>2. \A i \in 0..n : g[i] = IF i = 0 THEN <<>> ELSE PlainTurn(u, g[i - 1], i)
    BY <1>1, <1>5
  <2> QED
    BY <2>1, <2>2 DEF AgreeByRec
<1>10. to[n] = g[n]
  <2> HIDE DEF to
  <2> QED
    BY <1>1, <1>9, SameByRec
<1> HIDE DEF to
<1> QED
  BY <1>2, <1>5, <1>10

(* A well-formed uri is decoded to what it means: at every place that is   *)
(* not within an escape, what Plain has of the places up to it and what    *)
(* url_decode makes of those behind it are together what url_decode makes  *)
(* of all.                                                                 *)
LEMMA DecodesPlain ==
  ASSUME NEW u \in Seq(Symbol), WellFormed(u)
  PROVE  UrlDecode(u) = Plain(u) /\ Plain(u) \in Seq(Symbol)
<1> DEFINE n == Len(u)
<1>1. PICK g \in [0..n -> Seq(Symbol)] :
        /\ g[0] = <<>> /\ Plain(u) = g[n]
        /\ \A i \in 1..n : g[i] = PlainTurn(u, g[i - 1], i)
  BY PlainSteps
<1>2. PICK d : /\ UrlDecode(u) = d[1]
               /\ \A i \in 1..n + 3 : d[i] = UrlTurn(u, d, i) /\ d[i] \in Seq(Out)
  BY UrlDecodeSteps
<1>3. /\ n \in Nat
      /\ \A i \in Escapes(u) : /\ i \in 1..n /\ i + 2 <= n /\ u[i + 1] \in Hex /\ u[i + 2] \in Hex
                               /\ i + 1 \notin Escapes(u) /\ i + 2 \notin Escapes(u)
  BY DEF WellFormed, Escapes, Hex, Digit
<1> DEFINE Meets(i) == g[i] \o d[i + 1] = d[1]
           Free(i) == i \notin Escapes(u) /\ i - 1 \notin Escapes(u)
           S == {i \in 0..n : Free(i) /\ ~Meets(i)}
<1>4. Meets(0)
  <2>1. d[1] \in Seq(Out) /\ 0 + 1 = 1
    BY <1>2, <1>3
  <2> QED
    BY <1>1, <2>1
<1>5. ASSUME NEW i \in 1..n, Free(i), Free(i - 1), Meets(i - 1) PROVE Meets(i)
  <2>1. g[i] = Append(g[i - 1], IF u[i] = "+" THEN "SP" ELSE u[i])
    <3>1. g[i] = PlainTurn(u, g[i - 1], i) /\ (i - 1) - 1 = i - 2
      BY <1>1
    <3> QED
      BY <1>5, <3>1 DEF PlainTurn, Stands
  <2>2. d[i] = <<IF u[i] = "+" THEN "SP" ELSE u[i]>> \o d[i + 1]
    <3>1. i \in 1..n + 3 /\ ~(i > Len(u)) /\ u[i] # "%"
      BY <1>5 DEF Escapes
    <3> QED
      BY <1>2, <3>1 DEF UrlTurn
  <2>3. PICK x \in Out : x = IF u[i] = "+" THEN "SP" ELSE u[i]
    BY DEF Out, Symbol, Char, TSpecial
  <2>4. /\ g[i - 1] \in Seq(Out) /\ d[i + 1] \in Seq(Out) /\ (i - 1) + 1 = i
    <3>1. g[i - 1] \in Seq(Symbol) /\ i + 1 \in 1..n + 3
      OBVIOUS
    <3> QED
      BY <1>2, <3>1 DEF Out
  <2>5. \A a, b \in Seq(Out) : Append(a, x) \o b = a \o (<<x>> \o b)
    OBVIOUS
  <2>6. g[i - 1] \o d[i] = d[1]
    BY <1>5, <2>4
  <2>7. g[i] \o d[i + 1] = g[i - 1] \o d[i]
    BY <2>1, <2>2, <2>3, <2>4, <2>5
  <2> QED
    BY <2>6, <2>7
<1>6. ASSUME NEW i \in 1..n, i - 2 \in Escapes(u), Meets(i - 3) PROVE Meets(i)
  <2>0. PICK j \in Escapes(u) : j = i - 2
    BY <1>6
  <2>10. j \in 1..n /\ j + 2 <= n /\ n \in Nat
    BY <1>3
  <2>1. /\ j \in 1..n /\ j + 1 \in 1..n /\ j + 2 \in 1..n /\ i = j + 2 /\ j + 3 \in 1..n + 3
        /\ i - 3 = j - 1 /\ (j + 1) - 1 = j /\ (j + 1) - 2 = j - 1 /\ (j + 2) - 1 = j + 1
        /\ (j + 2) - 2 = j /\ (j - 1) + 1 = j /\ j - 1 \in 0..n
    <3> HIDE DEF n
    <3> QED
      BY <2>0, <2>10
  <2> DEFINE x == Byte(u[j + 1], u[j + 2])
  <2>2. j - 1 \notin Escapes(u) /\ j - 2 \notin Escapes(u)
    <3>1. (j - 1) + 1 = j /\ (j - 2) + 2 = j
      BY <2>1
    <3> QED
      BY <1>3, <1>6, <3>1
  <2>3. g[j] = Append(g[j - 1], x) /\ g[j + 1] = g[j] /\ g[j + 2] = g[j + 1]
    <3>1. /\ g[j] = PlainTurn(u, g[j - 1], j)
          /\ g[j + 1] = PlainTurn(u, g[j], j + 1)
          /\ g[j + 2] = PlainTurn(u, g[j + 1], j + 2)
      BY <1>1, <2>1
    <3> QED
      BY <2>1, <2>2, <3>1 DEF PlainTurn, Stands
  <2>4. d[j] = <<x>> \o d[j + 3]
    <3>1. /\ j \in 1..n + 3 /\ ~(j > Len(u)) /\ u[j] = "%" /\ j + 2 <= Len(u)
          /\ u[j + 1] \in Hex /\ u[j + 2] \in Hex
      BY <1>3, <2>1 DEF Escapes
    <3>2. d[j] = Decoded(u[j + 1], u[j + 2]) \o d[j + 3]
      BY <1>2, <3>1 DEF UrlTurn, Readable
    <3>3. u[j + 2] \notin Word
      BY <3>1 DEF Hex, Digit, Word
    <3> QED
      BY <3>2, <3>3 DEF Decoded
  <2>5. x \in Out /\ g[j - 1] \in Seq(Out) /\ d[j + 3] \in Seq(Out)
    <3>1. g[j - 1] \in Seq(Symbol)
      BY <2>1
    <3> QED
      BY <1>2, <2>1, <3>1, ByteType DEF Out
  <2> HIDE DEF x
  <2>6. \A a, b \in Seq(Out) : Append(a, x) \o b = a \o (<<x>> \o b)
    BY <2>5
  <2>7. g[j - 1] \o d[j] = d[1]
    <3>1. g[j - 1] \o d[(j - 1) + 1] = d[1]
      BY <1>6, <2>1
    <3> QED
      BY <2>1, <3>1
  <2>8. i + 1 = j + 3
    BY <2>1
  <2> QED
    BY <2>1, <2>3, <2>4, <2>5, <2>6, <2>7, <2>8
<1>7. S = {}
  <2> SUFFICES ASSUME S # {} PROVE FALSE
    OBVIOUS
  <2> HIDE DEF Meets
  <2>1. S \in SUBSET Nat
    BY <1>3
  <2>2. PICK i \in S : \A k \in S : i <= k
    <3> HIDE DEF S
    <3> QED
      BY <2>1, SmallestOf
  <2>3. i \in 1..n /\ Free(i) /\ ~Meets(i) /\ i - 1 \notin Escapes(u)
    BY <1>4, <2>2
  <2>4. CASE i - 2 \in Escapes(u)
    <3>0. i - 2 \in 1..n /\ n \in Nat
      BY <1>3, <2>4
    <3>1. i - 3 \in 0..n /\ ~(i <= i - 3) /\ (i - 3) + 1 = i - 2
          /\ ((i - 3) - 1) + 2 = i - 2
      <4> HIDE DEF n
      <4> QED
        BY <3>0
    <3>2. Free(i - 3)
      BY <1>3, <2>4, <3>1
    <3>3. Meets(i - 3)
      BY <2>2, <3>1, <3>2
    <3> QED
      BY <1>6, <2>3, <2>4, <3>3
  <2>5. CASE i - 2 \notin Escapes(u)
    <3>1. i - 1 \in 0..n /\ ~(i <= i - 1) /\ (i - 1) - 1 = i - 2
      BY <2>3
    <3>2. Free(i - 1)
      BY <2>3, <2>5, <3>1
    <3>3. Meets(i - 1)
      BY <2>2, <3>1, <3>2
    <3> QED
      BY <1>5, <2>3, <3>2, <3>3
  <2> QED
    BY <2>4, <2>5
<1>8. Free(n)
  <2>1. ~(n + 2 <= n) /\ ~((n - 1) + 2 <= n)
    BY <1>3
  <2> QED
    BY <1>3, <2>1
<1>9. Meets(n)
  <2>1. n \in 0..n
    BY <1>3
  <2> HIDE DEF Meets, Free
  <2> QED
    BY <1>7, <1>8, <2>1
<1>10. d[n + 1] = <<>>
  <2>1. n + 1 \in 1..n + 3 /\ n + 1 > Len(u)
    BY <1>3
  <2> QED
    BY <1>2, <2>1 DEF UrlTurn
<1>11. g[n] \in Seq(Symbol)
  BY <1>3
<1> QED
  BY <1>1, <1>2, <1>9, <1>10, <1>11

(* The router sees a plain path: RoutesPlainPath, of handle_request and    *)
(* url_decode (request.cpp, lines 10-27 and 67-105).                       *)
THEOREM RoutesThePlainPath == Spec => []RoutesPlainPath
<1>1. Inv => RoutesPlainPath
  <2> SUFFICES ASSUME Inv, NEW c \in Clients,
                      request[c].state = "good", cpc[c] \in {"write", "end", "closed"}
               PROVE  LET t == Received(c)
                          p == request[c].uri
                      IN /\ p # <<>> => p[1] = "/" /\ ~HasDotDot(p)
                         /\ WellFormed(Target(t)) =>
                              p = IF Plain(Target(t)) = <<>> \/ Plain(Target(t))[1] # "/"
                                     \/ HasDotDot(Plain(Target(t)))
                                  THEN <<>> ELSE Plain(Target(t))
    BY DEF RoutesPlainPath
  <2> DEFINE u == Target(Received(c))
  <2>1. Received(c) \in Seq(Symbol) /\ Whole(c) \in Parsing /\ Parsed(c)
    BY WholeType DEF Inv, ConnOK
  <2>2. Whole(c).state = "good"
    BY <2>1, WholeFields DEF Parsed
  <2>3. u = Whole(c).uri /\ u \in Seq(Symbol)
    BY <2>1, <2>2, ParseIs, WholeFields DEF Whole, AtGood, Headed
  <2>4. request[c].uri = HandleRequest(u)
    BY <2>1, <2>2, <2>3, WholeFields DEF Parsed, Handled
  <2> HIDE DEF u
  <2>5. HandleRequest(u) # <<>> => HandleRequest(u)[1] = "/" /\ ~HasDotDot(HandleRequest(u))
    BY DEF HandleRequest
  <2>6. ASSUME WellFormed(u)
        PROVE  HandleRequest(u) = IF Plain(u) = <<>> \/ Plain(u)[1] # "/" \/ HasDotDot(Plain(u))
                                  THEN <<>> ELSE Plain(u)
    <3>1. UrlDecode(u) = Plain(u) /\ Plain(u) \in Seq(Symbol)
      BY <2>3, <2>6, DecodesPlain
    <3>2. "error" \notin Symbol
      BY DEF Symbol, Char, Hex, Digit, Word, Ctl, TSpecial
    <3>3. Plain(u) # <<>> => Plain(u)[Len(Plain(u))] \in Symbol
      BY <3>1
    <3> QED
      BY <3>1, <3>2, <3>3 DEF HandleRequest
  <2> QED
    BY <2>4, <2>5, <2>6 DEF u
<1> QED
  BY <1>1, SpecInv, PTL
=============================================================================
