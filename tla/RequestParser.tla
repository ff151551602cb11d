---------------------------- MODULE RequestParser ----------------------------
(***************************************************************************)
(* request_parser and url_decode of src/src/http/request.hpp and           *)
(* request.cpp, as operators; RequestGrammar says what they are to accept. *)
(*                                                                         *)
(* A text is a sequence of symbols.  Most symbols are one character; a     *)
(* word stands for a name whose letters the parser treats alike, and only  *)
(* Content-Length and the names the handlers look for are told apart.      *)
(* "SP" is a blank, "ctl" a control character other than tab, CR and LF,   *)
(* "hi" a byte above 127, a negative char, "?" a tspecial no rule names.   *)
(* The digits of the version, which nothing reads, are not recorded.       *)
(***************************************************************************)
EXTENDS Naturals, Sequences, SequencesExt

Digit == {"0", "1", "2"}
Hex   == Digit \cup {"E", "F"}
Word  == {"GET", "POST", "problem", "result", "judge", "json", "index",
          "html", "png", "Content-Length", "lang", "pid", "cpp"}
Ctl   == {"tab", "CR", "LF", "ctl"}
Lws   == {"SP", "tab"}
TSpecial == {":", "/", "SP", "tab", "?"}
Char  == Hex \cup Word \cup Ctl \cup TSpecial
           \cup {"H", "T", "P", ".", "%", "+", "other"}
Symbol == Char \cup {"hi"}

(* !is_char(c) || is_ctl(c) || is_tspecial(c) is bad in a token. *)
Token == Char \ (Ctl \cup TSpecial)
Text  == Symbol \ Ctl

-----------------------------------------------------------------------------
(* consume: state by state, the characters a state lets through, the next  *)
(* state and what becomes of the character.  No rule: bad.                 *)
Rule(from, on, to, does) == [from |-> from, on |-> on, to |-> to, does |-> does]

RequestLineRules == {
  Rule("method_start", Token, "method", "method"),
  Rule("method", {"SP"}, "uri", "skip"),
  Rule("method", Token, "method", "method"),
  Rule("uri", {"SP"}, "http_version_h", "skip"),
  Rule("uri", Text \ {"SP"}, "uri", "uri"),
  Rule("http_version_h", {"H"}, "http_version_t_1", "skip"),
  Rule("http_version_t_1", {"T"}, "http_version_t_2", "skip"),
  Rule("http_version_t_2", {"T"}, "http_version_p", "skip"),
  Rule("http_version_p", {"P"}, "http_version_slash", "skip"),
  Rule("http_version_slash", {"/"}, "http_version_major_start", "skip"),
  Rule("http_version_major_start", Digit, "http_version_major", "skip"),
  Rule("http_version_major", {"."}, "http_version_minor_start", "skip"),
  Rule("http_version_major", Digit, "http_version_major", "skip"),
  Rule("http_version_minor_start", Digit, "http_version_minor", "skip"),
  Rule("http_version_minor", {"CR"}, "expecting_newline_1", "skip"),
  Rule("http_version_minor", Digit, "http_version_minor", "skip"),
  Rule("expecting_newline_1", {"LF"}, "header_line_start", "skip")}

HeaderRules == {
  Rule("header_line_start", {"CR"}, "expecting_newline_3", "skip"),
  Rule("header_line_start", Lws, "header_lws", "continue"),
  Rule("header_line_start", Token, "header_name", "header"),
  Rule("header_lws", {"CR"}, "expecting_newline_2", "skip"),
  Rule("header_lws", Lws, "header_lws", "skip"),
  Rule("header_lws", Text \ Lws, "header_value", "value"),
  Rule("header_name", {":"}, "space_before_header_value", "named"),
  Rule("header_name", Token, "header_name", "name"),
  Rule("space_before_header_value", {"SP"}, "header_value", "skip"),
  Rule("header_value", {"CR"}, "expecting_newline_2", "valued"),
  Rule("header_value", Text, "header_value", "value"),
  Rule("expecting_newline_2", {"LF"}, "header_line_start", "skip")}

ContentRules == {
  Rule("expecting_newline_3", {"LF"}, "content", "end_of_headers"),
  Rule("content", Symbol, "content", "content")}

Rules == RequestLineRules \cup HeaderRules \cup ContentRules
RulesFrom == [s \in {r.from : r \in Rules} |-> {r \in Rules : r.from = s}]

(* atoll of a value: the digits after leading spaces and a sign. *)
DigitValue == [d \in Digit |-> CASE d = "0" -> 0 [] d = "1" -> 1 [] d = "2" -> 2]
Number(value) ==
  LET first == SelectInSeq(value, LAMBDA c : c # "SP")
      from  == IF first # 0 /\ value[first] = "+" THEN first + 1 ELSE first
      stop  == SelectInSubSeq(value, from, Len(value), LAMBDA c : c \notin Digit)
      last  == IF stop = 0 THEN Len(value) ELSE stop - 1
      n[i \in 0..last] ==  \* of the digits from `from` up to i
        IF i < from \/ i = 0 THEN 0 ELSE n[i - 1] * 10 + DigitValue[value[i]]
  IN IF first = 0 THEN 0 ELSE n[last]

(* request, request_parser: *)
NewRequest == [state |-> "method_start", method |-> <<>>, uri |-> <<>>,
               headers |-> <<>>, has_content |-> FALSE, content_size |-> 0,
               content |-> <<>>]

Applicable(q, c) ==
  {r \in RulesFrom[q.state] :
     c \in r.on /\ (r.does = "continue" => q.headers # <<>>)}

IsLengthAny(q) ==  \* mutant: any header so far is looked at
  \E i \in 1..Len(q.headers) : q.headers[i].name = <<"Content-Length">>
IsLength(q) == Last(q.headers).name = <<"Content-Length">>

(* What becomes of the character c that rule r lets through.               *)
Apply(q, r, c) ==
  LET p    == [q EXCEPT !.state = r.to]
      last == Len(q.headers)
  IN CASE r.does \in {"skip", "continue"} -> p
       [] r.does = "method" -> [p EXCEPT !.method = Append(@, c)]
       [] r.does = "uri"    -> [p EXCEPT !.uri = Append(@, c)]
       [] r.does = "header" ->
            [p EXCEPT !.headers = Append(@, [name |-> <<c>>, value |-> <<>>])]
       [] r.does = "name"   -> [p EXCEPT !.headers[last].name = Append(@, c)]
       [] r.does = "value"  -> [p EXCEPT !.headers[last].value = Append(@, c)]
       [] r.does = "named"  -> [p EXCEPT !.has_content = @ \/ IsLength(q)]
       [] r.does = "valued" ->
            IF IsLength(q)
            THEN [p EXCEPT !.content_size = Number(q.headers[last].value)] ELSE p
       [] r.does = "end_of_headers" ->
            IF q.has_content THEN p ELSE [p EXCEPT !.state = "good"]
       [] r.does = "content" ->
            [p EXCEPT !.content = Append(@, c),
                      !.state = IF Len(q.content) + 1 = q.content_size
                                THEN "good" ELSE "content"]

Consume(q, c) ==
  IF Applicable(q, c) = {} THEN [q EXCEPT !.state = "bad"]
  ELSE Apply(q, CHOOSE r \in Applicable(q, c) : TRUE, c)

(* The rest of the piece is not looked at after good or bad.  (The set of  *)
(* one element makes TLC compute a state once, not at each of its uses.)   *)
Parse(q, piece) ==
  LET step(p, c) == IF p.state \in {"good", "bad"} THEN p ELSE Consume(p, c)
      after[k \in 0..Len(piece)] ==
        IF k = 0 THEN q
        ELSE CHOOSE r \in {step(p, piece[k]) : p \in {after[k - 1]}} : TRUE
  IN after[Len(piece)]

-----------------------------------------------------------------------------
(* url_decode.  The two characters after % are read by an istream as a hex *)
(* int, which may start with a sign and stops at the first character that  *)
(* is no digit: "%2z" is the byte 2.  A word of which one letter is        *)
(* dropped is still some word.                                             *)
Byte(hi, lo) ==
  CASE hi \notin Hex -> "ctl"   \* a sign
    [] lo \notin Hex -> "ctl"   \* one digit, a byte below 16
    [] hi \in {"0", "1"} -> "ctl"
    [] hi = "2" -> CASE lo = "0" -> "SP" [] lo = "E" -> "." [] lo = "F" -> "/"
                     [] OTHER -> "other"
    [] OTHER -> "hi"

Readable(hi, lo) == hi \in Hex \/ (hi = "+" /\ lo \in Hex)
Decoded(hi, lo) == IF lo \in Word THEN <<Byte(hi, lo), "other">>
                                   ELSE <<Byte(hi, lo)>>

(* The decoded text, or one with "error" in it.                            *)
UrlDecode(u) ==
  LET d[i \in 1..(Len(u) + 3)] ==
        IF i > Len(u) THEN <<>>
        ELSE CASE u[i] = "%" ->
                    IF i + 2 <= Len(u) /\ Readable(u[i+1], u[i+2])
                    THEN Decoded(u[i+1], u[i+2]) \o d[i + 3] ELSE <<"error">>
               [] u[i] = "+" -> <<"SP">> \o d[i + 1]
               [] OTHER -> <<u[i]>> \o d[i + 1]
  IN d[1]
=============================================================================
