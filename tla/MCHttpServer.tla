---------------------------- MODULE MCHttpServer ----------------------------
(* Instances of HttpServer for TLC.                                        *)
EXTENDS HttpServer, TLC

CONSTANTS c1, c2, c3

Version == <<"SP", "H", "T", "T", "P", "/", "1", ".", "2", "CR", "LF">>
End == <<"CR", "LF">>
HeaderLine(name, value) == <<name, ":", "SP">> \o value \o End
Get(uri) == <<"GET", "SP">> \o uri \o Version
Judge(headers, code) ==
  <<"POST", "SP", "/", "judge">> \o Version \o headers \o End \o code

(* One request for each route and each form a header may take.             *)
Requests == {
  Get(<<"/", "problem", "/", "1", "2">>) \o End,
  Get(<<"/", "result", "/", "1", "/", "json">>) \o End,
  Get(<<"/", "result", "/", "2">>) \o HeaderLine("pid", <<"1">>) \o End,
  Get(<<"/", "index", "%", "2", "E", "png">>) \o End,
  Get(<<"/", ".", "%", "2", "E", "/", "index", ".", "html">>) \o End,
  Get(<<"%", "2", "F", "+", "index">>) \o HeaderLine("other", <<"other", "CR", "LF", "SP">>) \o End,
  Judge(HeaderLine("lang", <<"cpp">>) \o HeaderLine("pid", <<"1">>) \o HeaderLine("Content-Length", <<"2">>), <<"1", "LF", "2">>),
  Judge(HeaderLine("Content-Length", <<"2", "CR", "LF", "tab", "other">>) \o HeaderLine("lang", <<"2">>)
          \o HeaderLine("lang", <<"cpp">>), <<"other", "hi">>)}

(* What a slip of a client makes of a request: one symbol replaced, added  *)
(* or left out, anywhere in a POST, in the first line of a GET.            *)
Slips(t) == IF t[1] = "POST" THEN {"SP", "CR", ":"} ELSE {"SP", ".", "%"}
Where(t) == IF t[1] = "POST" THEN 1..Len(t)
            ELSE 1..SelectInSeq(t, LAMBDA c : c = "H")
Replaced(t) == {[t EXCEPT ![i] = c] : i \in Where(t), c \in Slips(t)}
Inserted(t) == {SubSeq(t, 1, i) \o <<c>> \o SubSeq(t, i + 1, Len(t)) :
                  i \in Where(t), c \in IF t[1] = "POST" THEN {"1"} ELSE {"."}}
Deleted(t)  == {SubSeq(t, 1, i - 1) \o SubSeq(t, i + 1, Len(t)) : i \in Where(t)}
Texts == UNION {{t} \cup Replaced(t) \cup Inserted(t) \cup Deleted(t) : t \in Requests}

(* One client with any of those texts, or three clients, one whose text is *)
(* bad at once and two whose texts are no request yet.                     *)
Bad == <<"GET", "/">>
Begun == <<"GET", "SP", "/">>
MCWishes == {c1 :> t @@ c2 :> <<>> @@ c3 :> <<>> : t \in Texts}
              \cup {c1 :> Bad @@ c2 :> Begun @@ c3 :> Begun}
MCEmpty == {c1 :> Judge(HeaderLine("lang", <<"cpp">>) \o HeaderLine("Content-Length", <<"0">>), <<>>)}
MCClients == {c1, c2, c3}
MCContents == {<<>>, <<91>>, <<255, 166>>, <<255, 1, 130>>, <<200, 3, 255, 17, 94>>}
=============================================================================
