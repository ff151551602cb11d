----------------------------- MODULE HttpServer -----------------------------
(***************************************************************************)
(* The HTTP side of the server: HttpServer (src/src/server.cpp), which     *)
(* accepts and commits connections to the thread pool (TaskPool), the      *)
(* connection (connection.hpp), the parser (RequestParser), handle_request *)
(* (http/request.cpp), the router (miniRouter.hpp), the handlers of        *)
(* main.cpp and the reply (http/reply.hpp, reply.cpp).                     *)
(*                                                                         *)
(* A client connects once and sends its text, of which recv returns the    *)
(* next piece; it may fall silent or close at any moment, and what it had  *)
(* sent before closing may still be received.  The files, the judge and    *)
(* the client's socket are the environment: a handler's input from them is *)
(* a choice.  A reply is written in one step: it fits the socket's buffer. *)
(* A definition marked "mutant" is a plausible mistake in the one that     *)
(* follows it, used to show that the properties notice it.                 *)
(***************************************************************************)
EXTENDS RequestGrammar, Base64, FiniteSets

CONSTANTS Threads,   \* the threads of th_pool
          Clients,
          Wishes,    \* the texts the clients may want to send: functions
                     \* from Clients to texts; <<>> is not to connect
          Pieces,    \* how many symbols a recv may return
          Contents,  \* what a content.md may hold, as bytes
          NoClient

ASSUME HttpServerAssumption ==
  /\ IsFiniteSet(Threads) /\ IsFiniteSet(Clients) /\ NoClient \notin Clients
  /\ Wishes \subseteq [Clients -> Seq(Symbol)]
  /\ Pieces \subseteq Nat \ {0}
  /\ Contents \subseteq Seq(0..255)

VARIABLES
  server,   \* "starting", "up", or "dead" once the process has ended
  waiting, running,  \* th_pool: see TaskPool
  wish,     \* the text of each client
  talk,     \* "off", "sending", "silent" or "closed"
  cpc,      \* where each connection is
  pos,      \* how much of its text has been received
  request,  \* request_ and the state of request_parser_
  reply,    \* reply_
  got,      \* what the client has been sent
  judged    \* history: what Judger.enque was given for it

serverVars == <<server, waiting, running>>
connVars   == <<cpc, pos, request, reply, got, judged>>
vars       == <<serverVars, wish, talk, connVars>>

Pool == INSTANCE TaskPool WITH
          Tasks <- Clients, NoTask <- NoClient, open <- TRUE, late <- {}

Unset == [status |-> 0, type |-> "none", length |-> 0, body |-> <<>>]
NotJudged == [lang |-> <<>>, pid |-> <<>>, code |-> <<>>]

(* What the process holds when it has not accepted anything.              *)
Nothing ==
  [waiting |-> <<>>, running |-> [w \in Threads |-> NoClient],
   cpc     |-> [c \in Clients |-> "none"],
   pos     |-> [c \in Clients |-> 0],
   request |-> [c \in Clients |-> NewRequest],
   reply   |-> [c \in Clients |-> Unset],
   judged  |-> [c \in Clients |-> NotJudged]]

Init ==
  /\ server = "starting"
  /\ wish \in Wishes
  /\ talk = [c \in Clients |-> "off"]
  /\ waiting = Nothing.waiting /\ running = Nothing.running
  /\ cpc = Nothing.cpc /\ pos = Nothing.pos
  /\ request = Nothing.request /\ reply = Nothing.reply
  /\ got = [c \in Clients |-> Unset]
  /\ judged = Nothing.judged

ConnAt(c, from, to) == cpc[c] = from /\ cpc' = [cpc EXCEPT ![c] = to]

(* An exception nobody catches, a signal, or undefined behaviour: what the *)
(* process held goes with it.                                              *)
Die ==
  /\ server' = "dead"
  /\ waiting' = Nothing.waiting /\ running' = Nothing.running
  /\ cpc' = Nothing.cpc /\ pos' = Nothing.pos
  /\ request' = Nothing.request /\ reply' = Nothing.reply
  /\ judged' = Nothing.judged
  /\ UNCHANGED <<wish, talk, got>>

-----------------------------------------------------------------------------
(* HttpServer::go: startup, then accept and commit.                        *)

Startup ==
  /\ server = "starting"
  /\ server' \in {"up", "dead"}
  /\ UNCHANGED <<waiting, running, wish, talk, connVars>>

AcceptOnly(c) ==  \* mutant: the connection is not committed
  /\ talk[c] # "off"
  /\ ConnAt(c, "none", "queued")
  /\ UNCHANGED <<server, waiting, running, wish, talk, pos, request, reply, got,
                 judged>>

Accept(c) ==
  /\ talk[c] # "off"
  /\ ConnAt(c, "none", "queued")
  /\ Pool!Commit(c)
  /\ UNCHANGED <<server, wish, talk, pos, request, reply, got, judged>>

AcceptFails == Die

-----------------------------------------------------------------------------
(* The clients.                                                            *)

Turns(c, from, to) ==
  /\ talk[c] \in from
  /\ talk' = [talk EXCEPT ![c] = to]
  /\ UNCHANGED <<serverVars, wish, connVars>>

Connect(c)    == wish[c] # <<>> /\ Turns(c, {"off"}, "sending")
FallSilent(c) == got[c] = Unset /\ Turns(c, {"sending"}, "silent")
Close(c)      == got[c] = Unset /\ Turns(c, {"sending", "silent"}, "closed")

-----------------------------------------------------------------------------
(* The replies.                                                            *)

NUL == -2
Something == <<1>>  \* a text of which nothing matters but its length
Html == "text/html"
Json == "application/json"

Stock(status) ==
  [status |-> status, type |-> Html, length |-> 1, body |-> Something]
SetContent(body, type) ==
  [status |-> 200, type |-> type, length |-> Len(body), body |-> body]

(* What goes over the wire: a reply that was left unset becomes a 500, and *)
(* of a text that holds a NUL only what precedes it is sent.               *)
Sent(rep) ==
  LET nul == SelectInSeq(rep.body, LAMBDA b : b = NUL)
  IN [rep EXCEPT !.status = IF @ = 0 THEN 500 ELSE @,
                 !.body = IF nul = 0 THEN @ ELSE SubSeq(@, 1, nul - 1)]

(* The file default_router serves for a path: ".html" is added to a name   *)
(* without extension, and a name that begins with its only dot has none.   *)
Extension(path) ==
  LET dot == SelectLastInSeq(path, LAMBDA c : c = ".")
  IN IF dot > 1 /\ path[dot - 1] # "/" /\ Find(path, dot, "/") = 0
     THEN SubSeq(path, dot, Len(path)) ELSE <<>>
Served(path) == IF Extension(path) = <<>> THEN path \o <<".", "html">> ELSE path
Type(path) == CASE Extension(path) = <<".", "html">> -> Html
                [] Extension(path) = <<".", "png">>  -> "image/png"
                [] OTHER -> "text/plain"

-----------------------------------------------------------------------------
(* handle_request: the path to route, or <<>> for a 400.                   *)
HasDotDot(p) == \E i \in 1..Len(p) - 1 : p[i] = "." /\ p[i + 1] = "."

CheckBeforeDecoding(uri) ==  \* mutant: ".." is looked for in the raw uri
  LET p == UrlDecode(uri)
  IN IF p = <<>> \/ p[Len(p)] = "error" \/ p[1] # "/" \/ HasDotDot(uri)
     THEN <<>> ELSE p
HandleRequest(uri) ==
  LET p == UrlDecode(uri)
  IN IF p = <<>> \/ p[Len(p)] = "error" \/ p[1] # "/" \/ HasDotDot(p)
     THEN <<>> ELSE p

(* The routes, in the order main registers them; regex_match matches the   *)
(* whole path.                                                             *)
Digits(s) == NonEmpty(s, Digit)
Starts(path, name) == IsPrefix(<<"/", name, "/">>, path)
Matches(route, method, path) ==
  LET n == Len(path)
  IN CASE route = "problem" ->
            method = <<"GET">> /\ Starts(path, "problem")
              /\ Digits(SubSeq(path, 4, n))
       [] route = "result_json" ->
            method = <<"GET">> /\ Starts(path, "result")
              /\ Digits(SubSeq(path, 4, n - 2))
              /\ SubSeq(path, n - 1, n) = <<"/", "json">>
       [] route = "result" ->
            method = <<"GET">> /\ Starts(path, "result")
              /\ Digits(SubSeq(path, 4, n))
       [] route = "judge" -> method = <<"POST">> /\ path = <<"/", "judge">>
       [] route = "default" -> TRUE
Routes == <<"problem", "result_json", "result", "judge", "default">>
Route(method, path) ==
  Routes[SelectInSeq(Routes, LAMBDA r : Matches(r, method, path))]

(* The handlers: the replies each may give, whatever the files hold.       *)
Binary == <<1, NUL, 1>>
Files == {Something, Binary}
Replies(route, path) ==
  CASE route = "problem" ->
         {Stock(404)} \cup {SetContent(Encode(s), Html) : s \in Contents}
    [] route = "result_json" -> {SetContent(Something, Json)}
    [] route = "result" -> {SetContent(f, Html) : f \in Files}
    [] route = "default" ->
         {Stock(404)} \cup {SetContent(f, Type(Served(path))) : f \in Files}

(* POST /judge: the last header of either name counts.                     *)
FirstHeader(headers, name) ==  \* mutant: the first one does
  LET i == SelectInSeq(headers, LAMBDA h : h.name = <<name>>)
  IN IF i = 0 THEN <<>> ELSE headers[i].value
Header(headers, name) ==
  LET i == SelectLastInSeq(headers, LAMBDA h : h.name = <<name>>)
  IN IF i = 0 THEN <<>> ELSE headers[i].value
Supported(lang) == lang = <<"cpp">>

(* Judger.enque gives an id, or throws: the reply stays unset.             *)
JudgeReplies(lang) ==
  IF Supported(lang) THEN {SetContent(Something, Json), Unset}
  ELSE {SetContent(Something, Json)}

-----------------------------------------------------------------------------
(* connection::start, in the thread that has taken the connection.         *)

Start(w) ==
  /\ Pool!Take(w)
  /\ ConnAt(running'[w], "queued", "read")
  /\ UNCHANGED <<server, wish, talk, pos, request, reply, got, judged>>

After(state) == CASE state = "good" -> "route"
                  [] state = "bad"  -> "write"
                  [] OTHER          -> "read"

(* One turn of handle_read.  (\E over a set of one element makes TLC        *)
(* compute its element once.)                                              *)
Recv(c) ==
  /\ cpc[c] = "read"
  /\ talk[c] \in {"sending", "closed"} /\ pos[c] < Len(wish[c])
  /\ UNCHANGED <<serverVars, wish, talk, got, judged>>
  /\ \E n \in Pieces :
       /\ pos' = [pos EXCEPT ![c] = IF @ + n > Len(wish[c]) THEN Len(wish[c]) ELSE @ + n]
       /\ \E q \in {Parse(request[c], SubSeq(wish[c], pos[c] + 1, pos'[c]))} :
            /\ cpc' = [cpc EXCEPT ![c] = After(q.state)]
            /\ request' = [request EXCEPT ![c] = q]
            /\ reply' = [reply EXCEPT ![c] = IF q.state = "bad" THEN Stock(400) ELSE @]

RecvEndIgnored(c) ==  \* mutant: the loop goes on
  /\ talk[c] = "closed"
  /\ ConnAt(c, "read", "read")
  /\ UNCHANGED <<serverVars, wish, talk, pos, request, reply, got, judged>>

(* recv returns 0 or -1: the loop ends without a reply.                    *)
RecvEnds(c) ==
  /\ talk[c] = "closed"
  /\ ConnAt(c, "read", "end")
  /\ UNCHANGED <<serverVars, wish, talk, pos, request, reply, got, judged>>

(* handle_request sets a 400; what it leaves in the uri is not read, and is *)
(* <<>> here;                                                               *)
Refuse(c) ==
  /\ ConnAt(c, "route", "write")
  /\ HandleRequest(request[c].uri) = <<>>
  /\ reply' = [reply EXCEPT ![c] = Stock(400)]
  /\ request' = [request EXCEPT ![c].uri = <<>>]
  /\ UNCHANGED <<serverVars, wish, talk, pos, got, judged>>

(* or it leaves the decoded path in the uri, and the router finds a route. *)
Handle(c) ==
  /\ ConnAt(c, "route", "write")
  /\ \E path \in {HandleRequest(request[c].uri)} \ {<<>>} :
     \E route \in {Route(request[c].method, path)} \ {"judge"} :
       /\ request' = [request EXCEPT ![c].uri = path]
       /\ \E r \in Replies(route, path) : reply' = [reply EXCEPT ![c] = r]
  /\ UNCHANGED <<serverVars, wish, talk, pos, got, judged>>

HandleJudge(c) ==
  LET hs   == request[c].headers
      lang == Header(hs, "lang")
  IN /\ ConnAt(c, "route", "write")
     /\ \E path \in {HandleRequest(request[c].uri)} \ {<<>>} :
          /\ Route(request[c].method, path) = "judge"
          /\ request' = [request EXCEPT ![c].uri = path]
     /\ \E r \in JudgeReplies(lang) : reply' = [reply EXCEPT ![c] = r]
     /\ judged' = [judged EXCEPT ![c] =
                     IF ~Supported(lang) THEN @
                     ELSE [lang |-> lang, pid |-> Header(hs, "pid"),
                           code |-> request[c].content]]
     /\ UNCHANGED <<serverVars, wish, talk, pos, got>>

(* fs::exists throws, the result of an unknown id is read, judge throws    *)
(* in a place without a handler: nothing catches it.                       *)
HandleDies(c) ==
  /\ cpc[c] = "route"
  /\ \E path \in {HandleRequest(request[c].uri)} \ {<<>>} :
       Route(request[c].method, path) \in {"problem", "result_json", "default"}
  /\ Die

(* handle_write.  To a client that has gone the data are lost, or a later  *)
(* send raises SIGPIPE, which nobody ignores.                              *)
Write(c) ==
  /\ ConnAt(c, "write", "end")
  /\ got' = IF talk[c] = "closed" THEN got ELSE [got EXCEPT ![c] = Sent(reply[c])]
  /\ UNCHANGED <<serverVars, wish, talk, pos, request, reply, judged>>

WriteKilled(c) == cpc[c] = "write" /\ talk[c] = "closed" /\ Die

(* The task returns; the last pointer to the connection goes with it, and  *)
(* its destructor closes the socket.                                       *)
Finish(w) ==
  /\ Pool!Finish(w)
  /\ ConnAt(running[w], "end", "closed")
  /\ UNCHANGED <<server, wish, talk, pos, request, reply, got, judged>>

-----------------------------------------------------------------------------
Serve(c) ==
  Recv(c) \/ RecvEnds(c) \/ Refuse(c) \/ Handle(c) \/ HandleJudge(c) \/ Write(c)

Next ==
  \/ Startup
  \/ /\ server = "up"
     /\ \/ AcceptFails
        \/ \E c \in Clients : \/ Connect(c) \/ FallSilent(c) \/ Close(c)
                              \/ Accept(c) \/ Serve(c)
                              \/ HandleDies(c) \/ WriteKilled(c)
        \/ \E w \in Threads : Start(w) \/ Finish(w)

Spec == Init /\ [][Next]_vars

(* accept returns every client of the backlog in the end, the pool starts  *)
(* what it may start (ThreadPool's EveryTaskStarts), and a thread that can *)
(* go on with its connection does.  Nothing is assumed of the clients.     *)
Working(w) ==
  \/ running[w] # NoClient /\ Serve(running[w])
  \/ Finish(w)

FairSpec ==
  /\ Spec
  /\ WF_vars(server = "up" /\ \E c \in Clients : Accept(c))
  /\ WF_vars(server = "up" /\ \E w \in Threads : Start(w))
  /\ \A w \in Threads : WF_vars(server = "up" /\ Working(w))

-----------------------------------------------------------------------------
Received(c) == SubSeq(wish[c], 1, pos[c])

ConnPC == {"none", "queued", "read", "route", "write", "end", "closed"}

(* Type correctness, and the pool runs exactly the connections that have   *)
(* been accepted and have not ended.                                       *)
TypeOK ==
  /\ server \in {"starting", "up", "dead"}
  /\ cpc \in [Clients -> ConnPC]
  /\ talk \in [Clients -> {"off", "sending", "silent", "closed"}]
  /\ \A c \in Clients :
       /\ pos[c] \in 0..Len(wish[c])
       /\ reply[c].status \in {0, 200, 400, 404}
       /\ (\E i \in 1..Len(waiting) : waiting[i] = c) <=> cpc[c] = "queued"
       /\ (\E w \in Threads : running[w] = c)
            <=> cpc[c] \in {"read", "route", "write", "end"}

(* The parser finishes a request exactly when what has been received       *)
(* begins with one, however recv cuts the text into pieces, and then with  *)
(* the grammar's method, headers and content (request.cpp, lines 109-383). *)
(* It says nothing of when a request that declares an empty content is     *)
(* finished: GoodWhenComplete shows what the code makes of those.          *)
ParsesExactly ==
  \A c \in Clients :
    LET t == Received(c)
        q == request[c]
    IN /\ ~DeclaresNothing(t) => (Complete(t) <=> q.state = "good")
       /\ q.state = "good" => /\ q.method = Method(t)
                              /\ q.headers = Headers(t)
                              /\ q.content = Body(t)

(* "good when a complete request has been parsed" (request.hpp, lines      *)
(* 69-71), for every request, one that declares no content included.       *)
GoodWhenComplete ==
  \A c \in Clients : Complete(Received(c)) => request[c].state = "good"

(* The router never sees a path that is not absolute or that holds "..",   *)
(* encoded or not, and sees what a well-formed uri means (lines 10-27).    *)
RoutesPlainPath ==
  \A c \in Clients :
    LET t == Received(c)
        p == request[c].uri
    IN request[c].state = "good" /\ cpc[c] \in {"write", "end", "closed"} =>
         /\ p # <<>> => p[1] = "/" /\ ~HasDotDot(p)
         /\ WellFormed(Target(t)) =>
              p = IF Plain(Target(t)) = <<>> \/ Plain(Target(t))[1] # "/"
                     \/ HasDotDot(Plain(Target(t)))
                  THEN <<>> ELSE Plain(Target(t))

(* What a client is sent is what its text calls for: a 400 if and only if  *)
(* it is no request or has no usable path, a length that is that of the    *)
(* content sent, unless the content holds a NUL, and the file of a problem *)
(* in base 64 (connection.hpp, lines 52-100, to main.cpp, lines 26-107).   *)
AnswerFits ==
  \A c \in Clients : server = "up" /\ got[c] # Unset =>
    LET g == got[c]
        q == request[c]
        route == Route(q.method, q.uri)
    IN /\ g.status = 400 <=> q.state = "bad" \/ q.uri = <<>>
       /\ g.status = 500 => route = "judge" /\ g.type = "none"
       /\ g.status = 404 => route \in {"problem", "default"}
       /\ reply[c].body # Binary => g.length = Len(g.body)
       /\ g.status = 200 /\ route = "problem" =>
            \E s \in Contents : g.body = Reference(s) /\ Decode(g.body) = s

(* The judge is given every POST /judge in a language it knows, no other,  *)
(* and of it the content that was declared, whole, with the language and   *)
(* the problem the head names, whichever pieces they came in (main.cpp,    *)
(* lines 70-107).                                                          *)
JudgedAsSent ==
  \A c \in Clients : cpc[c] \in {"write", "end", "closed"} =>
    LET t == Received(c)
        toJudge == /\ request[c].state = "good"
                   /\ Route(request[c].method, request[c].uri) = "judge"
                   /\ Value(t, "lang") = <<"cpp">>
    IN judged[c] = IF ~toJudge THEN NotJudged
                   ELSE [lang |-> <<"cpp">>, pid |-> Value(t, "pid"),
                         code |-> Body(t)]

(* recv has no timeout: a connection whose client is silent, or has sent   *)
(* all it wants short of a request, keeps its thread for good.             *)
Hung(c) ==
  /\ cpc[c] = "read"
  /\ \/ talk[c] = "silent"
     \/ talk[c] = "sending" /\ pos[c] = Len(wish[c])
Starved == \A w \in Threads : running[w] # NoClient /\ Hung(running[w])

(* As long as silent clients do not keep every thread for good, there is a *)
(* time from which every client that goes on sending has its answer, or    *)
(* has its thread wait for the rest of its request (connection.hpp, line   *)
(* 91).                                                                    *)
EveryClientServed ==
  <>[](server = "up" /\ ~Starved) =>
    <>[](\A c \in Clients : talk[c] = "sending" => got[c] # Unset \/ Hung(c))
=============================================================================
