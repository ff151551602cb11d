# Specifications of miniOJ

miniOJ is a small online judge: one C++ process that serves HTTP, takes source
code, has it compiled and run by a sandbox program (`judger_core`), compares the
output with the expected one and lets the client poll the verdict. There is no
database: all state is in memory, except the files of each submission, which an
earlier process, or what is still running of it, may have left behind. What can go wrong is concurrency, limits,
error paths and the two languages it reads: HTTP and the files it compares. This directory holds
TLA+ models of the program, TLC configurations for them and proofs that TLAPS
checks. Paths below are relative to the repository.

## 1. The system

| component | code | state | operations |
|---|---|---|---|
| judge queue | `src/judge/exec_judge.hpp` 20-62 | array `q`, atomics `head`, `tail`, `readableCnt`, `writeableCnt` | `enque`, `deque` |
| result store | same, 65-132 | array of `msg`, atomic `head` | `enque`, `get_msg`; stores through the reference |
| JudgeWorker | same, 135-281 | both queues, `_lock`, `_task_cv`, judge threads | `enque`, `doWork`, `judge`, `judge_result_to_json` |
| HTTP handlers | `src/main.cpp` | none | `POST /judge`, `GET /result/<id>/json`, `GET /result/<id>`, `GET /problem/<pid>` |
| Judger::run | `src/judge/judge.cpp`, `judge.hpp` | files of one submission | compile, run every test, compare |
| checker | `src/judge/check.hpp` | two file readers | `noipstyle_check` |
| problem loader | `src/judge/judge.hpp` | none | pairs the input and output files |
| thread pool | `src/mythreadpool.hpp` | task queue, `_lock`, `_task_cv`, `_run` | `commit`, worker loop, destructor |
| server, connection | `src/server.cpp`, `src/connection.hpp` | socket, buffer, parser, request, reply | accept, read, handle, write |
| request parser | `src/http/request.cpp` | parser state, request so far | `consume`, `url_decode` |
| router | `src/miniRouter.hpp` | table of routes | first match, default route |
| replies | `src/http/reply.cpp`, `mime_types.hpp` | headers, content | status lines, content types |
| utilities | `src/utils.cpp` | none | `saveFile`, `readFile`, `exec`, Base64, logging |
| web client | `www/assests/app.js` | the page | submit, ask for the result |
| judger_core | outside the repository | | runs a program under limits |

### How they interact

The accept loop commits one task per connection to the thread pool. A pool thread
reads, parses, routes and answers one request and closes the connection. For
`POST /judge` it calls `JudgeWorker::enque`, which (1) takes an id, that is a slot
of the result store, (2) saves the code in a file, (3) puts the id on the ring,
(4) calls `notify_one`. Two judge threads wait on the condition variable; the wait
predicate is `jq.deque(&id)`, evaluated under `_lock`. The one that gets an id runs
`Judger::run` and stores text, results and status in the slot, in this order,
without a lock. `GET /result/<id>/json` reads the same slot from a pool thread,
also without a lock. The HTTP threads never take `_lock`.

### What is hard

* Two lock-free structures. Several HTTP threads call `enque` on both at the same
  time; their counters are decremented or incremented first and corrected
  afterwards, so that other threads see values that are too small or too large.
* The ring's array is written and read without synchronisation other than the
  counters, and no counter says which place was written.
* `notify_one` outside the lock, with a predicate that has side effects.
* A verdict written field by field while it is read field by field.
* Error paths that leave something behind: an ignored return value, a file whose
  writing is not checked, an exception after an id was issued, a function that falls
  off its end, an unsigned bound that wraps around.
* The thread pool's notifications outside the lock, and its shutdown without one.
* Requests that arrive in pieces of any size, clients that stay silent or go away,
  paths that mean something else once decoded.
* Tests paired by their place in two lists, line endings, and files of an earlier
  submission with the same id, which children of `popen` may go on writing after the
  process that started them is gone.

The `hazards` of PROJECT.json list each of these at its line.

### What makes each component correct

* Judge queue: no permit is lost or invented; never more ids than places; what is
  handed out was put in, once, in order; empty and full are only reported when true.
* Result store: no id issued twice; an issued id stays readable; a slot is filled
  once; refusal only when the array is full; no access outside the array.
* JudgeWorker: every accepted submission is judged, by one thread, once; a client
  never sees half a verdict and never two different final ones; no exception and no
  null pointer in a judge thread, which would end the process.
* Judger::run: a verdict for every test, `COMPILE_ERROR` only for a program that
  does not compile, the program of the submission and no other, the limit in the unit the
  code gives it. The last two fail (section 3).
* Checker: `true` means the same, up to trailing blanks and line ends. It means less
  (section 3).
* Thread pool: every committed task runs once; the destructor returns.
* Connection and parser: the same request whatever the pieces; `good` for every complete
  request (it is not, section 3); one reply per request; the server does not die of a client.

## 2. The modules

| module | models |
|---|---|
| `JudgeQueue` | `judge_queue`, one step per access to an atomic or to the array |
| `JobFifo` | what the ring promises: a first-in first-out queue of ids |
| `JudgeQueueProofs` | theorems about `JudgeQueue` |
| `MsgQueue` | `judge_msg_queue`, likewise step by step |
| `MsgQueueProofs` | theorems about `MsgQueue` |
| `JudgeWorker` | `JudgeWorker`, the two handlers of `main.cpp` that use it, over instances of `JudgeQueue` and `MsgQueue` |
| `JudgeService` | what `JudgeWorker` promises the clients, without ring, store and lock |
| `JudgeWorkerProofs` | theorems about `JudgeWorker`, over the proof modules of its two components |
| `JudgeServiceProofs` | theorems about what `JudgeWorker` promises its clients, `ServiceUntilUndefined` among them |
| `ThreadPool` | `threadpool`: its owner and its threads, one step per critical section, notification and read of `_run` |
| `TaskPool` | what the pool promises, without lock and condition variable |
| `ThreadPoolProofs` | theorems about `ThreadPool` |
| `HttpServer` | server, connections, `handle_request`, router, handlers, replies, over an instance of `TaskPool` |
| `RequestParser` | `consume`, `parse` and `url_decode` as operators |
| `RequestGrammar` | what a request is, by positions and not by states: the vocabulary of `HttpServer`'s properties |
| `HttpServerProofs` | theorems about `HttpServer` and the parser |
| `Base64` | `Encode` and `Decode`, and RFC 4648 by bits |
| `Base64Proofs` | theorems about them: recursion and the two ends of an encoded text |
| `JudgeRun` | `saveFile`, `Judger::run`, `Problem`, the directory of a submission and the children of `exec` that outlive the process |
| `JudgeRunProofs` | theorems about `JudgeRun` |
| `Checker` | `Reader` and `noipstyle_check`, and two comparisons by lines: the documented one and the one it makes |
| `MC...` | instances for TLC: ids, outcomes, requests, files, symmetry |

### JudgeQueue

`q`, `head`, `tail`, `readableCnt` and `writeableCnt` are the members of the class;
`qpc`, `qid` and `qpos` are each thread's program counter, its parameter (or, in
`deque`, its result) and its local `pos`. `offered`, `given`, `taken` and `overtaken` are history: the ids
passed to `enque`, those that drew a ticket, in ticket order, and the values read;
`overtaken` is set when `EnqPublish` publishes an id while the place of one with an earlier
ticket is not written (`Overtakes`).
The steps of `enque` are `EnqReserve` (`writeableCnt.fetch_sub`), `EnqUndo`,
`EnqWrap` (the compare-exchange that resets `tail`), `EnqTicket`
(`tail.fetch_add % size`), `EnqWrite` (the plain store) and `EnqPublish`
(`readableCnt.fetch_add`); those of `deque` mirror them. Atomics are sequentially
consistent, as they are in the code by default. The plain array accesses are
single steps: until an id overtakes another the counters order them, and that is what the
hardware does; after that (`jq_race`) a data race can only add behaviours to those shown. The environment keeps two promises that
`JudgeWorker` is shown to keep (`UsesJudgeQueue`): each id is offered once, and
`deque` is never called twice at the same time.

### MsgQueue

`head` and, per slot, what was stored in it: `msgRequest` for the three strings
the client sends, `msgStatus`, and `msgPath` for `code_path`. A string is
identified by the submission it comes from, which is all a property needs: a slot
whose request and path belong to different submissions is mixed. `Claim` is
`head.fetch_add`, `Undo` the `fetch_sub` of the failing path, `FillRequest`,
`FillStatus` and `FillPath` the assignments; the three string assignments of lines
110-112 are one step, since nothing reads a slot before its path is there.
`GetMsg` is the test of `get_msg`. `get_code_path_by_id` and `deque` have no
body and `get_now_head` has no caller.

### JudgeWorker

A thread of the pool goes through `POST /judge` (`PostJudge`, `IssueStep`,
`Issued` or `IssueFull`, `SaveFile` or `SaveFileThrows`, `Enque`, `QueueStep`,
`Queued`, `Notify`) or through `GET /result/<id>/json` (`Poll`, `PrintStatus`,
`PrintText`, `PrintShort` or `CheckEnd` and `PrintResults`). A judge thread goes
through `doWork` (`Lock`, `DequeStep`, `Dequed` or `Sleep`) and `judge` (`Run`,
`StoreText`, `StoreResults`, `StoreStatus`, `PrintVerdict`).

* `_lock` is held exactly while a judge thread evaluates the predicate; the model
  has no variable for it (`Unlocked`). `cv.wait` unlocks and blocks in one step;
  spurious wakeups are a separate action without fairness.
* `notify_one` wakes one blocked thread, any of them, and does nothing if none is
  blocked.
* Storing a string or a vector takes two steps, and in between the value is
  `"torn"`: a thread that reads it may see anything. Printing a torn vector may
  read a missing element, so the process may die (`PrintTorn`).
* `saveFile` throws (`SaveFileThrows`) or returns `true`, whether or not the file could
  be opened and written (`SaveFile`, with `SaveEnds`); `msgFile` records which. The job
  goes on in both cases, and one whose file was not written may be a compile error.
* The text, the results and the status of a slot are plain fields. The model lets other
  threads see their stores in program order, which the language does not promise: see
  section 6.
* What `Judger::run` does is a set of outcomes (`Outcomes`): it judges tests, has
  none, reports a compile error, throws, or returns nothing because it falls off
  its end, in which case the verdict is any value of the type. The constant lets a
  run choose which of them the environment produces. `fellOff` records the last one.
* An exception that leaves a thread and a null pointer that is read end the process
  (`alive`). After that nothing happens.
* A pool thread may get an id that `get_msg` refuses; `judge_result_to_json` then
  falls off its end (`PollUndefined`), as it does, after a wild read, for an id past
  the array.

Left out: `_run`, which is never cleared; `_idlThrNum`, which is never read; log
lines, except the one loop that can crash; the text of the JSON replies, of which
only the fields and their order matter.

`JudgeService` has no ids, slots or status fields: `queued` is the order in which submissions
draw their ticket on the ring, `begun` how many of them a judge thread has read, `judging` what
each works on until the status is stored, `verdict` what a slot holds under a final status, and
`shown` what a poll has read under one. That this is a refinement says at once that each
submission is judged once and in its turn, that a refused one never is, that a verdict is never
torn and never changes, and that a poll shows the verdict of the submission it asked for.

### ThreadPool and TaskPool

`run` and `tasks` are `_run` and `_tasks`; `opc` is where the owner is in `commit`
(`Commit`, `Push`, `NotifyOne`) or in the destructor (`Stop`, `NotifyAll`,
`Joined`), `wpc` where each thread is in its loop (`Loop`, `Check`, `Sleep`,
`Front`, `Pop`, `Return`), `wtask` its local task. `committed`, `started`, `late` and
`missed` are history. As in `JudgeWorker`, the mutex has no variable: it is held
from the predicate to the sleep or to the pop. The owner is one thread, as in
`HttpServer`, whose accept loop is the only caller of `commit`; tasks do not commit
tasks. In this server the destructor is never reached (`go` does not return), so
what is shown of the shutdown is a property of the class.

`TaskPool` has four actions: a task is committed, is started by a thread that runs
none, returns; the pool is closed. Two of its guards are the promises: tasks start in
order, and from the closing on a thread starts at most one more.

### HttpServer, RequestParser, RequestGrammar

A client wants to send a text (`wish`); `talk` is what it does, `pos` how much of
the text the server has received. `cpc` is where a connection is, from `queued` in the
pool through `read` (`Recv`, `RecvEnds`), `route` (`Refuse`, `Handle`, `HandleJudge`) and
`write` (`Write`) to `closed` (`Finish`). `request` holds `request_` and the
state of the parser, `reply` is `reply_`, `got` what was sent, `judged` what the judge was given.
The pool is an instance of `TaskPool`, which `ThreadPool` is shown to implement.

* A text is a sequence of symbols: a character, a word whose letters the parser
  treats alike, or a class ("ctl", "hi", "?", "other"). That keeps requests at 20 to 41 symbols.
* `RequestParser` gives `consume` as a table: state, characters let through, next state,
  what becomes of the character. `Parse` runs it over a piece.
* `HandleRequest` gives the decoded path or nothing; `Route` takes the first route
  that matches, in the order `main` registers them.
* Files, the judge's answers and the sockets are the environment: a handler's
  input from them is a choice. A page may hold a NUL (`Binary`), of which only the part
  before it is sent. `article.html` is taken to exist and to hold its placeholder.
* The process may end at any moment in which the code lets an exception or a signal
  through (`AcceptFails`, `HandleDies`, `WriteKilled`); `Die` then resets what it held.
* A reply is written in one step: it fits the buffer of the socket.

### JudgeRun and Checker

A directory is used by one submission after another (`sub`), since ids begin
at 0 again after a restart: `source`, `exe` and `outs` say of which submission the source, the
executable and the output files are. `Save` is `saveFile`, which may leave the source as it was,
or cut short, and says nothing. `Compile`, `CompileThrows`, `Load`, `FallsOff`, `Test` and `Finish`
are the ways through `Judger::run`: g++ makes of the source in the directory, whosever it is,
the executable, and a Python program is its source. `Restart` may come at any moment and leaves the
files and the child that `exec` had started (`Child`): a g++ that later writes the executable
(`StrayLinks`), from the source it had read or from the one that is there by then, or a program that later
writes its output file (`StrayOuts`, a choice of `Test`); it may also end without harm (`StrayEnds`).
`judger_core` ends in one of five ways (`Ends`), each with the answers it may
print (`Core`); if it prints nothing the fields hold anything.
A file of the data directory has a stem, a number, an extension and a text. A test is recorded with
the program, the files and the output it was judged by (`trace`); `saved`, `built` and `strayed` are
history too: what became of the source, how the compiler ended, and whether a stray child has
written since then what the run uses.
`Checker` reads files of blanks, ends of line, 0xFF and any other characters (`Visible`, two
letters in the run) position by position as `Reader` does. `LinesOf` says what is meant by lines, from
where each line starts, `SameText` that two files have the same ones, which is what the comment of
`noipstyle_check` promises, and `AnswerLeads` that the output begins with those of the answer.

## 3. The runs

TLC deadlock checking is off where all submissions or ids have been used and the
program has nothing left to do, or where the process may have died. `mq` and
`mq_bounds` check it: a full store goes on answering.

| run | instance | shows |
|---|---|---|
| `jq_many` | 2 producers, 2 consumers, 2 places, 4 ids | `TypeOK`, `SemaphoresExact`, `CapacityRespected`, `FalseMeansDrained`, `FalseMeansFull`: the counters are right even where the array is not; and `FifoUntilOvertaken`: until one producer overtakes another the ring is `JobFifo` |
| `jq_race` | 2 producers, 1 consumer, 3 places | once one has been overtaken it is not: `EachJobHandedOutOnce` is violated |
| `mq` | 3 threads, 2 submissions, 2 slots | `TypeOK`, `OneSubmissionPerSlot`, `IssuedStayReadable`, `RejectOnlyWhenFull` |
| `mq_bounds` | 2 threads, 2 slots | `GetMsgInBounds` is violated in a full store |
| `jw_many` | 2 HTTP threads that submit and poll, 2 judge threads, 3 submissions, 2 slots, files written or silently not | whatever happens: `TypeOK`, `HandedIdReadable`, `AnsweredIsQueued`, `UsesJudgeQueue`; until an id is overtaken: `ExclusiveJudging`, `ReplyConsistent`, `FinalVerdictStable`, and (while no run has fallen off its end) `ServiceUntilUndefined` |
| `jw_live` | 2 threads submit 2 jobs and one in a language that is not supported, 2 judge threads, 2 slots | `EverySubmissionJudged` under fairness |
| `jw_compile_error` | 1 submission that does not compile | `ServerSurvivesJudging` is violated |
| `pool` | 3 threads, 3 tasks, a destructor at any moment | `TypeOK`, `StartedInOrder`, `NoLostWakeup`, `ImplementsTaskPool`, `EveryTaskStarts`, `DestructorReturns` |
| `http` | 2 threads; one client with one of 646 texts, or three clients at a time | `TypeOK`, `ParsesExactly`, `RoutesPlainPath`, `AnswerFits`, `JudgedAsSent`, `EveryClientServed` |
| `http_empty` | one client, one POST with `Content-Length: 0` in any pieces | `GoodWhenComplete` is violated |
| `judging` | 2 submissions in one directory, 697 pairs of answer and output, six problems of several files in each language | `TypeOK`, `TestsPaired`, `VerdictFits`, `JudgesOwnProgram` |
| `judging_undeserved` | 1 submission, 3 tests | `AcceptedIsDeserved` is violated |

**Bounds.** Two places (or slots) are the least with a first, a last and a
wrap-around; four ids take the ring round twice. Three threads on two slots give
two that are refused and take back their claims at the same time while a third holds
a slot. Two judge threads are what `main.cpp` starts (`poolsize` 2), so that number
is exact. The two template sizes are equal, as in `main.cpp`, where both are
100000. Three submissions for two slots reach the full store; in `jw_live` there is a slot for
each supported one, since a refused submission owes nothing. `jw_many` has the outcome "tests"
only, besides the compile error of a file that was not written and the undefined verdict of a slot that is
not filled; the theorems of section 4 are about every set of outcomes. In `jw_live` files are
written: a compile error ends the process (`jw_compile_error`), which would fulfil the property. `LastId`, `Submissions` and
`PollIds` are the only bounds; the counters need none because each id is offered
once and each submission arrives once.

In `pool` three threads are the least that can be asleep, falling asleep and running at the
same time, and three tasks leave one for each. In `http` the eight requests of
`MCHttpServer` have every route and every form of header; each is sent as it is and with one
symbol replaced, added or left out, anywhere in a POST and in the first line of a GET, and
recv cuts it into pieces of 11 and 30 symbols in every order. The three clients
share two threads with texts that are bad or unfinished, which is where a thread is
given back or kept. `Contents` has texts of zero to five bytes, so each length of a last
group. In `judging` every answer of up to three characters, of a letter, a blank and an end of line, is
compared with every output of up to two, three longer ones and one with 0xFF, where line
ends, blanks and their combinations at the end of a file already all occur; the directories
are out of order in number, name and extension, and some lack a file. Two submissions are one that leaves
files and children behind and one that finds them. A memory of 10 is below any limit and 140000 above the
one in use, 128 times 1024 MB; `judging_undeserved` has 200, which is between the documented limit and that.

**Symmetry.** Threads of one kind and submissions are model values that nothing
compares; the ids are integers and are not permuted. The set is not used in the
liveness run.

**Fairness.** `FairSpec` has weak fairness of each handler that has begun and of
each judge thread that is not asleep. A judge thread that has no id either gets
`_lock`, held elsewhere for the six steps of one `deque`, or sleeps; `Judger::run`
waits for `judger_core`, which enforces a time limit. No fairness is assumed of
clients, of a poll, or of spurious wakeups: a thread that sleeps is only woken by a
`notify_one`. With weak fairness a thread could in principle lose the race for the
mutex for ever; in the model it cannot, since each holder goes to sleep or to judge
and the work is finite.

In `pool` fairness is strong, of the owner's steps once begun and of every thread: a
mutex that is free again and again is taken in the end by each thread that waits
for it, and every task returns. Nothing makes the owner commit or destroy. In
`http` there is weak fairness of each pool thread with a connection that can go on, of starting a
connection that waits when a thread is free (which is `EveryTaskStarts`), and of
`accept`. Nothing is assumed of clients, which may connect, fall silent or close, or do
none of it. A reply ends with the task, so nothing else can hold a thread than a
client that does not send. `judging` states no liveness.

**The pool's wakeups.** `NoLostWakeup` counts: while a thread sleeps or is about
to, there are no more tasks waiting than threads on their way to the queue, the one about to
be notified included. The destructor has no such property: it clears `_run` and
notifies without the lock, and a thread between its predicate and its sleep misses
both. `missed` records such threads, and `DestructorReturns` leaves them out.

**Silent clients.** recv has no timeout. `EveryClientServed` says what is left: as long as silent or
unfinished clients do not hold every thread for good, everyone who goes on sending is answered, or
holds a thread itself because its request is unfinished.

**The lost wakeup.** In `JudgeWorker`, `notify_one` without the lock can come after a judge thread has found
the ring empty and before it blocks. With two judge threads the job is not left
behind, because the other one is either blocked and woken, or has the predicate
still before it. With one judge thread (`poolsize` 1, not what `main.cpp` uses) the same
property fails: the job waits for the next submission.

**Overtaking.** The pool has as many threads as the machine has cores and any of them may submit
(`server.hpp` line 24). With two of them inside `judge_queue::enque`, one may publish its id
while the place of an earlier one is still unwritten. From that moment the ring may misplace ids
(`jq_race`), and what rests on it fails: a submission may be judged twice or never. No property
assumes that there is one submitter. Those that this race breaks are stated up to it: the history variable
`overtaken` records it, and `FifoUntilOvertaken`, `ExclusiveJudging`, `ReplyConsistent`,
`FinalVerdictStable`, `ServiceUntilUndefined` and `EverySubmissionJudged` promise nothing after it. So they say that it
is the only cause: a ring in which an id is published after those before it would satisfy them all. The other
properties of `jq_many`, `mq` and `jw_many` hold in spite of it.

**Whose program is judged.** `JudgesOwnProgram` names every cause for which a submission's tests
may run another submission's program or check its output: the source was not written and `saveFile` did not
say so; a child of an earlier process wrote into the directory after the compiler had ended; g++ was killed, which leaves
exit code 0, or `judger_core` printed nothing while it compiled. All of them can
happen (without any one of them the run fails), and no line of the repository promises that they do not. What the property
excludes is every other cause: the executable and output files left in a directory that nothing empties are harmless by
themselves.

### Disagreements between the code and what it says

1. `jq_race` (`exec_judge.hpp` line 36): the ring is documented to hold the code waiting
   to be judged, yet a producer that has published lets a consumer read the place of
   another one that has not written its own. A submission is judged twice, or not at all.
2. `mq_bounds` (line 124): `get_msg` is to throw for an id that was not issued. In a full
   store, while a refused submission has not taken back its increment, it returns a
   reference past the end.
3. `jw_compile_error` (line 260): judge threads are to go on taking jobs; a
   submission that does not compile has an empty result vector, and the bound
   `results.size()-1` of the logging loop wraps around.
4. `http_empty` (`request.cpp` line 116): `parse` is to be good when a complete request has been
   parsed (`request.hpp` lines 69-71). A request that declares an empty content is complete
   with its headers, but the size is compared after a character has been appended, so it never ends.
   `ParsesExactly` leaves such requests out of one of its two directions and says so (`DeclaresNothing`).
5. `judging_undeserved` (`check.hpp` line 74): `true` is to mean the same (lines 57-58). What a program prints
   after the last line of the answer is not looked at, and neither is what follows a byte 0xFF in
   either file (line 45).
6. `judging_undeserved` (`judge.cpp` line 276): the unit of the memory limit is to be MB (line 70). It is
   2^30 bytes, so a program may use 128 GB, and `judger_core` is given the same unit.

`AcceptedIsDeserved` joins the last two: it is false only in a state where an accepted output is not the same for
either reason and an accepted program was over the limit, so its one counterexample
shows all of them. `VerdictFits` is what is left and holds: nothing worse than deserved by the documented
meanings, nothing accepted that does not begin with the answer.

Met while modelling and not given a run of its own, since no line of the repository
promises otherwise: a compiler ended by a signal counts as successful, and with an
executable left by an earlier run that one is judged (`judge.cpp` line 222). The comment of `app.js` line
97 says that the page polls while the status is WAITING or JUDGING; it asks once.

Each property of a passing run has a mutant in PROJECT.json: a definition marked
"mutant" in a module, a plausible slip in that code, under which the run fails.

## 4. The proofs

The proof modules hold for every size, every finite number of threads and every
set of ids, submissions or tasks. The assumptions are `QueueAssumption` (a non-empty
array, finitely many threads, producers are not consumers, 0 is an id because it is what
the static array starts with) and `MsgQueueAssumption` (a non-empty array,
finitely many threads, an empty string is not a submission), `ThreadPoolAssumption`
(finitely many threads, no task at all is not a task), `JudgeRunAssumption` (numbers of
files and memories are integers, texts are sequences of characters, there is a submission, a language is one of the two),
`CheckerAssumption` (the end of a file is no character), `JudgeWorkerAssumption` (non-empty
store and ring, finitely many threads, nobody both serves and judges) and `SortAssumption`, what `std::sort` is
used for: the sorted list has every file, each before the next. `NoneAssumption` says that
no verdict is the absence of one, and `HttpServerAssumption` that there are finitely many
clients and threads, that texts and files are sequences and that recv returns at least one
symbol. TLC evaluates all of them, `SortAssumption` for every directory of the run
`judging`.

**JudgeQueueProofs.** The properties are equations between a counter, the length of
two sequences, and the number of threads at certain steps. The inductive invariant is

    IInv == TypeOK /\ KindOK /\ SemaphoresExact /\ NoDebt

`SemaphoresExact` alone is inductive only with `KindOK` (a thread is inside the
call its kind makes); it does not bound anything, since a counter may be negative.
`NoDebt` does: a counter is at least minus the number of threads about to take their
decrement back. `CountGoto` says how one thread's step changes the number of
threads at a set of steps; `CountStep` applies it to the six sets the invariant
speaks of, and each action is then integer arithmetic. Results: `TypeCorrect` (no index leaves the
array), `CountersExact`, `CapacityKept`, `SleepsOnlyWhenDrained` and `RefusesOnlyWhenFull`, all for any
number of producers. The last counts the callers that have claimed a place and have no ticket, a refused one that has not
taken its decrement back among them: with several producers, that one can make `enque` refuse an
id for two steps while a place is free (never where the ring has a place for every id, `NeverRefuses`).

Two more invariants are what the ring's user needs. `Origin`: every id in the array or in a call
was offered, or is the 0 the array starts with, and a call that has its ticket is among
`given`. `Room`, where `Ids` has at most `Size` members: whoever looks for a place has offered an
id that has none yet, so `Len(given)` and the threads looking are together at most the ids
offered, and a place is left for the next. Result: `NeverRefuses`, for any number of producers.

Until an id has been overtaken, and with one consumer at a time, the array itself can be spoken of (`Linear`).
`head` and `tail` are, up to a multiple of the size, as far apart as there are ids without a reader; several
producers may push `tail` past `Size` for good, so nothing is said of how large it is, and `head` and the reset are
spoken of modulo `Size` (`IndicesOK`). The place of such an id is counted back from `tail` (`PlaceOf`, `TicketsOK`) and holds
it, except while its producer still has to write it (`Unwritten`, `ArrayOK`); ids given after
an unwritten one are not published (`PublishedInOrder`), which is what `overtaken` being false keeps up;
and the k-th id read is the k-th given (`InOrder`). A reader that has found an id then finds it written (`IdWritten`), by
counting the ids published. That a new id never gets a place in use is where
`SemaphoresExact` and `NoDebt` come in: a place is free again only when its reader has released it. `Fresh` says that no id is
given twice: one that is still looking for its place has none, and is in one producer's hands. `overtaken` never becomes false again
(`OvertakenStays`), so the invariant is `overtaken \/ Linear` beside the others (`OrderInv`). Results: `HandedOutOnce`,
the property that `jq_race` violates, up to the moment that makes it possible, and `ImplementsJobFifo`, the refinement.

**MsgQueueProofs.** `head` does not say how many slots are issued, since refused
submissions have incremented it and not yet decremented it. `Base` is `head` less
their number, and

    IInv == Types /\ BaseOK /\ SlotsOK /\ FillsOK

says that `Base` is within `0..Size` and exactly `Size` while anyone is refused, that
each slot below `Base` is filled or being filled by exactly one thread and no slot
above it is touched. A claim that succeeds thus gets the slot `Base`, which nobody
has, and a refused one leaves `Base` alone. Results: `TypeCorrect`, `DistinctSlots`,
`StayReadable`, `RefusedOnlyWhenFull`, and `NeverRefilled` (the strings of an issued slot never change). `IssuedOwn` adds that a slot just
issued holds the submission of its thread, and `PathBelow` that a slot with a path is readable.

**JudgeWorkerProofs.** The two components are used as they are proved: the module instantiates
both proof modules, shows that each step of `JudgeWorker` is a step or a stutter of either
(`RingStep`, `StoreStep`), and has their invariants without a second proof. What it adds is how a
slot moves, from the store to the thread it was issued to, to the ring, to a judge thread:

    Inv == Parts /\ TypeOK /\ Calls /\ Owners /\ Contents /\ Handed

`Parts` are the components' invariants; `Calls` says that a thread is inside a component's call
only at the step of its loop that makes it; `Owners`, that a slot between store and ring
belongs to one thread and was never offered, which is what makes `RingStep` true; `Contents`, that
it holds that thread's submission and that whatever was offered is filled; `Handed`, that a judge
thread works on an id that was offered, or on 0 after one was, and 0 is issued first. The
argument is circular only in appearance: the steps of the components follow from `Inv` in the
state before. `Queuing` joins `Room` and the place of the id of a thread that has returned from
`enque`. Results: `TypeCorrect`, `HandedIdsReadable`, `UsesRing` and, for a ring at
least as large as the store, `AnswersQueued`.

**JudgeServiceProofs.** For any number of threads that submit, poll and judge; one theorem has a hypothesis: for the
refinement `JsqSize <= JqSize`, the ring is no smaller than the store, as in `main.cpp`, where both have
100000 places. What the ring does after an id has been overtaken is excluded in the properties themselves, and
so is, for the refinement, a run that has fallen off its end. The invariant is built in four layers on that of
`JudgeWorkerProofs`, each of the form `overtaken \/ ...`, which suffices since `overtaken` is never taken back:

* `RingOK`: `Linear` and `Fresh` of the ring, whose conditions now follow. Each id is
  read from it once, so no two judge threads hold one (`HeldOK`), and its file was saved before it was
  put there (`Saved`): `JudgedByOne`.
* `Settled`: a slot with a final status has no holder left that would still store, since the
  status is stored last. Hence `VerdictStable`.
* `StoringOK` and `WholeOK`: what a holder has stored so far, and that a slot with a final status
  is whole, a verdict that `run` can produce for that submission. `PollOK`: a poll that saw a final status
  reads the rest of that verdict in its later steps. Hence `RepliesConsistent`.
* `Handling`: a submission is in one thread's hands, or answered, or neither; its path is in one
  slot at most.

With them each step is a step of `JudgeService` or a stutter (`KeepsPromise`): `EnqTicket` is
`Submit`; `Notify`, `IssueFull`, `SaveFileThrows` and an unsupported language are `Tell`;
`DeqRead` is `Take`; `StoreStatus` is `Judge`; the first read of a final text is `Show`; the
last read is `Finish`. `HandlingCases` sorts the actions by what they do to a submission,
`ServiceStep` does so for the abstract variables.

**Base64Proofs.** A recursive function on `Nat` is defined by a CHOOSE, and that such a
function exists needs an induction that the library only offers with an operator as
parameter. For one predicate at a time it can be had from the smallest
counterexample (`SmallestOf`). `RecExists` is the result: it gives the unfolding of
any function defined by a base and a step, and `FoldLeft` and the other modules' recursive
functions are instances. `CodeAt` is the k-th code of the encoding in closed form;
`ReferenceAt` says that it is the k-th group of six bits, `EncodeIs` that `Encode` produces it,
tail and padding included. After k codes the decoder has written every whole byte
of them and keeps the rest in `bin` (`LeftIs`, `DecodeStep`). Results, for texts of every length:
`EncodeIsReference` and `DecodeUndoesEncode`.

**HttpServerProofs.** `ParseConcat`: parsing two pieces one after the other is parsing them at once, for
every state of the parser and every two texts. So a request is a function of what has
been received, however recv cut it (`Parsed`). The invariant

    Inv == Shapes /\ Once /\ \A c \in Clients : Parsed(c) /\ Stage(c) /\ Answered(c) /\ Told(c)

adds to the types that a connection is in the pool's hands once (`Once`), where it is given
how the parser ended (`Stage`), that its reply and what the judge got are those of its request
(`Answered`), and that what the client was sent is that reply (`Told`). A step concerns one connection;
`SameStays` carries the others over. Results: `TypeCorrect`, `PiecesDoNotMatter` and
`AnswersFit`, for any number of clients and threads and texts of any length.

The rest of the module compares that function with `RequestGrammar`, which knows no states.
`Knows(q, t, k)` has one conjunct per state of the parser and says of a request `q`
after `k` symbols of `t` where the line it is in begins, where its colon or blank is, which
symbols stand between, and that the headers before it are `HeadersTo(t, b - 1)` (`Named`, `Filled`,
`AtName`, `AtValue` and so on); `has_content` and `content_size` are those of the last
Content-Length so far (`Holds`, `LengthOf`). Two facts make it an equivalence:

* `StepKnows`: every rule of the table, applied where its state and symbol allow, leads
  to a state whose conjunct holds after `k + 1` symbols (`FirstStep`, `HeaderStep`, `ContentStep`). So
  `good` is reached only at the end of a request, with what the grammar reads (`AtGood`).
* `Progress`: if `t` is complete and does not declare an empty content (`Finished`), a state that is not `good` has a rule for the next symbol, and
  there is a next symbol (`FirstGoes`, `LineGoes`, `NameGoes`, `ValueGoes`, `ContentGoes`). This
  is where the grammar's places have to be the parser's: two ways to cut a line agree
  on the first colon, blank and line end (`FindIs`, `SameVerb`, `SameUri`).

`ParseIs` joins them. `url_decode` is compared with `Plain` place by place: outside an escape,
what the one has made of the places before and the other makes of those behind are together the
whole (`DecodesPlain`). Results: `ParsesAsTheGrammar`, `JudgedExactlyAsSent` (with `HeaderReads`: the
handler's loop finds the last header of a name) and `RoutesThePlainPath`.

**ThreadPoolProofs.** The lock is the argument:

    IInv == TypeOK /\ Alone /\ Seen /\ Closing /\ StartedInOrder

`Alone` says that one thread at most is between its predicate and the release of the lock,
and `Seen` that what it saw of the queue is still so, because the owner pushes only when
nobody is there. Without it `StartedInOrder` is not inductive: `Pop` records the task that
`Front` copied and removes the head, and only `Seen` says that these are the same.
`Closing` relates `opc` to `_run` and says what a thread does that has started a task after
the closing. `NoLostWakeup` then follows in every step by counting threads: `Push` adds
a task and the notification under way, `NotifyOne` turns that into a thread, and a
thread leaves the way to the queue only with a task or when it has found it empty.
Results: `TypeCorrect`, `StartsInOrder`, `WakeupsSuffice`, and `RefinesTaskPool`, the
refinement, one case per action.

**JudgeRunProofs.** That tests are paired is an argument about data: the numbers in either list
are strictly increasing (`NumsIncrease`, since distinct files of a well-formed directory
have distinct numbers), both lists have the same numbers, and two such sequences are equal
(`SameRange`, by the smallest place in which they differ). The invariant

    Inv == TypeOK /\ Lists /\ Stages /\ Own /\ Judged /\ JudgesOwnProgram

carries it to the run: `Lists` says that each test used its place in the two lists,
`Stages` what is still empty at each step and that a run that reaches its end has done every
test, and `Own` that the directory holds the
submission's source from `saveFile` on and its program from the compiler's end on, or one of the causes has
come between, which `JudgesOwnProgram` does not say of the tests still to come. `Judged` says what each result was made of: an answer the core can
give for how the program ended, and the output file of that very test.

That the checker is right for two texts of any length (`CheckedRight`) is shown without looking
at the files again. `Rest(t, n)` is what the loop has left of `t` at place `n`, as lines; one
turn of the loop takes the first line of both (`RestStep`, from where lines start and where
`readEoln` stops), so "what is left agrees" satisfies the equation of the loop (`LeftTurn`), and the
loop's equation has one solution: at the largest place of the answer where two
solutions differed, they would differ further on. A count (`SortedCount`) gives one result for every
input file. An output that is the same as the answer begins with it (`SameLeads`), so
one that is rejected is not the same. Results: `TypeCorrect`, `TestsPair`, `VerdictsFit`, `OwnProgram`.

**Only model-checked.** Liveness and anything that needs ENABLED
(`EverySubmissionJudged`, `EveryTaskStarts`, `DestructorReturns`, `EveryClientServed`)
is outside what the installed provers do. Every invariant and every action property that a
passing run checks is also a theorem.

## 5. Plan

Done: every component of section 1 that has state of its own, and the proofs of section 4. Left:
`HttpServer` over `JudgeWorker` instead of a choice of the judge's answers.

## 6. Not modelled

* Weaker memory orders of the atomics: the code uses the sequentially consistent default. The array of the ring and
  the fields of a slot are plain: that other threads see their stores in the order of the program is an
  assumption of the models, which compilers keep to in practice and the language does not promise. What
  `ReplyConsistent`, `FinalVerdictStable` and `ServiceUntilUndefined` say rests on it.
* The wrap-around of the 32-bit counters: `readableCnt` and `writeableCnt` are bounded by the ring
  and the threads, and `head` of the store by its size and the threads (proved).
* `judger_core`: not in the repository, external in the models. With it go the
  command lines (`judge_args`) and the limits they carry.
* Where a file outside `doc_root` comes from: the default route joins it with the path of the uri after
  one slash (`miniRouter.hpp` lines 92-95), and a path that is still absolute (`//...`) replaces it. A page is
  a choice of contents in `HttpServer`, wherever it lies.
* The text of pages and of log lines: they have no state.
* The client's address: `peerLen` is not set before it is read, so it may be anything; it is only stored and printed.
* Several requests on one connection: the code closes it after one.
* Replies larger than the socket's buffer, sent while the client goes away.
* The web client `www/assests/app.js`: it keeps no state and asks for its result once. Styles,
  `highlight` and vendored browser scripts there.
