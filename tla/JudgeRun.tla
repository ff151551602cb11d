------------------------------ MODULE JudgeRun ------------------------------
(***************************************************************************)
(* saveFile (utils.cpp) and Judger::run (src/src/judge/judge.cpp) for the  *)
(* submissions that use one working directory one after the other: save,   *)
(* compile, load the problem (Problem of judge.hpp), and for each test run *)
(* judger_core and check (Checker).  JudgeWorker has the outcomes of run   *)
(* in one step, Run.                                                       *)
(*                                                                         *)
(* One process gives every submission a directory of its own, the id; but  *)
(* ids begin at 0 again in a process that is started again, and nothing    *)
(* empties the directory: Restart leaves the files to the next submission, *)
(* and beside it whatever popen had started: those children outlive the    *)
(* process that did.                                                       *)
(* judger_core, the compiler and the program judged are the environment.   *)
(* Memory is counted in MB.  A definition marked "mutant" is a plausible   *)
(* mistake in the one that follows it.                                     *)
(***************************************************************************)
EXTENDS Checker, Integers, FiniteSets

CONSTANTS Cases,       \* what is judged: a language, a problem and what the
                       \* programs may print (lang, problem, outputs)
          Memories,    \* the memory a program may use
          Submissions  \* how many submissions use the directory

ASSUME JudgeRunAssumption ==
  /\ Submissions \in Nat \ {0}
  /\ Memories \subseteq Nat
  /\ \A c \in Cases :
       /\ c.lang \in {"CPP", "PY3"} /\ c.outputs \subseteq Seq(Character)
       /\ \A f \in c.problem.files : f.num \in Int /\ f.text \in Seq(Character)

VARIABLES
  case,     \* the case judged
  sub,      \* the number of the submission, from 1
  pc,       \* where its run is
  source,   \* the submission whose source file the directory holds, 0: it
            \* holds none, or one cut short
  exe,      \* the same of the program: the executable, or the source
  outs,     \* the output files: what each holds, and of which submission
  i,        \* the loop variable
  input, output,  \* p.input_data and p.output_data
  results,
  verdict,  \* what run returns, or how it ends
  trace,    \* history: for each test the program, the files and the core's
            \* answer
  strays,   \* the children of earlier processes that are still running
  saved,    \* history: whether the source was written
  built,    \* history: how the compiler ended
  strayed   \* history: a stray has written what a run uses since then

dirVars  == <<source, exe, outs>>
loopVars == <<i, input, output, results, trace>>
vars == <<case, sub, pc, dirVars, loopVars, verdict, strays, saved, built, strayed>>

NoVerdict == [status |-> "none", text |-> ""]
NoFile == [of |-> 0, text |-> <<>>]

-----------------------------------------------------------------------------
(* __judger: what judger_core may answer, by what happened.  A program     *)
(* that a signal has ended has 0 for its exit code; when nothing is        *)
(* printed the fields of RESULT keep whatever they held.                   *)
Ends == {"finished", "failed", "killed", "refused", "silent"}

WRONG_ANSWER == -1
MEMORY_LIMIT_EXCEEDED == 3
Killed == {1, 2, 4}  \* CPU_TIME_, REAL_TIME_LIMIT_EXCEEDED, RUNTIME_ERROR

Core(end) ==
  LET answer(error, result, exit, memories) ==
        [error : error, result : result, exit_code : exit, memory : memories]
  IN CASE end = "finished" -> answer({0}, {0}, {0}, Memories)
       [] end = "failed"   -> answer({0}, {4}, {1}, {0})
       [] end = "killed"   -> answer({0}, Killed, {0}, {0})
       [] end = "refused"  -> answer({-10}, {5}, {0}, {0})
       [] end = "silent"   -> answer({0, 1}, {0, 4}, {0, 1}, {0})

-----------------------------------------------------------------------------
(* Problem: the files of the data directory whose names match, sorted by   *)
(* their number and then by name, with as many inputs as outputs.  A file  *)
(* has a stem, which is made of letters or not, a number, -1 if the name   *)
(* has none, an extension, and, for an answer, its text.                   *)
Stems == <<"-", "a", "b">>
Letters == {"a", "b"}
Rank(seq, e) == SelectInSeq(seq, LAMBDA x : x = e)

Matching(files, exts) ==
  {f \in files : f.stem \in Letters /\ f.num >= 0 /\ f.ext \in exts}

BeforeByName(f, g) ==  \* mutant: a plain sort of the names
  \/ Rank(Stems, f.stem) < Rank(Stems, g.stem)
  \/ f.stem = g.stem /\ f.num < g.num
Before(f, g) ==
  \/ f.num < g.num
  \/ f.num = g.num /\ Rank(Stems, f.stem) < Rank(Stems, g.stem)
  \/ f.num = g.num /\ f.stem = g.stem
       /\ Rank(<<"ans", "in", "out">>, f.ext) < Rank(<<"ans", "in", "out">>, g.ext)

Sorted(files) == SetToSortSeq(files, Before)

(* sort (of a library) puts every file once, and each before the next.     *)
ASSUME SortAssumption ==
  \A c \in Cases : \A exts \in {{"in"}, {"out", "ans"}} :
    LET files == Matching(c.problem.files, exts)
        s == Sorted(files)
    IN /\ IsFiniteSet(files)
       /\ s \in Seq(files)
       /\ \A f \in files : \E k \in 1..Len(s) : s[k] = f
       /\ \A j, k \in 1..Len(s) : j < k => Before(s[j], s[k])

Inputs(p)  == Sorted(Matching(p.files, {"in"}))
Outputs(p) == Sorted(Matching(p.files, {"out", "ans"}))
LoadsUncounted(p) == p.exists  \* mutant: the numbers are not compared
Loads(p) == p.exists /\ Len(Inputs(p)) = Len(Outputs(p))

-----------------------------------------------------------------------------
Init ==
  /\ case \in Cases
  /\ sub = 1
  /\ pc = "save"
  /\ source = 0 /\ exe = 0
  /\ outs = <<>>
  /\ i = 0
  /\ input = <<>> /\ output = <<>>
  /\ results = <<>>
  /\ verdict = NoVerdict
  /\ trace = <<>>
  /\ strays = {}
  /\ saved = "none" /\ built = "none" /\ strayed = FALSE

Returns(status, text) ==
  /\ pc' = "done"
  /\ verdict' = [status |-> status, text |-> text]

(* Mutant: a file that is there already is left alone. *)
SaveIfAbsent ==
  /\ pc = "save"
  /\ pc' = "compile"
  /\ \/ saved' = "written" /\ source' = IF source = 0 THEN sub ELSE source
     \/ saved' = "unwritten" /\ source' \in {source, 0}
  /\ UNCHANGED <<case, sub, exe, outs, loopVars, verdict, strays, built, strayed>>

(* saveFile, in the thread that serves the client.  It does not look at    *)
(* whether the file could be opened or written; when it throws, the        *)
(* submission is not judged (SaveFileThrows of JudgeWorker).               *)
Save ==
  /\ pc = "save"
  /\ pc' = "compile"
  /\ \/ saved' = "written" /\ source' = sub
     \/ saved' = "unwritten" /\ source' \in {source, 0}
  /\ UNCHANGED <<case, sub, exe, outs, loopVars, verdict, strays, built, strayed>>

(* compile: the compiler has succeeded if its exit code and error are 0.   *)
Succeeded(r) == r.exit_code = 0 /\ r.error = 0

(* The message of a compile error: compile_error, or else compile_log.     *)
Message(error, log) == IF error = "" THEN log ELSE error

(* A Python program is its source; g++ writes the executable when it       *)
(* finishes, which it does not without a whole source.                     *)
Compiles(end) == end = "finished" => case.lang = "PY3" \/ source # 0

Compile ==
  /\ pc = "compile"
  /\ \E end \in Ends : \E r \in Core(end) : \E error, log \in {"", "output"} :
       /\ Compiles(end)
       /\ built' = end
       /\ exe' = IF case.lang = "PY3" \/ end = "finished" THEN source ELSE exe
       /\ IF Succeeded(r) THEN pc' = "load" /\ UNCHANGED verdict
          ELSE Returns("COMPILE_ERROR", Message(error, log))
  /\ UNCHANGED <<case, sub, source, outs, loopVars, strays, saved, strayed>>

(* popen fails: the exception of exec leaves run as a runtime_error.       *)
CompileThrows ==
  /\ pc = "compile"
  /\ Returns("throws", "compile_throw_error")
  /\ UNCHANGED <<case, sub, dirVars, loopVars, strays, saved, built, strayed>>

(* The constructor of Problem returns, *)
Load ==
  /\ pc = "load"
  /\ Loads(case.problem)
  /\ input' = Inputs(case.problem)
  /\ output' = Outputs(case.problem)
  /\ pc' = "test"
  /\ UNCHANGED <<case, sub, dirVars, i, results, trace, verdict, strays, saved,
                 built, strayed>>

(* or throws, as exec does later: run falls off its end.                   *)
FallsOff ==
  /\ \/ pc = "load" /\ ~Loads(case.problem)
     \/ pc = "test" /\ i < Len(input)
  /\ Returns("undefined", "")
  /\ UNCHANGED <<case, sub, dirVars, loopVars, strays, saved, built, strayed>>

(* The result of a test: the core's, unless it is 0 and the memory or the  *)
(* check make it another one.  memory_limit is 128, in units of 2^30.      *)
MemoryLimit == 128 * 1024
Result(r, user, std) ==
  IF r.error # 0 \/ r.result # 0 THEN r.result
  ELSE IF r.memory >= MemoryLimit THEN MEMORY_LIMIT_EXCEEDED
  ELSE IF NoipstyleCheck(user, std) THEN 0 ELSE WRONG_ANSWER

(* The file "out" <i> as the check finds it: the program has written it,   *)
(* unless judger_core does not run it,                                     *)
Put(file) == [k \in 1..(IF i < Len(outs) THEN Len(outs) ELSE i + 1) |->
                IF k = i + 1 THEN file ELSE outs[k]]
OwnOuts(end) ==
  IF end \in {"refused", "silent"} THEN {IF i < Len(outs) THEN outs ELSE Put(NoFile)}
  ELSE {Put([of |-> sub, text |-> t]) : t \in case.outputs}

(* or the program of an earlier submission, still running, has.            *)
StrayOuts == {Put([of |-> s.from, text |-> t]) :
                s \in {x \in strays : x.kind = "program" /\ x.at = i}, t \in case.outputs}

(* Without an executable nothing is run.                                   *)
Runnable(end) == exe # 0 \/ case.lang = "PY3" \/ end \in {"refused", "silent"}

Test ==
  /\ pc = "test"
  /\ i < Len(input)
  /\ \E end \in Ends : \E r \in Core(end) : \E after \in OwnOuts(end) \cup StrayOuts :
       /\ Runnable(end)
       /\ outs' = after
       /\ strayed' = (strayed \/ after \notin OwnOuts(end))
       /\ results' = Append(results,
            [r EXCEPT !.result = Result(r, after[i + 1].text, output[i + 1].text)])
       /\ trace' = Append(trace,
            [exe |-> exe, input |-> input[i + 1], answer |-> output[i + 1],
             end |-> end, core |-> r, out |-> after[i + 1]])
  /\ i' = i + 1
  /\ UNCHANGED <<case, sub, pc, source, exe, input, output, verdict, strays, saved,
                 built>>

Finish ==
  /\ pc = "test"
  /\ i = Len(input)
  /\ Returns("END", "")
  /\ UNCHANGED <<case, sub, dirVars, loopVars, strays, saved, built, strayed>>

-----------------------------------------------------------------------------
(* exec: what popen has started when the process ends, g++ under           *)
(* judger_core or the program on a test, goes on.                          *)
Child ==
  IF pc = "compile" /\ case.lang = "CPP"
  THEN {[kind |-> "compiler", from |-> source, at |-> 0]}
  ELSE IF pc = "test" /\ i < Len(input)
       THEN {[kind |-> "program", from |-> sub, at |-> i]} ELSE {}

(* The process ends, at any moment, and a later one gives the same id to   *)
(* the next submission.                                                    *)
Restart ==
  /\ sub < Submissions
  /\ sub' = sub + 1
  /\ pc' = "save"
  /\ i' = 0
  /\ input' = <<>> /\ output' = <<>> /\ results' = <<>> /\ trace' = <<>>
  /\ verdict' = NoVerdict
  /\ strays' = strays \cup Child
  /\ saved' = "none" /\ built' = "none" /\ strayed' = FALSE
  /\ UNCHANGED <<case, dirVars>>

(* A compiler that was left behind writes the executable, from the source  *)
(* as it was when it began or, had it not read it yet, as it is now.       *)
StrayLinks ==
  /\ \E s \in strays :
       /\ s.kind = "compiler"
       /\ exe' \in {s.from, source} \ {0}
       /\ strays' = strays \ {s}
  /\ strayed' = (strayed \/ pc \in {"load", "test"})
  /\ UNCHANGED <<case, sub, pc, source, outs, loopVars, verdict, saved, built>>

StrayEnds ==
  /\ \E s \in strays : strays' = strays \ {s}
  /\ UNCHANGED <<case, sub, pc, dirVars, loopVars, verdict, saved, built, strayed>>

Next ==
  \/ Save \/ Compile \/ CompileThrows \/ Load \/ FallsOff \/ Test \/ Finish
  \/ Restart \/ StrayLinks \/ StrayEnds

Spec == Init /\ [][Next]_vars

-----------------------------------------------------------------------------
(* Type correctness; input and output go together.                         *)
TypeOK ==
  /\ sub \in 1..Submissions
  /\ pc \in {"save", "compile", "load", "test", "done"}
  /\ source \in 0..sub /\ exe \in 0..sub
  /\ \A s \in strays : s.from \in 0..sub - 1
  /\ i \in 0..Len(input)
  /\ Len(output) = Len(input) /\ Len(results) = i /\ Len(trace) = i
  /\ verdict.status \in {"none", "COMPILE_ERROR", "END", "throws", "undefined"}
  /\ saved \in {"none", "written", "unwritten"} /\ built \in Ends \cup {"none"}

(* A data directory in which every number of an input has one answer, and  *)
(* the other way round.                                                    *)
Numbers(files) == {f.num : f \in files}
WellFormedData(p) ==
  LET in  == Matching(p.files, {"in"})
      out == Matching(p.files, {"out", "ans"})
  IN /\ Numbers(in) = Numbers(out)
     /\ Cardinality(Numbers(in)) = Cardinality(in)
     /\ Cardinality(Numbers(out)) = Cardinality(out)

(* Tests are paired by their place in two sorted lists (judge.hpp, lines   *)
(* 229-233, judge.cpp, lines 263-265), whatever order the directory is     *)
(* read in and however its files are called: in a well-formed directory    *)
(* each input is judged against the answer of its number, in the order of  *)
(* the numbers.                                                            *)
TestsPaired ==
  WellFormedData(case.problem) =>
    \A k \in 1..Len(trace) :
      /\ trace[k].input.num = trace[k].answer.num
      /\ k > 1 => trace[k - 1].input.num < trace[k].input.num

(* The results of a run that reaches END: one for every test, those after  *)
(* a failed one included; the core's answer for a program that did not     *)
(* finish; and for one that did, nothing worse than it deserves by the     *)
(* meaning the repository gives to the limit and the comparison, and       *)
(* accepted only if its output begins with the answer (judge.cpp, lines    *)
(* 263-291, with check.hpp).  Left out: a core that printed nothing, and   *)
(* the comparison of files with 0xFF.  What is accepted undeservedly is    *)
(* the subject of AcceptedIsDeserved.                                      *)
HasFf(t) == \E k \in 1..Len(t) : t[k] = "ff"
Readable(t) == ~HasFf(t.out.text) /\ ~HasFf(t.answer.text)
LimitInMB == 128  \* memory_limit, in the unit of judge.cpp, line 70
VerdictFits ==
  verdict.status = "END" =>
    /\ Len(results) = Cardinality(Matching(case.problem.files, {"in"}))
    /\ \A k \in 1..Len(results) :
         LET t == trace[k]
             r == results[k].result
         IN /\ t.end \notin {"finished", "silent"} => r = t.core.result
            /\ t.end = "finished" =>
                 /\ r \in {0, WRONG_ANSWER, MEMORY_LIMIT_EXCEEDED}
                 /\ r = MEMORY_LIMIT_EXCEEDED => t.core.memory >= LimitInMB
                 /\ r = WRONG_ANSWER /\ Readable(t) => ~SameText(t.out.text, t.answer.text)
                 /\ r = 0 /\ Readable(t) => AnswerLeads(t.out.text, t.answer.text)

(* "true means the same" (check.hpp, lines 57-58) and a limit in MB        *)
(* (judge.cpp, line 70): a program that finished and is accepted has the   *)
(* answer for its output, and stayed within the limit.  Every line below   *)
(* is what the repository says; they are joined so that only a run that    *)
(* breaks each of them, for files without 0xFF, with it, and in memory, is *)
(* a counterexample.                                                       *)
Accepted == {k \in 1..Len(results) : results[k].result = 0 /\ trace[k].end = "finished"}
SameAt(k) == SameText(trace[k].out.text, trace[k].answer.text)
AcceptedIsDeserved ==
  \/ \A k \in Accepted : Readable(trace[k]) => SameAt(k)
  \/ \A k \in Accepted : ~Readable(trace[k]) => SameAt(k)
  \/ \A k \in Accepted : trace[k].core.memory < LimitInMB

(* Whatever an earlier process left in the directory or running in it, a   *)
(* submission's tests run its own program and check its own output, and a  *)
(* compiler that says there is an error is believed (judge.cpp, lines      *)
(* 12-26 and 218-251, utils.cpp, lines 5-13) -- but for the causes named:  *)
(* saveFile did not write the source and did not say so; a child of an     *)
(* earlier process wrote after the compiler had ended; g++ was killed,     *)
(* which its exit code does not show, or judger_core printed nothing.      *)
UnseenEnd == {"killed", "silent"}
JudgesOwnProgram ==
  /\ \A k \in 1..Len(trace) :
       /\ \/ trace[k].exe = sub
          \/ saved = "unwritten" \/ strayed
          \/ case.lang = "CPP" /\ built \in UnseenEnd
       /\ trace[k].end \notin {"refused", "silent"} => trace[k].out.of = sub \/ strayed
  /\ built \notin UnseenEnd =>
       (verdict.status = "COMPILE_ERROR" <=> built \in {"failed", "refused"})
=============================================================================
