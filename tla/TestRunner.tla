----------------------------- MODULE TestRunner -----------------------------
(***************************************************************************)
(* test.py: the main thread puts one job per test into input_queue and one   *)
(* break job per worker thread behind them; the workers run the jobs as      *)
(* child processes and put them into output_queue; the main thread counts    *)
(* the results, gathers them in results.xml, joins the workers, writes the   *)
(* report and returns.  SIGINT may come at any time.                          *)
(*                                                                          *)
(* A job is known by its place in the list of tests.  Choosing the tests     *)
(* from the command line and the build status is the choice of the list.     *)
(***************************************************************************)
EXTENDS Naturals, Sequences, FiniteSets, SequencesExt

CONSTANTS
  Worker,     \* one worker thread per processor
  TestLists,  \* the lists of tests that may have been asked for
  OptionSets, \* the options that may have been given
  MaxLost,    \* bound on the worker threads that end by an exception
  None        \* an absent value

Kind   == {"suite", "example", "pyexample"}
Status == {"PASS", "FAIL", "VALGR", "CRASH", "SKIP", "broken"}
File   == {"none", "empty", "partial", "PASS", "FAIL"}  \* what a suite has written

\* A test: what is it, does it stay out of valgrind runs, does it lack a
\* prerequisite (NSC, the Python bindings)?
Test == [kind : Kind, novalgrind : BOOLEAN, missing : BOOLEAN]

ASSUME RunnerAssumption ==
  /\ IsFiniteSet(Worker) /\ Worker # {}
  /\ TestLists \subseteq Seq(Test)
  /\ OptionSets \subseteq [valgrind : BOOLEAN, report : BOOLEAN, retain : BOOLEAN]
  /\ MaxLost \in Nat
  /\ None \notin Nat \cup Status \cup [rc : Nat, file : File, decodable : BOOLEAN]

VARIABLES
  options,       \* the options that matter: valgrind, report, retain
  tests,         \* the list of tests
  main,          \* what the main thread does
  jobs,          \* number of jobs put into input_queue: jobs and total_tests
  input_queue,
  output_queue,
  thread_exit,   \* set by the signal handler
  is_break,      \* [job -> BOOLEAN]
  returncode,    \* [job -> exit status of the child]
  tmp_file,      \* [job -> what the suite has written for its results]
  worker,        \* [Worker -> [at, job]]
  counted,       \* [job -> status counted and printed by the main thread]
  results,       \* results.xml: the entries so far, None once removed
  report,        \* the entries of the text or HTML report
  status,        \* what run_tests returns
  signalled,     \* observer: SIGINT was delivered
  ended,         \* observer: [job -> how its child really ended]
  late           \* observer: [Worker -> children launched since the SIGINT]

inputVars  == <<options, tests>>
jobVars    == <<is_break, returncode, tmp_file, ended>>
mainVars   == <<main, jobs, counted, results, report, status>>
queueVars  == <<input_queue, output_queue>>
signalVars == <<thread_exit, signalled>>
vars == <<inputVars, jobVars, mainVars, queueVars, signalVars, worker, late>>

Job    == DOMAIN tests
Break  == 0                    \* the job that tells a worker to end
Idle   == [at |-> "get", job |-> None]

Init ==
  /\ options \in OptionSets
  /\ tests \in TestLists
  /\ main = "dispatch"
  /\ jobs = 0
  /\ input_queue = <<>>
  /\ output_queue = <<>>
  /\ thread_exit = FALSE
  /\ is_break = [j \in Job |-> FALSE]
  /\ returncode = [j \in Job |-> 0]          \* False, which equals 0
  /\ tmp_file = [j \in Job |-> "none"]
  /\ worker = [w \in Worker |-> Idle]
  /\ counted = [j \in Job |-> None]
  /\ results = <<>>
  /\ report = None
  /\ status = None
  /\ signalled = FALSE
  /\ ended = [j \in Job |-> None]
  /\ late = [w \in Worker |-> 0]

\* Mutant of sigint_hook: without "global", the flag set is a local one.
HookLocal ==
  /\ ~ signalled
  /\ signalled' = TRUE
  /\ UNCHANGED <<thread_exit, inputVars, jobVars, mainVars, queueVars, worker, late>>

sigint_hook ==
  /\ ~ signalled
  /\ signalled' = TRUE
  /\ thread_exit' = TRUE
  /\ UNCHANGED <<inputVars, jobVars, mainVars, queueVars, worker, late>>

-----------------------------------------------------------------------------
(* The worker threads.                                                       *)

\* Tests to be skipped go through the workers too.
is_skip(j) == tests[j].missing \/ (options.valgrind /\ tests[j].novalgrind)

\* The ways a child process may end: its exit status, the results file it
\* leaves, and whether its output can be decoded.  A suite opens the file,
\* runs, and writes its results when it is done; a crash can come before,
\* between, in the middle of a write or after.  Valgrind makes errors it finds an exit status of 2 and
\* ends with 1, and no file, if it does not know its options.
ChildEnd(j) ==
  LET wrote == IF tests[j].kind # "suite" THEN {<<0, "none">>, <<1, "none">>, <<2, "none">>, <<139, "none">>}
               ELSE {<<0, "PASS">>, <<1, "FAIL">>}
                    \cup ({139} \X File)
                    \cup (IF options.valgrind THEN {<<2, "PASS">>, <<2, "FAIL">>, <<1, "none">>} ELSE {})
  IN  {[rc |-> x[1], file |-> x[2], decodable |-> d] : x \in wrote, d \in BOOLEAN}

\* A worker takes the next job; a break job ends it.
Take(w) ==
  /\ worker[w] = Idle
  /\ input_queue # <<>>
  /\ input_queue' = Tail(input_queue)
  /\ LET j == Head(input_queue)
     IN  worker' = [worker EXCEPT ![w] = IF j = Break THEN [at |-> "ended", job |-> None]
                                         ELSE [at |-> "look", job |-> j]]
  /\ UNCHANGED <<inputVars, jobVars, mainVars, signalVars, output_queue, late>>

\* Mutant of Interrupted: the job goes back unmarked.
InterruptedUnmarked(w) ==
  /\ worker[w].at = "look" /\ thread_exit
  /\ output_queue' = Append(output_queue, worker[w].job)
  /\ worker' = [worker EXCEPT ![w] = Idle]
  /\ UNCHANGED <<inputVars, jobVars, mainVars, signalVars, input_queue, late>>

\* Mutant of Interrupted: the worker ends, as if it had met its break job.
InterruptedEnds(w) ==
  /\ worker[w].at = "look" /\ thread_exit
  /\ is_break' = [is_break EXCEPT ![worker[w].job] = TRUE]
  /\ output_queue' = Append(output_queue, worker[w].job)
  /\ worker' = [worker EXCEPT ![w] = [at |-> "ended", job |-> None]]
  /\ UNCHANGED <<inputVars, mainVars, signalVars, input_queue, returncode, tmp_file, ended, late>>

\* After a SIGINT the job is marked and handed back.
Interrupted(w) ==
  /\ worker[w].at = "look" /\ thread_exit
  /\ is_break' = [is_break EXCEPT ![worker[w].job] = TRUE]
  /\ output_queue' = Append(output_queue, worker[w].job)
  /\ worker' = [worker EXCEPT ![w] = Idle]
  /\ UNCHANGED <<inputVars, mainVars, signalVars, input_queue, returncode, tmp_file, ended, late>>

\* A job to be skipped is handed back as it is.
Skip(w) ==
  /\ worker[w].at = "look" /\ ~ thread_exit
  /\ is_skip(worker[w].job)
  /\ output_queue' = Append(output_queue, worker[w].job)
  /\ worker' = [worker EXCEPT ![w] = Idle]
  /\ UNCHANGED <<inputVars, jobVars, mainVars, signalVars, input_queue, late>>

\* Any other job is to be run.  SIGINT may still come before its launch.
GoAhead(w) ==
  /\ worker[w].at = "look" /\ ~ thread_exit
  /\ ~ is_skip(worker[w].job)
  /\ worker' = [worker EXCEPT ![w].at = "launch"]
  /\ UNCHANGED <<inputVars, jobVars, mainVars, queueVars, signalVars, late>>

Launch(w) ==
  /\ worker[w].at = "launch"
  /\ worker' = [worker EXCEPT ![w].at = "run"]
  /\ late' = IF signalled THEN [late EXCEPT ![w] = @ + 1] ELSE late
  /\ UNCHANGED <<inputVars, jobVars, mainVars, queueVars, signalVars>>

Lost == {w \in Worker : worker[w].at = "lost"}

\* Popen raises (no process, no memory, no directory): the thread ends with
\* its job in hand.
LaunchFails(w) ==
  /\ worker[w].at = "launch"
  /\ Cardinality(Lost) < MaxLost
  /\ worker' = [worker EXCEPT ![w].at = "lost"]
  /\ UNCHANGED <<inputVars, jobVars, mainVars, queueVars, signalVars, late>>

\* Output that cannot be decoded makes the exit status 1, whatever it was.
run_job_synchronously(w) ==
  LET j == worker[w].job
  IN  /\ worker[w].at = "run"
      /\ \E e \in ChildEnd(j) :
           /\ ended' = [ended EXCEPT ![j] = e]
           /\ returncode' = [returncode EXCEPT ![j] = IF e.decodable THEN e.rc ELSE 1]
           /\ tmp_file' = [tmp_file EXCEPT ![j] = e.file]
      /\ worker' = [worker EXCEPT ![w].at = "put"]
      /\ UNCHANGED <<inputVars, mainVars, queueVars, signalVars, is_break, late>>

HandBack(w) ==
  /\ worker[w].at = "put"
  /\ output_queue' = Append(output_queue, worker[w].job)
  /\ worker' = [worker EXCEPT ![w] = Idle]
  /\ UNCHANGED <<inputVars, jobVars, mainVars, signalVars, input_queue, late>>

run(w) ==
  \/ Take(w)
  \/ Interrupted(w)
  \/ Skip(w)
  \/ GoAhead(w)
  \/ Launch(w)
  \/ LaunchFails(w)
  \/ run_job_synchronously(w)
  \/ HandBack(w)

-----------------------------------------------------------------------------
(* The main thread.                                                          *)

\* Mutant of Dispatch: jobs is not incremented.
DispatchUncounted ==
  /\ main = "dispatch" /\ jobs < Len(tests)
  /\ input_queue' = Append(input_queue, jobs + 1)
  /\ UNCHANGED <<inputVars, jobVars, mainVars, signalVars, worker, late, output_queue>>

\* The jobs in the order of the list, then a break job for every worker.
Dispatch ==
  /\ main = "dispatch"
  /\ \/ /\ jobs < Len(tests)
        /\ input_queue' = Append(input_queue, jobs + 1)
        /\ jobs' = jobs + 1
        /\ UNCHANGED main
     \/ /\ jobs = Len(tests)
        /\ input_queue' = input_queue \o [i \in 1 .. Cardinality(Worker) |-> Break]
        /\ main' = "collect"
        /\ UNCHANGED jobs
  /\ UNCHANGED <<inputVars, jobVars, signalVars, worker, late, output_queue,
                 counted, results, report, status>>

StatusOf(j) ==
  IF is_break[j] THEN "broken"
  ELSE IF is_skip(j) THEN "SKIP"
  ELSE CASE returncode[j] = 0 -> "PASS"
         [] returncode[j] = 1 -> "FAIL"
         [] returncode[j] = 2 -> "VALGR"
         [] OTHER -> "CRASH"

\* Mutant of FromFile: the results of a crashed suite are taken over too.
FromAnyFile(j) == tests[j].kind = "suite" /\ StatusOf(j) # "SKIP"

\* The suite's own results are taken over when it returned 0, 1 or 2.
FromFile(j) == tests[j].kind = "suite" /\ StatusOf(j) \in {"PASS", "FAIL", "VALGR"}

Entry(j, result) == [job |-> j, result |-> result]

\* What a job adds to results.xml: the contents of the suite's file, or an
\* entry made up for it.
EntriesOf(j) ==
  IF FromFile(j) THEN IF tmp_file[j] = "empty" THEN <<>> ELSE <<Entry(j, tmp_file[j])>>
  ELSE <<Entry(j, StatusOf(j))>>

Counted == {j \in Job : counted[j] # None}

\* One turn of the loop over the jobs.  A job handed back by an interrupted
\* worker adds nothing; a missing results file ends the program.
Collect ==
  LET j == Head(output_queue)
  IN  /\ main = "collect"
      /\ Cardinality(Counted) < jobs
      /\ output_queue # <<>>
      /\ output_queue' = Tail(output_queue)
      /\ counted' = [counted EXCEPT ![j] = StatusOf(j)]
      /\ \/ /\ is_break[j]
            /\ UNCHANGED <<main, results, status>>
         \/ /\ ~ is_break[j]
            /\ ~ (FromFile(j) /\ tmp_file[j] = "none")
            /\ results' = results \o EntriesOf(j)
            /\ UNCHANGED <<main, status>>
         \/ /\ ~ is_break[j]
            /\ FromFile(j) /\ tmp_file[j] = "none"
            /\ main' = "raised"
            /\ status' = 1
            /\ UNCHANGED results
      /\ UNCHANGED <<inputVars, jobVars, signalVars, worker, late, input_queue, jobs, report>>

\* The loop is over: wait for the workers.
JoinAll ==
  /\ main = "collect"
  /\ Cardinality(Counted) = jobs
  /\ \A w \in Worker : worker[w].at \in {"ended", "lost"}
  /\ main' = "finish"
  /\ UNCHANGED <<inputVars, jobVars, queueVars, signalVars, worker, late, jobs,
                 counted, results, report, status>>

Number(s) == Cardinality({j \in Job : counted[j] = s})

\* The i-th entry of results.xml is one that et.findall looks for, or is not.
Find(entries, kinds, found, i) ==
  IF tests[entries[i].job].kind \in kinds THEN Append(found, entries[i]) ELSE found

\* et.findall: the entries for these kinds of tests, in the order of results.xml.
findall(entries, kinds) ==
  LET found[i \in 0 .. Len(entries)] ==
        IF i = 0 THEN <<>> ELSE Find(entries, kinds, found[i - 1], i)
  IN  found[Len(entries)]

\* Suites first, then examples.
translate(entries) ==
  findall(entries, {"suite"}) \o findall(entries, {"example", "pyexample"})

\* Mutant of Finish: success is the absence of failures and crashes.
FinishNoFailure ==
  /\ main = "finish"
  /\ main' = "done"
  /\ report' = IF options.report THEN translate(results) ELSE None
  /\ results' = IF options.retain THEN results ELSE None
  /\ status' = IF Number("FAIL") + Number("CRASH") = 0 THEN 0 ELSE 1
  /\ UNCHANGED <<inputVars, jobVars, queueVars, signalVars, worker, late, jobs, counted>>

\* results.xml holds a file that breaks off, and is no XML.
Unparsable == \E j \in Job : FromFile(j) /\ tmp_file[j] = "partial"

\* The summary, the report if one was asked for, the removal of the temporary
\* files, and the exit status.
Finish ==
  /\ main = "finish"
  /\ ~ (options.report /\ Unparsable)
  /\ main' = "done"
  /\ report' = IF options.report THEN translate(results) ELSE None
  /\ results' = IF options.retain THEN results ELSE None
  /\ status' = IF Number("PASS") + Number("SKIP") = jobs THEN 0 ELSE 1
  /\ UNCHANGED <<inputVars, jobVars, queueVars, signalVars, worker, late, jobs, counted>>

\* ET.parse raises, the program ends and the temporary files stay.
ParseFails ==
  /\ main = "finish"
  /\ options.report /\ Unparsable
  /\ main' = "raised"
  /\ status' = 1
  /\ UNCHANGED <<inputVars, jobVars, queueVars, signalVars, worker, late, jobs, counted,
                 results, report>>

run_tests == Dispatch \/ Collect \/ JoinAll \/ Finish \/ ParseFails

-----------------------------------------------------------------------------
Next == run_tests \/ sigint_hook \/ \E w \in Worker : run(w)

Spec == Init /\ [][Next]_vars

\* The threads are scheduled and every child ends; nobody has to press Ctrl-C.
FairSpec == Spec /\ WF_vars(run_tests) /\ \A w \in Worker : WF_vars(run(w))

-----------------------------------------------------------------------------
(* Properties.                                                               *)

\* Types of the variables; the queues hold jobs that were dispatched, and the
\* counters of the main thread never exceed the jobs.
TypeOK ==
  /\ tests \in TestLists
  /\ main \in {"dispatch", "collect", "finish", "done", "raised"}
  /\ jobs \in 0 .. Len(tests)
  /\ ToSet(input_queue) \subseteq {Break} \cup 1 .. jobs
  /\ ToSet(output_queue) \subseteq 1 .. jobs
  /\ thread_exit \in BOOLEAN /\ signalled \in BOOLEAN
  /\ is_break \in [Job -> BOOLEAN]
  /\ returncode \in [Job -> {0, 1, 2, 139}]
  /\ tmp_file \in [Job -> File]
  /\ \A w \in Worker : /\ worker[w].at \in {"get", "look", "launch", "run", "put", "ended", "lost"}
                       /\ worker[w].job \in {None} \cup 1 .. jobs
                       /\ late[w] \in Nat
  /\ counted \in [Job -> {None} \cup Status]
  /\ status \in {None, 0, 1}

\* "if passed_tests + skipped_tests == total_tests: return 0 # success": the
\* program says success only if the child of every test that was not to be
\* skipped has run and has really returned 0, also after an interrupt, an
\* unreadable output or the loss of a worker thread.
SuccessMeansPassed ==
  status = 0 => \A j \in Job : is_skip(j) \/ (ended[j] # None /\ ended[j].rc = 0)

\* Test j of status s has an entry, which shows the status if that is a crash or
\* a skip.  It has one only, unless valgrind found an error: then there may be
\* "the PASS entry [...] followed by a VALGR failing test suite of the same name".
Shown(entries, j, s) ==
  \E i \in 1 .. Len(entries) :
    /\ entries[i].job = j
    /\ s # "VALGR" => \A k \in 1 .. Len(entries) : entries[k].job = j => k = i
    /\ s \in {"CRASH", "SKIP"} => entries[i].result = s

\* "the results written out" (run_tests): a report written without an
\* interrupt has an entry for every test whose output could be read, only one
\* where valgrind found nothing, and a test that crashed or was skipped is shown
\* as such.
ReportCoversAll ==
  (report # None /\ ~ signalled) =>
    \A j \in Job :
      (ended[j] = None \/ ended[j].decodable) => Shown(report, j, counted[j])

\* "When the worker threads sense this they stop doing real work": once the
\* user has pressed Ctrl-C, a worker launches at most the one child it had
\* already decided to run.
InterruptStops == \A w \in Worker : late[w] <= 1

\* "Each one will exit when they see their is_break task": the program comes to
\* an end and so do all of its threads, unless a worker was lost with a job, in
\* which case the main thread may wait for that job for ever.
Returns ==
  <>(status # None /\ \A w \in Worker : worker[w].at = "ended") \/ <>(Lost # {})

\* "After this is all done, we still need to indicate a valgrind error somehow,
\* so we fake up an xml entry with a VALGR result": a test in which valgrind
\* found an error has an entry that says so in the report.
ValgrindErrorsReported ==
  report # None =>
    \A j \in Job : counted[j] = "VALGR" => Contains(report, Entry(j, "VALGR"))

\* What test.py promises: one verdict for every test, and success only when
\* nothing went wrong.
Report ==
  INSTANCE TestReport WITH Sizes <- {Len(l) : l \in TestLists}, Nothing <- None,
                           verdict <- counted, status <- status
ImplementsReport == Report!Spec
=============================================================================
