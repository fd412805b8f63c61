-------------------------- MODULE TestRunnerProofs --------------------------
(***************************************************************************)
(* Proofs about TestRunner for any number of worker threads, any lists of   *)
(* tests and options, with interrupts and lost workers at any time.         *)
(***************************************************************************)
EXTENDS TestRunner, FiniteSetTheorems, WellFoundedInduction, TLAPS

-----------------------------------------------------------------------------
(* The inductive invariant.                                                  *)

At    == {"get", "look", "launch", "run", "put", "ended", "lost"}
Ended == [rc : {0, 1, 2, 139}, file : File, decodable : BOOLEAN]

Types ==
  /\ tests \in TestLists
  /\ main \in {"dispatch", "collect", "finish", "done", "raised"}
  /\ jobs \in 0 .. Len(tests)
  /\ input_queue \in Seq({Break} \cup 1 .. jobs)
  /\ output_queue \in Seq(1 .. jobs)
  /\ is_break \in [Job -> BOOLEAN]
  /\ returncode \in [Job -> {0, 1, 2, 139}]
  /\ tmp_file \in [Job -> File]
  /\ ended \in [Job -> {None} \cup Ended]
  /\ worker \in [Worker -> [at : At, job : {None} \cup 1 .. jobs]]
  /\ \A w \in Worker : worker[w].job = None <=> worker[w].at \in {"get", "ended"}
  /\ counted \in [Job -> {None} \cup Status]
  /\ status \in {None, 0, 1}

\* No job is twice in a queue.
Distinct(q) == \A i, k \in 1 .. Len(q) : (q[i] = q[k] /\ q[i] # Break) => i = k

\* A job is in one place at a time: in one of the queues, with one worker, or
\* counted; a job that is yet to be dispatched is in none.
OnePlace ==
  /\ Distinct(input_queue) /\ Distinct(output_queue)
  /\ ToSet(input_queue) \cap ToSet(output_queue) = {}
  /\ \A w \in Worker :
       /\ worker[w].job \notin ToSet(input_queue) \cup ToSet(output_queue)
       /\ \A v \in Worker : (v # w /\ worker[w].job # None) => worker[v].job # worker[w].job
  /\ \A j \in Counted :
       /\ j \in 1 .. jobs
       /\ j \notin ToSet(input_queue) \cup ToSet(output_queue)
       /\ \A w \in Worker : worker[w].job # j

\* What a job that a worker hands back, and a verdict, are founded on.
Evidence ==
  /\ \A j \in Job : ended[j] # None =>
       /\ returncode[j] = IF ended[j].decodable THEN ended[j].rc ELSE 1
       /\ tmp_file[j] = "partial" => ended[j].rc = 139
  /\ \A w \in Worker : worker[w].at = "put" => ended[worker[w].job] # None
  /\ \A j \in ToSet(output_queue) : is_break[j] \/ is_skip(j) \/ ended[j] # None
  /\ \A j \in Job :
       /\ counted[j] = "PASS" => ended[j] # None /\ ended[j].rc = 0
       /\ counted[j] = "SKIP" => is_skip(j)

\* How far the main thread has come.
Progress ==
  /\ main = "dispatch" \/ jobs = Len(tests)
  /\ main \in {"dispatch", "collect", "finish"} => status = None
  /\ main = "finish" => Counted = Job
  /\ status = 0 => \A j \in Job : counted[j] \in {"PASS", "SKIP"}

\* The flag and the signal go together, and a worker that has launched a child
\* since then has not decided to launch another.
Interrupts ==
  /\ thread_exit \in BOOLEAN
  /\ signalled = thread_exit
  /\ late \in [Worker -> {0, 1}]
  /\ \A w \in Worker : (~ signalled \/ worker[w].at = "launch") => late[w] = 0

Inv == Types /\ OnePlace /\ Evidence /\ Progress /\ Interrupts

-----------------------------------------------------------------------------
(* Facts about queues, finite sets and the operators of the model.           *)

\* The jobs are the numbers up to the length of the list.
LEMMA JobInterval ==
  ASSUME Types
  PROVE  /\ Len(tests) \in Nat /\ Job = 1 .. Len(tests)
         /\ jobs \in Nat /\ 1 .. jobs \subseteq Job
         /\ IsFiniteSet(Job) /\ Cardinality(Job) = Len(tests)
         /\ None \notin Nat /\ None \notin Status
<1>1. tests \in Seq(Test)
  BY RunnerAssumption DEF Types
<1>2. Len(tests) \in Nat /\ Job = 1 .. Len(tests)
  BY <1>1 DEF Job
<1>3. IsFiniteSet(Job) /\ Cardinality(Job) = Len(tests)
  <2> DEFINE n == Len(tests)
  <2>1. n \in Nat /\ Job = 1 .. n
    BY <1>2
  <2> HIDE DEF n
  <2>2. /\ IsFiniteSet(1 .. n)
        /\ Cardinality(1 .. n) = IF 1 > n THEN 0 ELSE n - 1 + 1
    BY <2>1, FS_Interval
  <2>3. IsFiniteSet(Job) /\ Cardinality(Job) = n
    BY <2>1, <2>2
  <2> QED
    BY <2>3 DEF n
<1> QED
  BY <1>2, <1>3, RunnerAssumption DEF Types

\* The queues hold dispatched jobs, and break jobs only on the input side.
LEMMA QueuesHoldJobs ==
  ASSUME Types
  PROVE  /\ ToSet(input_queue) \subseteq {Break} \cup 1 .. jobs
         /\ ToSet(output_queue) \subseteq 1 .. jobs
         /\ ToSet(output_queue) \subseteq Job
<1> DEFINE I == {Break} \cup 1 .. jobs
           O == 1 .. jobs
<1>1. input_queue \in Seq(I) /\ output_queue \in Seq(O) /\ O \subseteq Job
  BY JobInterval DEF Types
<1> HIDE DEF I, O
<1>2. ToSet(input_queue) \subseteq I /\ ToSet(output_queue) \subseteq O
  BY <1>1 DEF ToSet
<1>3. ToSet(output_queue) \subseteq Job
  BY <1>1, <1>2
<1> QED
  BY <1>2, <1>3 DEF I, O

\* A worker that takes the first job of a queue without repetitions leaves a
\* queue that does not hold it.
LEMMA TailJobs ==
  ASSUME NEW S, NEW q \in Seq(S), q # <<>>, Distinct(q)
  PROVE  /\ Tail(q) \in Seq(S)
         /\ Distinct(Tail(q))
         /\ Head(q) \in ToSet(q) /\ Head(q) \in S
         /\ ToSet(Tail(q)) \subseteq ToSet(q)
         /\ Head(q) # Break => Head(q) \notin ToSet(Tail(q))
<1>1. /\ Len(q) \in Nat /\ Len(q) >= 1
      /\ Tail(q) \in Seq(S) /\ Len(Tail(q)) = Len(q) - 1
      /\ Head(q) = q[1]
      /\ \A i \in 1 .. Len(q) - 1 : Tail(q)[i] = q[i + 1]
  OBVIOUS
<1>2. ToSet(q) = {q[i] : i \in 1 .. Len(q)}
  BY DEF ToSet
<1>3. ToSet(Tail(q)) = {q[i + 1] : i \in 1 .. Len(q) - 1}
  <2> DEFINE t == Tail(q)
  <2>1. t \in Seq(S) /\ Len(t) = Len(q) - 1 /\ \A i \in 1 .. Len(q) - 1 : t[i] = q[i + 1]
    BY <1>1
  <2> HIDE DEF t
  <2>2. ToSet(t) = {t[i] : i \in 1 .. Len(q) - 1}
    BY <2>1 DEF ToSet
  <2>3. ToSet(t) = {q[i + 1] : i \in 1 .. Len(q) - 1}
    BY <2>1, <2>2
  <2> QED
    BY <2>3 DEF t
<1>4. Distinct(Tail(q))
  <2> SUFFICES ASSUME NEW i \in 1 .. Len(q) - 1, NEW k \in 1 .. Len(q) - 1,
                      Tail(q)[i] = Tail(q)[k], Tail(q)[i] # Break
               PROVE  i = k
    BY <1>1 DEF Distinct
  <2>1. q[i + 1] = q[k + 1] /\ q[i + 1] # Break /\ i + 1 \in 1 .. Len(q) /\ k + 1 \in 1 .. Len(q)
    BY <1>1
  <2>2. i + 1 = k + 1
    BY <2>1 DEF Distinct
  <2> QED
    BY <2>2
<1>5. ASSUME q[1] # Break, NEW i \in 1 .. Len(q) - 1
      PROVE  q[i + 1] # q[1]
  <2>1. 1 \in 1 .. Len(q) /\ i + 1 \in 1 .. Len(q) /\ i + 1 # 1
    BY <1>1
  <2> QED
    BY <1>5, <2>1 DEF Distinct
<1>6. \A i \in 1 .. Len(q) - 1 : i + 1 \in 1 .. Len(q)
  BY <1>1
<1>7. Head(q) \in ToSet(q) /\ q[1] \in S
  BY <1>1, <1>2
<1> QED
  BY <1>1, <1>2, <1>3, <1>4, <1>5, <1>6, <1>7

\* Appending a job that a queue does not hold keeps it without repetitions.
LEMMA AppendJob ==
  ASSUME NEW S, NEW q \in Seq(S), NEW x \in S, x \notin ToSet(q), Distinct(q)
  PROVE  /\ Append(q, x) \in Seq(S)
         /\ Distinct(Append(q, x))
         /\ ToSet(Append(q, x)) = ToSet(q) \cup {x}
<1> DEFINE a == Append(q, x)
<1>1. /\ a \in Seq(S) /\ Len(q) \in Nat /\ Len(a) = Len(q) + 1
      /\ \A i \in 1 .. Len(q) : a[i] = q[i]
      /\ a[Len(q) + 1] = x
  OBVIOUS
<1> HIDE DEF a
<1>2. ToSet(q) = {q[i] : i \in 1 .. Len(q)} /\ ToSet(a) = {a[i] : i \in 1 .. Len(a)}
  BY <1>1 DEF ToSet
<1>3. \A i \in 1 .. Len(a) : i \in 1 .. Len(q) \/ i = Len(q) + 1
  BY <1>1
<1>4. 1 .. Len(q) \subseteq 1 .. Len(a) /\ Len(q) + 1 \in 1 .. Len(a)
  BY <1>1
<1>5. ToSet(a) = ToSet(q) \cup {x}
  <2>1. ToSet(a) \subseteq ToSet(q) \cup {x}
    BY <1>1, <1>2, <1>3
  <2>2. ToSet(q) \subseteq ToSet(a) /\ x \in ToSet(a)
    BY <1>1, <1>2, <1>4
  <2> QED
    BY <2>1, <2>2
<1>6. \A i \in 1 .. Len(q) : q[i] # x
  BY <1>2
<1>7. Distinct(a)
  BY <1>1, <1>3, <1>6 DEF Distinct
<1> QED
  BY <1>1, <1>5, <1>7 DEF a

\* passed_tests + skipped_tests == total_tests says that every test has passed or
\* was skipped: the two counts are of disjoint sets of tests.
LEMMA VerdictsCount ==
  ASSUME Types, jobs = Len(tests)
  PROVE  Number("PASS") + Number("SKIP") = jobs
           <=> \A j \in Job : counted[j] \in {"PASS", "SKIP"}
<1> DEFINE P == {j \in Job : counted[j] = "PASS"}
           S == {j \in Job : counted[j] = "SKIP"}
<1>1. IsFiniteSet(Job) /\ Cardinality(Job) = jobs /\ jobs \in Nat
  BY JobInterval
<1>2. P \subseteq Job /\ S \subseteq Job /\ P \cap S = {} /\ P \cup S \subseteq Job
  OBVIOUS
<1>3. (\A j \in Job : counted[j] \in {"PASS", "SKIP"}) <=> P \cup S = Job
  OBVIOUS
<1> HIDE DEF P, S
<1>4. IsFiniteSet(P) /\ IsFiniteSet(S) /\ IsFiniteSet(P \cup S)
  BY <1>1, <1>2, FS_Subset
<1>5. Cardinality(P \cap S) = 0
  BY <1>2, FS_EmptySet
<1>6. Cardinality(P \cup S) = Cardinality(P) + Cardinality(S) - Cardinality(P \cap S)
  BY <1>4, FS_Union
<1>7. Cardinality(P) \in Nat /\ Cardinality(S) \in Nat
  BY <1>4, FS_CardinalityType
<1>8. Cardinality(P \cup S) = Cardinality(P) + Cardinality(S)
  BY <1>5, <1>6, <1>7
<1>9. P \cup S = Job <=> Cardinality(P \cup S) = Cardinality(Job)
  BY <1>1, <1>2, FS_Subset
<1> QED
  BY <1>1, <1>3, <1>8, <1>9 DEF Number, P, S

\* When as many jobs are counted as there are tests, every test is counted.
LEMMA AllCounted ==
  ASSUME Types, jobs = Len(tests), Cardinality(Counted) = jobs
  PROVE  Counted = Job
<1>1. Counted \subseteq Job
  BY DEF Counted
<1> QED
  BY <1>1, JobInterval, FS_Subset

-----------------------------------------------------------------------------
(* The worker threads.                                                       *)

\* A worker that keeps its job leaves every job where it is.
LEMMA KeepsJob ==
  ASSUME Inv, NEW w \in Worker, NEW x \in At \ {"get", "ended"}, worker[w].job # None,
         worker' = [worker EXCEPT ![w].at = x],
         UNCHANGED <<tests, main, jobs, queueVars, counted, results, status>>
  PROVE  /\ worker' \in [Worker -> [at : At, job : {None} \cup 1 .. jobs]]
         /\ worker'[w].at = x
         /\ \A v \in Worker : worker'[v].job = worker[v].job
         /\ \A v \in Worker \ {w} : worker'[v] = worker[v]
         /\ \A v \in Worker : worker'[v].job = None <=> worker'[v].at \in {"get", "ended"}
         /\ OnePlace'
         /\ Progress'
<1>1. worker \in [Worker -> [at : At, job : {None} \cup 1 .. jobs]]
  BY DEF Inv, Types
<1>2. /\ worker' \in [Worker -> [at : At, job : {None} \cup 1 .. jobs]]
      /\ worker'[w].at = x
      /\ \A v \in Worker : worker'[v].job = worker[v].job
      /\ \A v \in Worker \ {w} : worker'[v] = worker[v]
  BY <1>1
<1>3. \A v \in Worker : worker'[v].job = None <=> worker'[v].at \in {"get", "ended"}
  BY <1>2 DEF Inv, Types
<1>4. UNCHANGED <<input_queue, output_queue>> /\ Counted' = Counted
  BY DEF queueVars, Counted, Job
<1>5. OnePlace'
  BY <1>2, <1>4 DEF Inv, OnePlace, Distinct
<1>6. Progress'
  BY <1>4 DEF Inv, Progress, Job
<1> QED
  BY <1>2, <1>3, <1>5, <1>6

\* A worker that hands its job back moves it to the output queue.
LEMMA GivesJob ==
  ASSUME Inv, NEW w \in Worker, worker[w].job # None,
         worker' = [worker EXCEPT ![w] = Idle],
         output_queue' = Append(output_queue, worker[w].job),
         UNCHANGED <<tests, main, jobs, input_queue, counted, results, status>>
  PROVE  /\ worker' \in [Worker -> [at : At, job : {None} \cup 1 .. jobs]]
         /\ worker'[w] = Idle
         /\ \A v \in Worker \ {w} : worker'[v] = worker[v]
         /\ \A v \in Worker : worker'[v].job = None <=> worker'[v].at \in {"get", "ended"}
         /\ output_queue' \in Seq(1 .. jobs)
         /\ ToSet(output_queue') = ToSet(output_queue) \cup {worker[w].job}
         /\ worker[w].job \in 1 .. jobs
         /\ OnePlace'
         /\ Progress'
<1> DEFINE j == worker[w].job
<1>1. worker \in [Worker -> [at : At, job : {None} \cup 1 .. jobs]]
  BY DEF Inv, Types
<1>2. j \in 1 .. jobs /\ j \notin ToSet(input_queue) \cup ToSet(output_queue)
  BY <1>1 DEF Inv, OnePlace
<1>3. /\ worker' \in [Worker -> [at : At, job : {None} \cup 1 .. jobs]]
      /\ worker'[w] = Idle /\ worker'[w].job = None
      /\ \A v \in Worker \ {w} : worker'[v] = worker[v]
  BY <1>1 DEF Idle, At
<1>4. \A v \in Worker : worker'[v].job = None <=> worker'[v].at \in {"get", "ended"}
  BY <1>3 DEF Inv, Types, Idle
<1> HIDE DEF j
<1>5. /\ output_queue' \in Seq(1 .. jobs)
      /\ Distinct(output_queue')
      /\ ToSet(output_queue') = ToSet(output_queue) \cup {j}
  <2> DEFINE J == 1 .. jobs
  <2>1. /\ output_queue \in Seq(J) /\ j \in J
        /\ Distinct(output_queue) /\ j \notin ToSet(output_queue)
    BY <1>2 DEF Inv, Types, OnePlace
  <2>2. output_queue' = Append(output_queue, j)
    BY DEF j
  <2> HIDE DEF J
  <2>3. /\ Append(output_queue, j) \in Seq(J)
        /\ Distinct(Append(output_queue, j))
        /\ ToSet(Append(output_queue, j)) = ToSet(output_queue) \cup {j}
    BY <2>1, AppendJob
  <2> QED
    BY <2>2, <2>3 DEF J
<1>6. Counted' = Counted
  BY DEF Counted, Job
<1>7. OnePlace'
  <2>1. Distinct(input_queue')
    BY DEF Inv, OnePlace
  <2>2. ToSet(input_queue') \cap ToSet(output_queue') = {}
    BY <1>2, <1>5 DEF Inv, OnePlace
  <2>3. None \notin ToSet(input_queue) \cup ToSet(output_queue')
    <3>1. None \notin Nat /\ jobs \in Nat
      BY JobInterval DEF Inv
    <3>2. input_queue \in Seq({Break} \cup 1 .. jobs)
      BY DEF Inv, Types
    <3>3. ToSet(input_queue) \subseteq Nat
      BY <3>1, <3>2 DEF ToSet, Break
    <3>4. ToSet(output_queue') \subseteq Nat
      BY <3>1, <1>5 DEF ToSet
    <3> QED
      BY <3>1, <3>3, <3>4
  <2>4. ASSUME NEW v \in Worker
        PROVE  /\ worker'[v].job \notin ToSet(input_queue') \cup ToSet(output_queue')
               /\ \A u \in Worker : (u # v /\ worker'[v].job # None) => worker'[u].job # worker'[v].job
    <3>1. CASE v = w
      BY <1>3, <2>3, <3>1
    <3>2. CASE v # w
      BY <1>3, <1>5, <3>2 DEF Inv, OnePlace, j
    <3> QED
      BY <3>1, <3>2
  <2>5. ASSUME NEW i \in Counted
        PROVE  /\ i \in 1 .. jobs
               /\ i \notin ToSet(input_queue') \cup ToSet(output_queue')
               /\ \A v \in Worker : worker'[v].job # i
    <3>1. i \in 1 .. jobs /\ i \notin ToSet(input_queue) \cup ToSet(output_queue) /\ i # j
      BY DEF Inv, OnePlace, j
    <3>2. i # None
      BY <3>1, JobInterval DEF Inv
    <3>3. \A v \in Worker : worker'[v].job # i
      BY <1>3, <3>2 DEF Inv, OnePlace
    <3> QED
      BY <1>5, <3>1, <3>3
  <2> QED
    BY <1>5, <1>6, <2>1, <2>2, <2>4, <2>5 DEF OnePlace
<1>8. Progress'
  BY <1>6 DEF Inv, Progress, Job
<1> QED
  BY <1>2, <1>3, <1>4, <1>5, <1>7, <1>8 DEF j

\* A worker takes the first job of the input queue, or ends.
LEMMA TakeStep ==
  ASSUME Inv, NEW w \in Worker, Take(w)
  PROVE  Inv'
<1> DEFINE j == Head(input_queue)
           J == {Break} \cup 1 .. jobs
           new == IF j = Break THEN [at |-> "ended", job |-> None] ELSE [at |-> "look", job |-> j]
<1>1. /\ UNCHANGED <<options, tests, is_break, returncode, tmp_file, ended, main, jobs, counted,
                     results, report, status, thread_exit, signalled, output_queue, late>>
      /\ worker[w] = Idle
      /\ input_queue # <<>> /\ input_queue' = Tail(input_queue)
      /\ worker' = [worker EXCEPT ![w] = new]
  BY DEF Take, inputVars, jobVars, mainVars, signalVars
<1>2. /\ worker \in [Worker -> [at : At, job : {None} \cup 1 .. jobs]]
      /\ input_queue \in Seq(J)
      /\ Distinct(input_queue)
  BY DEF Inv, Types, OnePlace
<1>3. None \notin Nat /\ jobs \in Nat
  BY JobInterval DEF Inv
<1> HIDE DEF J, j
<1>4. /\ input_queue' \in Seq(J)
      /\ Distinct(input_queue')
      /\ j \in ToSet(input_queue) /\ j \in J
      /\ ToSet(input_queue') \subseteq ToSet(input_queue)
      /\ j # Break => j \notin ToSet(input_queue')
  <2>1. /\ Tail(input_queue) \in Seq(J)
        /\ Distinct(Tail(input_queue))
        /\ j \in ToSet(input_queue) /\ j \in J
        /\ ToSet(Tail(input_queue)) \subseteq ToSet(input_queue)
        /\ j # Break => j \notin ToSet(Tail(input_queue))
    BY <1>1, <1>2, TailJobs DEF j
  <2> QED
    BY <1>1, <2>1
<1>5. /\ worker' \in [Worker -> [at : At, job : {None} \cup 1 .. jobs]]
      /\ worker'[w] = new
      /\ \A v \in Worker \ {w} : worker'[v] = worker[v]
      /\ new.at \in {"ended", "look"}
      /\ new.job = None <=> new.at = "ended"
      /\ new.job # None => new.job = j /\ j # Break
  <2>1. j # Break => j \in 1 .. jobs /\ j # None
    BY <1>3, <1>4 DEF J
  <2>2. new \in [at : At, job : {None} \cup 1 .. jobs]
    BY <2>1 DEF At
  <2> QED
    BY <1>1, <1>2, <2>1, <2>2
<1> HIDE DEF new
<1>6. Types'
  <2>1. \A v \in Worker : worker'[v].job = None <=> worker'[v].at \in {"get", "ended"}
    BY <1>5 DEF Inv, Types
  <2> QED
    BY <1>1, <1>4, <1>5, <2>1 DEF Inv, Types, Job, J
<1>7. Counted' = Counted
  BY <1>1 DEF Counted, Job
<1>8. OnePlace'
  <2>0. None \notin ToSet(input_queue) \cup ToSet(output_queue)
    BY <1>1 DEF Inv, OnePlace, Idle
  <2>1. ASSUME NEW v \in Worker
        PROVE  /\ worker'[v].job \notin ToSet(input_queue') \cup ToSet(output_queue)
               /\ \A u \in Worker : (u # v /\ worker'[v].job # None) => worker'[u].job # worker'[v].job
    <3>1. j \notin ToSet(output_queue)
      BY <1>4 DEF Inv, OnePlace
    <3>2. \A u \in Worker : worker[u].job # j
      BY <1>4 DEF Inv, OnePlace
    <3>3. CASE v = w
      BY <1>4, <1>5, <2>0, <3>1, <3>2, <3>3
    <3>4. CASE v # w
      BY <1>4, <1>5, <3>2, <3>4 DEF Inv, OnePlace
    <3> QED
      BY <3>3, <3>4
  <2>2. ASSUME NEW i \in Counted
        PROVE  /\ i \in 1 .. jobs
               /\ i \notin ToSet(input_queue') \cup ToSet(output_queue)
               /\ \A v \in Worker : worker'[v].job # i
    <3>1. /\ i \in 1 .. jobs /\ i \notin ToSet(input_queue) \cup ToSet(output_queue)
          /\ i # j /\ i # None
      BY <1>3, <1>4 DEF Inv, OnePlace
    <3>2. \A v \in Worker : worker'[v].job # i
      BY <1>5, <3>1 DEF Inv, OnePlace
    <3> QED
      BY <1>4, <3>1, <3>2
  <2>3. ToSet(input_queue') \cap ToSet(output_queue) = {} /\ Distinct(output_queue)
    BY <1>4 DEF Inv, OnePlace
  <2> QED
    BY <1>1, <1>4, <1>7, <2>1, <2>2, <2>3 DEF OnePlace
<1>9. Evidence'
  BY <1>1, <1>5 DEF Inv, Evidence, Job, is_skip
<1>10. Progress' /\ Interrupts'
  BY <1>1, <1>5, <1>7 DEF Inv, Progress, Job, Interrupts
<1> QED
  BY <1>6, <1>8, <1>9, <1>10 DEF Inv

\* A job is handed back: marked after a SIGINT, as it is when to be skipped, or
\* when its child has ended.
LEMMA HandBackStep ==
  ASSUME Inv, NEW w \in Worker, Interrupted(w) \/ Skip(w) \/ HandBack(w)
  PROVE  Inv'
<1> DEFINE j == worker[w].job
<1>1. /\ UNCHANGED <<options, tests, returncode, tmp_file, ended, main, jobs, counted,
                     results, report, status, thread_exit, signalled, input_queue, late>>
      /\ worker[w].at \in {"look", "put"}
      /\ worker' = [worker EXCEPT ![w] = Idle]
      /\ output_queue' = Append(output_queue, j)
  BY DEF Interrupted, Skip, HandBack, inputVars, jobVars, mainVars, signalVars
<1>2. j # None
  BY <1>1 DEF Inv, Types
<1>3. /\ worker' \in [Worker -> [at : At, job : {None} \cup 1 .. jobs]]
      /\ worker'[w] = Idle
      /\ \A v \in Worker \ {w} : worker'[v] = worker[v]
      /\ \A v \in Worker : worker'[v].job = None <=> worker'[v].at \in {"get", "ended"}
      /\ output_queue' \in Seq(1 .. jobs)
      /\ ToSet(output_queue') = ToSet(output_queue) \cup {j}
      /\ j \in 1 .. jobs
      /\ OnePlace'
      /\ Progress'
  BY <1>1, <1>2, GivesJob
<1>4. j \in Job
  BY <1>3, JobInterval DEF Inv
<1>5. /\ is_break' \in [Job -> BOOLEAN]
      /\ \A i \in Job : is_break[i] => is_break'[i]
      /\ is_break'[j] \/ is_skip(j) \/ ended[j] # None
  <2>1. is_break \in [Job -> BOOLEAN]
    BY DEF Inv, Types
  <2>2. CASE Interrupted(w)
    BY <1>4, <2>1, <2>2 DEF Interrupted
  <2>3. CASE Skip(w)
    BY <2>1, <2>3 DEF Skip, jobVars
  <2>4. CASE HandBack(w)
    <3>1. UNCHANGED is_break /\ ended[j] # None
      BY <2>4 DEF HandBack, jobVars, Inv, Evidence
    <3> QED
      BY <2>1, <3>1
  <2> QED
    BY <2>2, <2>3, <2>4
<1> HIDE DEF j
<1>6. Types'
  BY <1>1, <1>3, <1>5 DEF Inv, Types, Job
<1>7. Evidence'
  <2>1. ToSet(output_queue) \subseteq Job
    BY QueuesHoldJobs DEF Inv
  <2>2. \A i \in ToSet(output_queue') : is_break'[i] \/ is_skip(i)' \/ ended'[i] # None
    BY <1>1, <1>3, <1>5, <2>1 DEF Inv, Evidence, is_skip
  <2>3. \A v \in Worker : worker'[v].at = "put" => ended'[worker'[v].job] # None
    BY <1>1, <1>3 DEF Inv, Evidence, Idle
  <2>4. \A i \in Job : counted'[i] = "SKIP" => is_skip(i)'
    BY <1>1 DEF Inv, Evidence, is_skip
  <2> QED
    BY <1>1, <2>2, <2>3, <2>4 DEF Inv, Evidence, Job
<1>8. Interrupts'
  BY <1>1, <1>3 DEF Inv, Interrupts, Idle
<1> QED
  BY <1>3, <1>6, <1>7, <1>8 DEF Inv

\* A worker decides to run its job, launches the child, or is lost over it.
LEMMA LaunchStep ==
  ASSUME Inv, NEW w \in Worker, GoAhead(w) \/ Launch(w) \/ LaunchFails(w)
  PROVE  Inv'
<1>1. PICK x \in At \ {"get", "ended", "put"} : worker' = [worker EXCEPT ![w].at = x]
  BY DEF GoAhead, Launch, LaunchFails, At
<1>2. /\ UNCHANGED <<options, tests, is_break, returncode, tmp_file, ended, main, jobs, counted,
                     results, report, status, thread_exit, signalled, queueVars>>
      /\ UNCHANGED <<input_queue, output_queue>>
      /\ worker[w].at \in {"look", "launch"}
  BY DEF GoAhead, Launch, LaunchFails, inputVars, jobVars, mainVars, signalVars, queueVars
<1>3. worker[w].job # None
  BY <1>2 DEF Inv, Types
<1>4. /\ worker' \in [Worker -> [at : At, job : {None} \cup 1 .. jobs]]
      /\ worker'[w].at = x
      /\ \A v \in Worker : worker'[v].job = worker[v].job
      /\ \A v \in Worker \ {w} : worker'[v] = worker[v]
      /\ \A v \in Worker : worker'[v].job = None <=> worker'[v].at \in {"get", "ended"}
      /\ OnePlace'
      /\ Progress'
  BY <1>1, <1>2, <1>3, KeepsJob
<1>5. Types'
  BY <1>2, <1>4 DEF Inv, Types, Job
<1>6. Evidence'
  <2>1. \A i : is_skip(i)' <=> is_skip(i)
    BY <1>2 DEF is_skip
  <2>2. \A v \in Worker : worker'[v].at = "put" => ended'[worker'[v].job] # None
    BY <1>2, <1>4 DEF Inv, Evidence
  <2>3. \A i \in ToSet(output_queue) : is_break[i] \/ is_skip(i)' \/ ended[i] # None
    BY <1>2 DEF Inv, Evidence, is_skip
  <2>4. \A i \in Job : counted'[i] = "SKIP" => is_skip(i)'
    BY <1>2 DEF Inv, Evidence, is_skip
  <2> QED
    BY <1>2, <2>2, <2>3, <2>4 DEF Inv, Evidence, Job
<1>7. Interrupts'
  <2>1. /\ late \in [Worker -> {0, 1}] /\ signalled = thread_exit /\ thread_exit \in BOOLEAN
        /\ \A v \in Worker : (~ signalled \/ worker[v].at = "launch") => late[v] = 0
    BY DEF Inv, Interrupts
  <2>2. CASE GoAhead(w)
    <3>1. ~ signalled /\ UNCHANGED <<signalled, late, thread_exit>>
      BY <2>1, <2>2 DEF GoAhead, signalVars
    <3> QED
      BY <2>1, <3>1 DEF Interrupts
  <2>3. CASE Launch(w)
    <3>1. late[w] = 0 /\ worker'[w].at = "run"
      BY <1>4, <2>1, <2>3 DEF Launch, Inv, Types
    <3>2. /\ late' \in [Worker -> {0, 1}]
          /\ \A v \in Worker \ {w} : late'[v] = late[v]
          /\ ~ signalled => late' = late
      BY <2>1, <2>3, <3>1 DEF Launch
    <3> QED
      BY <1>2, <1>4, <2>1, <3>1, <3>2 DEF Interrupts
  <2>4. CASE LaunchFails(w)
    <3>1. UNCHANGED late /\ worker'[w].at = "lost"
      BY <1>4, <2>4 DEF LaunchFails, Inv, Types
    <3> QED
      BY <1>2, <1>4, <2>1, <3>1 DEF Interrupts
  <2> QED
    BY <2>2, <2>3, <2>4
<1> QED
  BY <1>4, <1>5, <1>6, <1>7 DEF Inv

\* The child ends.  Its job is with this worker only, so that it has no verdict
\* and is not handed back yet.
LEMMA ChildEndsStep ==
  ASSUME Inv, NEW w \in Worker, run_job_synchronously(w)
  PROVE  Inv'
<1> DEFINE j == worker[w].job
<1>1. PICK e \in ChildEnd(j) :
           /\ ended' = [ended EXCEPT ![j] = e]
           /\ returncode' = [returncode EXCEPT ![j] = IF e.decodable THEN e.rc ELSE 1]
           /\ tmp_file' = [tmp_file EXCEPT ![j] = e.file]
  BY DEF run_job_synchronously
<1>2. /\ UNCHANGED <<options, tests, is_break, main, jobs, counted,
                     results, report, status, thread_exit, signalled, queueVars, late>>
      /\ UNCHANGED <<input_queue, output_queue>>
      /\ worker[w].at = "run"
      /\ worker' = [worker EXCEPT ![w].at = "put"]
  BY DEF run_job_synchronously, inputVars, mainVars, signalVars, queueVars
<1>3. j # None
  BY <1>2 DEF Inv, Types
<1>4. /\ worker' \in [Worker -> [at : At, job : {None} \cup 1 .. jobs]]
      /\ worker'[w].at = "put"
      /\ \A v \in Worker : worker'[v].job = worker[v].job
      /\ \A v \in Worker \ {w} : worker'[v] = worker[v]
      /\ \A v \in Worker : worker'[v].job = None <=> worker'[v].at \in {"get", "ended"}
      /\ OnePlace'
      /\ Progress'
  BY <1>2, <1>3, KeepsJob DEF At
<1>5. j \in Job /\ j \notin Counted /\ j \notin ToSet(output_queue)
  <2>1. j \in 1 .. jobs
    BY <1>3 DEF Inv, Types
  <2> QED
    BY <2>1, JobInterval DEF Inv, OnePlace
<1>6. e \in Ended
  BY DEF ChildEnd, Ended, File
<1>7. e # None
  <2>1. e \in [rc : Nat, file : File, decodable : BOOLEAN]
    BY <1>6 DEF Ended
  <2> QED
    BY <2>1, RunnerAssumption
<1>p. e.file = "partial" => e.rc = 139
  BY DEF ChildEnd
<1> HIDE DEF j
<1>8. /\ ended' \in [Job -> {None} \cup Ended]
      /\ ended'[j] = e
      /\ \A i \in Job \ {j} : ended'[i] = ended[i]
  BY <1>1, <1>5, <1>6 DEF Inv, Types
<1>9. /\ returncode' \in [Job -> {0, 1, 2, 139}]
      /\ returncode'[j] = IF e.decodable THEN e.rc ELSE 1
      /\ \A i \in Job \ {j} : returncode'[i] = returncode[i]
  <2>1. (IF e.decodable THEN e.rc ELSE 1) \in {0, 1, 2, 139}
    BY <1>6 DEF Ended
  <2> QED
    BY <1>1, <1>5, <2>1 DEF Inv, Types
<1>10. /\ tmp_file' \in [Job -> File]
       /\ tmp_file'[j] = e.file
       /\ \A i \in Job \ {j} : tmp_file'[i] = tmp_file[i]
  <2>1. e.file \in File
    BY <1>6 DEF Ended
  <2> QED
    BY <1>1, <1>5, <2>1 DEF Inv, Types
<1>11. Types'
  BY <1>2, <1>4, <1>8, <1>9, <1>10 DEF Inv, Types, Job
<1>12. Evidence'
  <2>1. \A i \in Job : ended'[i] # None =>
          /\ returncode'[i] = IF ended'[i].decodable THEN ended'[i].rc ELSE 1
          /\ tmp_file'[i] = "partial" => ended'[i].rc = 139
    BY <1>8, <1>9, <1>10, <1>p DEF Inv, Evidence
  <2>2. ASSUME NEW v \in Worker, worker'[v].at = "put"
        PROVE  ended'[worker'[v].job] # None
    <3>1. CASE v = w
      BY <1>4, <1>7, <1>8, <3>1 DEF j
    <3>2. CASE v # w
      <4>1. worker'[v] = worker[v] /\ worker[v].at = "put"
        BY <1>4, <2>2, <3>2
      <4>2. worker[v].job \in Job /\ worker[v].job # j
        <5>1. worker[v].job # None
          BY <4>1 DEF Inv, Types
        <5>2. worker[v].job \in 1 .. jobs
          BY <5>1 DEF Inv, Types
        <5> QED
          BY <3>2, <5>1, <5>2, JobInterval DEF Inv, OnePlace, j
      <4>3. ended[worker[v].job] # None
        BY <4>1 DEF Inv, Evidence
      <4> QED
        BY <1>8, <4>1, <4>2, <4>3
    <3> QED
      BY <3>1, <3>2
  <2>3. ASSUME NEW i \in ToSet(output_queue)
        PROVE  is_break[i] \/ is_skip(i)' \/ ended'[i] # None
    <3>1. i \in Job /\ i # j
      BY <1>5, QueuesHoldJobs DEF Inv
    <3> QED
      BY <1>2, <1>8, <3>1 DEF Inv, Evidence, is_skip
  <2>4. ASSUME NEW i \in Job
        PROVE  /\ counted[i] = "PASS" => ended'[i] # None /\ ended'[i].rc = 0
               /\ counted[i] = "SKIP" => is_skip(i)'
    <3>1. counted[i] = "PASS" => i # j
      BY <1>5, RunnerAssumption DEF Counted, Status
    <3> QED
      BY <1>2, <1>8, <3>1 DEF Inv, Evidence, is_skip
  <2> QED
    BY <1>2, <2>1, <2>2, <2>3, <2>4 DEF Evidence, Job
<1>13. Interrupts'
  BY <1>2, <1>4 DEF Inv, Interrupts
<1> QED
  BY <1>4, <1>11, <1>12, <1>13 DEF Inv

-----------------------------------------------------------------------------
(* The main thread and the signal handler.                                   *)

\* A job that is dispatched was nowhere before; break jobs come behind them all.
LEMMA DispatchStep ==
  ASSUME Inv, Dispatch
  PROVE  Inv'
<1>1. /\ UNCHANGED <<options, tests, is_break, returncode, tmp_file, ended, counted, results,
                     report, status, thread_exit, signalled, output_queue, worker, late>>
      /\ main = "dispatch"
  BY DEF Dispatch, inputVars, jobVars, signalVars
<1>2. /\ jobs \in Nat /\ Len(tests) \in Nat /\ None \notin Nat
      /\ jobs <= Len(tests)
  BY JobInterval DEF Inv, Types
<1>3. Counted' = Counted
  BY <1>1 DEF Counted, Job
<1>4. Evidence' /\ Interrupts'
  BY <1>1 DEF Inv, Evidence, Interrupts, Job, is_skip
<1>5. CASE jobs < Len(tests) /\ input_queue' = Append(input_queue, jobs + 1) /\ jobs' = jobs + 1
             /\ UNCHANGED main
  <2> DEFINE K == {Break} \cup 1 .. jobs + 1
  <2>1. /\ ToSet(input_queue) \subseteq {Break} \cup 1 .. jobs
        /\ ToSet(output_queue) \subseteq 1 .. jobs
    BY QueuesHoldJobs DEF Inv
  <2>2. /\ jobs + 1 \notin ToSet(input_queue) /\ jobs + 1 \notin ToSet(output_queue)
        /\ \A w \in Worker : worker[w].job # jobs + 1
        /\ jobs + 1 \notin Counted
    <3>1. jobs + 1 \notin 1 .. jobs /\ jobs + 1 # Break /\ jobs + 1 # None
      BY <1>2 DEF Break
    <3>2. \A w \in Worker : worker[w].job \in {None} \cup 1 .. jobs
      BY DEF Inv, Types
    <3>3. Counted \subseteq 1 .. jobs
      BY DEF Inv, OnePlace
    <3> QED
      BY <2>1, <3>1, <3>2, <3>3
  <2>3. {Break} \cup 1 .. jobs \subseteq K /\ jobs + 1 \in K
    BY <1>2
  <2>4. input_queue \in Seq(K)
    <3> DEFINE J == {Break} \cup 1 .. jobs
    <3>1. input_queue \in Seq(J) /\ J \subseteq K
      BY <2>3 DEF Inv, Types
    <3> HIDE DEF J, K
    <3> QED
      BY <3>1
  <2>5. /\ input_queue' \in Seq(K)
        /\ Distinct(input_queue')
        /\ ToSet(input_queue') = ToSet(input_queue) \cup {jobs + 1}
    <3> DEFINE x == jobs + 1
    <3>1. x \in K /\ x \notin ToSet(input_queue) /\ Distinct(input_queue)
      BY <2>2, <2>3 DEF Inv, OnePlace
    <3> HIDE DEF x, K
    <3>2. /\ Append(input_queue, x) \in Seq(K)
          /\ Distinct(Append(input_queue, x))
          /\ ToSet(Append(input_queue, x)) = ToSet(input_queue) \cup {x}
      BY <2>4, <3>1, AppendJob
    <3> QED
      BY <1>5, <3>2 DEF x
  <2>6. output_queue \in Seq(1 .. jobs + 1)
    <3> DEFINE J == 1 .. jobs
               L == 1 .. jobs + 1
    <3>1. output_queue \in Seq(J) /\ J \subseteq L
      BY <1>2 DEF Inv, Types
    <3> HIDE DEF J, L
    <3>2. output_queue \in Seq(L)
      BY <3>1
    <3> QED
      BY <3>2 DEF L
  <2>7. worker \in [Worker -> [at : At, job : {None} \cup 1 .. jobs + 1]]
    <3>1. worker \in [Worker -> [at : At, job : {None} \cup 1 .. jobs]]
      BY DEF Inv, Types
    <3>2. {None} \cup 1 .. jobs \subseteq {None} \cup 1 .. jobs + 1
      BY <1>2
    <3> QED
      BY <3>1, <3>2
  <2>8. jobs + 1 \in 0 .. Len(tests)
    BY <1>2, <1>5
  <2>9. Types'
    BY <1>1, <1>5, <2>5, <2>6, <2>7, <2>8 DEF Inv, Types, Job
  <2>10. OnePlace'
    <3>1. 1 .. jobs \subseteq 1 .. jobs'
      BY <1>2, <1>5
    <3>2. ToSet(input_queue') \cap ToSet(output_queue) = {}
      BY <2>2, <2>5 DEF Inv, OnePlace
    <3>3. \A w \in Worker : worker[w].job \notin ToSet(input_queue') \cup ToSet(output_queue)
      BY <2>2, <2>5 DEF Inv, OnePlace
    <3>4. \A j \in Counted : /\ j \in 1 .. jobs'
                             /\ j \notin ToSet(input_queue') \cup ToSet(output_queue)
      BY <2>2, <2>5, <3>1 DEF Inv, OnePlace
    <3> QED
      BY <1>1, <1>3, <2>5, <3>2, <3>3, <3>4 DEF Inv, OnePlace
  <2>11. Progress'
    BY <1>1, <1>3, <1>5 DEF Inv, Progress, Job
  <2> QED
    BY <1>4, <2>9, <2>10, <2>11 DEF Inv
<1>6. CASE jobs = Len(tests) /\ main' = "collect" /\ UNCHANGED jobs
             /\ input_queue' = input_queue \o [i \in 1 .. Cardinality(Worker) |-> Break]
  <2> DEFINE J == {Break} \cup 1 .. jobs
             z == [i \in 1 .. Cardinality(Worker) |-> Break]
  <2>1. Cardinality(Worker) \in Nat
    BY RunnerAssumption, FS_CardinalityType
  <2>2. input_queue \in Seq(J) /\ Len(input_queue) \in Nat
    BY DEF Inv, Types
  <2>3. z \in Seq(J) /\ Len(z) = Cardinality(Worker) /\ \A i \in 1 .. Len(z) : z[i] = Break
    BY <2>1
  <2> HIDE DEF J, z
  <2>4. /\ input_queue' \in Seq(J)
        /\ Len(input_queue') = Len(input_queue) + Len(z)
        /\ \A i \in 1 .. Len(input_queue) : input_queue'[i] = input_queue[i]
        /\ \A i \in 1 .. Len(z) : input_queue'[Len(input_queue) + i] = z[i]
    <3>1. /\ input_queue \o z \in Seq(J)
          /\ Len(input_queue \o z) = Len(input_queue) + Len(z)
          /\ \A i \in 1 .. Len(input_queue) : (input_queue \o z)[i] = input_queue[i]
          /\ \A i \in 1 .. Len(z) : (input_queue \o z)[Len(input_queue) + i] = z[i]
      BY <2>1, <2>2, <2>3
    <3>2. input_queue' = input_queue \o z
      BY <1>6 DEF z
    <3> QED
      BY <3>1, <3>2
  <2>5. ASSUME NEW i \in 1 .. Len(input_queue')
        PROVE  \/ i \in 1 .. Len(input_queue) /\ input_queue'[i] = input_queue[i]
               \/ input_queue'[i] = Break
    <3>1. CASE i <= Len(input_queue)
      BY <2>2, <2>4, <3>1
    <3>2. CASE ~ (i <= Len(input_queue))
      <4>1. i - Len(input_queue) \in 1 .. Len(z)
        BY <2>1, <2>2, <2>3, <2>4, <3>2
      <4>2. input_queue'[Len(input_queue) + (i - Len(input_queue))] = Break
        BY <2>3, <2>4, <4>1
      <4>3. Len(input_queue) + (i - Len(input_queue)) = i
        BY <2>2, <2>4
      <4> QED
        BY <4>2, <4>3
    <3> QED
      BY <3>1, <3>2
  <2>6. Distinct(input_queue')
    BY <2>5 DEF Inv, OnePlace, Distinct
  <2>7. ToSet(input_queue') \subseteq ToSet(input_queue) \cup {Break}
    <3>1. \A q \in Seq(J) : ToSet(q) = {q[i] : i \in 1 .. Len(q)}
      BY DEF ToSet
    <3>2. /\ ToSet(input_queue') = {input_queue'[i] : i \in 1 .. Len(input_queue')}
          /\ ToSet(input_queue) = {input_queue[i] : i \in 1 .. Len(input_queue)}
      BY <2>2, <2>4, <3>1
    <3> QED
      BY <2>5, <3>2
  <2>8. Types'
    BY <1>1, <1>6, <2>4 DEF Inv, Types, Job, J
  <2>9. OnePlace'
    <3>1. Break \notin ToSet(output_queue) /\ Break \notin Counted
      <4>1. Break \notin 1 .. jobs
        BY <1>2 DEF Break
      <4> QED
        BY <4>1, QueuesHoldJobs DEF Inv, OnePlace
    <3>2. \A w \in Worker : worker[w].job # Break
      BY <1>2 DEF Inv, Types, Break
    <3> QED
      BY <1>1, <1>3, <1>6, <2>6, <2>7, <3>1, <3>2 DEF Inv, OnePlace
  <2>10. Progress'
    BY <1>1, <1>3, <1>6 DEF Inv, Progress, Job
  <2> QED
    BY <1>4, <2>8, <2>9, <2>10 DEF Inv
<1> QED
  BY <1>5, <1>6 DEF Dispatch

\* What the main thread counts a job as: a pass needs exit status 0 of a job that
\* was neither handed back by an interrupted worker nor to be skipped.
LEMMA StatusOfJob ==
  ASSUME Types, NEW j \in Job
  PROVE  /\ StatusOf(j) \in Status
         /\ StatusOf(j) = "PASS" => ~ is_break[j] /\ ~ is_skip(j) /\ returncode[j] = 0
         /\ StatusOf(j) = "SKIP" => is_skip(j)
<1>1. returncode[j] \in {0, 1, 2, 139}
  BY DEF Types
<1>2. CASE is_break[j]
  BY <1>2 DEF StatusOf, Status
<1>3. CASE ~ is_break[j] /\ is_skip(j)
  BY <1>3 DEF StatusOf, Status
<1>4. CASE ~ is_break[j] /\ ~ is_skip(j)
  BY <1>1, <1>4 DEF StatusOf, Status
<1> QED
  BY <1>2, <1>3, <1>4

\* The main thread counts the first job of the output queue.  It had no verdict.
LEMMA CollectFacts ==
  ASSUME Inv, Collect
  PROVE  /\ Head(output_queue) \in Job
         /\ counted[Head(output_queue)] = None
         /\ counted' = [counted EXCEPT ![Head(output_queue)] = StatusOf(Head(output_queue))]
         /\ status = None /\ status' \in {None, 1}
<1>1. /\ output_queue # <<>> /\ main = "collect" /\ (status' = status \/ status' = 1)
      /\ counted' = [counted EXCEPT ![Head(output_queue)] = StatusOf(Head(output_queue))]
  BY DEF Collect
<1>2. Head(output_queue) \in ToSet(output_queue)
  <2> DEFINE O == 1 .. jobs
  <2>1. output_queue \in Seq(O) /\ Distinct(output_queue)
    BY DEF Inv, Types, OnePlace
  <2> HIDE DEF O
  <2> QED
    BY <1>1, <2>1, TailJobs
<1>3. Head(output_queue) \in Job
  BY <1>2, QueuesHoldJobs DEF Inv
<1>4. counted[Head(output_queue)] = None
  BY <1>2, <1>3 DEF Inv, OnePlace, Counted
<1>5. status = None
  BY <1>1 DEF Inv, Progress
<1> QED
  BY <1>1, <1>3, <1>4, <1>5

\* Counting a job moves it out of the output queue with a verdict that what
\* became of it supports.
LEMMA CollectStep ==
  ASSUME Inv, Collect
  PROVE  Inv'
<1> DEFINE j == Head(output_queue)
           O == 1 .. jobs
<1>1. /\ UNCHANGED <<options, tests, is_break, returncode, tmp_file, ended, thread_exit, signalled,
                     worker, late, input_queue, jobs, report>>
      /\ main = "collect" /\ main' \in {"collect", "raised"}
      /\ output_queue # <<>> /\ output_queue' = Tail(output_queue)
  BY DEF Collect, inputVars, jobVars, signalVars
<1>2. /\ j \in Job /\ counted[j] = None
      /\ counted' = [counted EXCEPT ![j] = StatusOf(j)]
      /\ status = None /\ status' \in {None, 1}
  BY CollectFacts
<1>3. /\ StatusOf(j) \in Status
      /\ StatusOf(j) = "PASS" => ~ is_break[j] /\ ~ is_skip(j) /\ returncode[j] = 0
      /\ StatusOf(j) = "SKIP" => is_skip(j)
  BY <1>2, StatusOfJob DEF Inv
<1> HIDE DEF j
<1>4. /\ output_queue' \in Seq(1 .. jobs)
      /\ Distinct(output_queue')
      /\ j \in ToSet(output_queue)
      /\ j \in 1 .. jobs
      /\ ToSet(output_queue') \subseteq ToSet(output_queue)
      /\ j \notin ToSet(output_queue')
  <2>1. output_queue \in Seq(O) /\ Distinct(output_queue)
    BY DEF Inv, Types, OnePlace
  <2> HIDE DEF O
  <2>2. /\ Tail(output_queue) \in Seq(O)
        /\ Distinct(Tail(output_queue))
        /\ j \in ToSet(output_queue) /\ j \in O
        /\ ToSet(Tail(output_queue)) \subseteq ToSet(output_queue)
        /\ j # Break => j \notin ToSet(Tail(output_queue))
    BY <1>1, <2>1, TailJobs DEF j
  <2>3. j # Break
    BY <2>2, JobInterval DEF O, Break, Inv
  <2> QED
    BY <1>1, <2>2, <2>3 DEF O
<1>5. /\ counted' \in [Job -> {None} \cup Status]
      /\ counted'[j] = StatusOf(j)
      /\ \A i \in Job \ {j} : counted'[i] = counted[i]
  BY <1>2, <1>3 DEF Inv, Types
<1>6. Counted' \subseteq Counted \cup {j}
  BY <1>1, <1>5 DEF Counted, Job
<1>7. Types'
  BY <1>1, <1>2, <1>4, <1>5 DEF Inv, Types, Job
<1>8. OnePlace'
  <2>1. ASSUME NEW i \in Counted'
        PROVE  /\ i \in 1 .. jobs
               /\ i \notin ToSet(input_queue) \cup ToSet(output_queue')
               /\ \A w \in Worker : worker[w].job # i
    <3>1. CASE i = j
      BY <1>4, <3>1 DEF Inv, OnePlace
    <3>2. CASE i \in Counted
      BY <1>4, <3>2 DEF Inv, OnePlace
    <3> QED
      BY <1>6, <3>1, <3>2
  <2> QED
    BY <1>1, <1>4, <2>1 DEF Inv, OnePlace
<1>9. Evidence'
  <2>1. \A i \in ToSet(output_queue') : is_break[i] \/ is_skip(i)' \/ ended[i] # None
    BY <1>1, <1>4 DEF Inv, Evidence, is_skip
  <2>2. StatusOf(j) = "PASS" => ended[j] # None /\ ended[j].rc = 0
    <3>1. StatusOf(j) = "PASS" => ended[j] # None
      BY <1>3, <1>4 DEF Inv, Evidence
    <3>2. ended[j] # None => returncode[j] = IF ended[j].decodable THEN ended[j].rc ELSE 1
      BY <1>2 DEF Inv, Evidence
    <3> QED
      BY <1>3, <3>1, <3>2
  <2>3. ASSUME NEW i \in Job
        PROVE  /\ counted'[i] = "PASS" => ended[i] # None /\ ended[i].rc = 0
               /\ counted'[i] = "SKIP" => is_skip(i)'
    <3>1. CASE i = j
      BY <1>1, <1>3, <1>5, <2>2, <3>1 DEF is_skip
    <3>2. CASE i # j
      BY <1>1, <1>5, <3>2 DEF Inv, Evidence, is_skip
    <3> QED
      BY <3>1, <3>2
  <2> QED
    BY <1>1, <2>1, <2>3 DEF Inv, Evidence, Job
<1>10. Progress'
  <2>1. main' = "collect" => status' = None
    BY <1>1, <1>2 DEF Collect
  <2>2. status' # 0
    BY <1>2, JobInterval DEF Inv
  <2> QED
    BY <1>1, <2>1, <2>2 DEF Inv, Progress
<1>11. Interrupts'
  BY <1>1 DEF Inv, Interrupts
<1> QED
  BY <1>7, <1>8, <1>9, <1>10, <1>11 DEF Inv

\* The workers are joined when every test has a verdict; the exit status follows
\* from the verdicts.
LEMMA FinishStep ==
  ASSUME Inv, JoinAll \/ Finish \/ ParseFails
  PROVE  Inv'
<1>1. /\ UNCHANGED <<options, tests, is_break, returncode, tmp_file, ended, thread_exit, signalled,
                     worker, late, input_queue, output_queue, jobs, counted>>
      /\ main' \in {"finish", "done", "raised"}
      /\ status' \in {status, 0, 1}
      /\ main \in {"collect", "finish"}
  BY DEF JoinAll, Finish, ParseFails, inputVars, jobVars, signalVars, queueVars
<1>2. status = None /\ jobs = Len(tests)
  BY <1>1 DEF Inv, Progress
<1>3. Types'
  BY <1>1, <1>2 DEF Inv, Types, Job
<1>4. Counted' = Counted
  BY <1>1 DEF Counted, Job
<1>5. OnePlace'
  BY <1>1, <1>4 DEF Inv, OnePlace
<1>6. Evidence' /\ Interrupts'
  BY <1>1 DEF Inv, Evidence, Interrupts, Job, is_skip
<1>7. CASE JoinAll
  <2>1. Counted = Job /\ status' = None /\ main' = "finish"
    BY <1>2, <1>7, AllCounted DEF JoinAll, Inv
  <2>2. None # 0
    BY JobInterval DEF Inv
  <2>3. Progress'
    BY <1>1, <1>2, <1>4, <2>1, <2>2 DEF Progress, Job
  <2> QED
    BY <1>3, <1>5, <1>6, <2>3 DEF Inv
<1>8. CASE Finish
  <2>1. status' = 0 => \A j \in Job : counted[j] \in {"PASS", "SKIP"}
    BY <1>2, <1>8, VerdictsCount DEF Finish, Inv
  <2>2. main' = "done"
    BY <1>8 DEF Finish
  <2>3. Progress'
    BY <1>1, <1>2, <2>1, <2>2 DEF Progress, Job
  <2> QED
    BY <1>3, <1>5, <1>6, <2>3 DEF Inv
<1>9. CASE ParseFails
  <2>1. main' = "raised" /\ status' = 1
    BY <1>9 DEF ParseFails
  <2>2. Progress'
    BY <1>1, <1>2, <2>1 DEF Progress, Job
  <2> QED
    BY <1>3, <1>5, <1>6, <2>2 DEF Inv
<1> QED
  BY <1>7, <1>8, <1>9

\* sigint_hook may run at any time.
LEMMA HookStep ==
  ASSUME Inv, sigint_hook
  PROVE  Inv'
<1>1. /\ UNCHANGED <<options, tests, is_break, returncode, tmp_file, ended, main, jobs, counted,
                     results, report, status, input_queue, output_queue, worker, late>>
      /\ ~ signalled /\ signalled' = TRUE /\ thread_exit' = TRUE
  BY DEF sigint_hook, inputVars, jobVars, mainVars, queueVars
<1>2. Types'
  BY <1>1 DEF Inv, Types, Job
<1>3. Counted' = Counted
  BY <1>1 DEF Counted, Job
<1>4. OnePlace' /\ Progress'
  BY <1>1, <1>3 DEF Inv, OnePlace, Progress, Job
<1>5. Evidence'
  BY <1>1 DEF Inv, Evidence, Job, is_skip
<1>6. Interrupts'
  BY <1>1 DEF Inv, Interrupts
<1> QED
  BY <1>2, <1>4, <1>5, <1>6 DEF Inv

-----------------------------------------------------------------------------
(* The theorems.                                                             *)

\* At the start no job is anywhere.
LEMMA InvInit == Init => Inv
<1> SUFFICES ASSUME Init
             PROVE  Inv
  OBVIOUS
<1>1. tests \in Seq(Test) /\ Len(tests) \in Nat
  BY RunnerAssumption DEF Init
<1>2. Types
  BY <1>1 DEF Init, Types, Idle, At, Break, File, Job
<1>3. ToSet(input_queue) = {} /\ ToSet(output_queue) = {} /\ Counted = {}
  BY DEF Init, ToSet, Counted, Job
<1>4. OnePlace
  BY <1>3 DEF Init, OnePlace, Distinct, Idle
<1>5. Evidence
  <2>1. None # "PASS" /\ None # "SKIP"
    BY RunnerAssumption DEF Status
  <2> QED
    BY <1>3, <2>1 DEF Init, Evidence, Idle, Job
<1>6. Progress /\ Interrupts
  <2>1. None # 0
    BY RunnerAssumption
  <2> QED
    BY <2>1 DEF Init, Progress, Interrupts
<1> QED
  BY <1>2, <1>4, <1>5, <1>6 DEF Inv

\* Every step of the main thread, of a worker and of the signal handler keeps the
\* inductive invariant.
LEMMA InvNext == Inv /\ [Next]_vars => Inv'
<1> SUFFICES ASSUME Inv, [Next]_vars
             PROVE  Inv'
  OBVIOUS
<1>1. CASE Dispatch
  BY <1>1, DispatchStep
<1>2. CASE Collect
  BY <1>2, CollectStep
<1>3. CASE JoinAll \/ Finish \/ ParseFails
  BY <1>3, FinishStep
<1>4. CASE sigint_hook
  BY <1>4, HookStep
<1>5. ASSUME NEW w \in Worker, run(w)
      PROVE  Inv'
  <2>1. CASE Take(w)
    BY <2>1, TakeStep
  <2>2. CASE Interrupted(w) \/ Skip(w) \/ HandBack(w)
    BY <2>2, HandBackStep
  <2>3. CASE GoAhead(w) \/ Launch(w) \/ LaunchFails(w)
    BY <2>3, LaunchStep
  <2>4. CASE run_job_synchronously(w)
    BY <2>4, ChildEndsStep
  <2> QED
    BY <1>5, <2>1, <2>2, <2>3, <2>4 DEF run
<1>6. CASE UNCHANGED vars
  <2>1. UNCHANGED <<options, tests, is_break, returncode, tmp_file, ended, main, jobs, counted,
                    results, report, status, input_queue, output_queue, thread_exit, signalled,
                    worker, late>>
    BY <1>6 DEF vars, inputVars, jobVars, mainVars, queueVars, signalVars
  <2>2. Counted' = Counted
    BY <2>1 DEF Counted, Job
  <2>3. Types' /\ Interrupts'
    BY <2>1 DEF Inv, Types, Job, Interrupts
  <2>4. OnePlace' /\ Progress'
    BY <2>1, <2>2 DEF Inv, OnePlace, Progress, Job
  <2>5. Evidence'
    BY <2>1 DEF Inv, Evidence, Job, is_skip
  <2> QED
    BY <2>3, <2>4, <2>5 DEF Inv
<1> QED
  BY <1>1, <1>2, <1>3, <1>4, <1>5, <1>6 DEF Next, run_tests

\* The inductive invariant holds in every reachable state of test.py.
LEMMA InvAlways == Spec => []Inv
BY InvInit, InvNext, PTL DEF Spec

\* The checked properties follow from the inductive invariant.
LEMMA InvImplies == Inv => TypeOK /\ SuccessMeansPassed /\ InterruptStops
<1> SUFFICES ASSUME Inv
             PROVE  TypeOK /\ SuccessMeansPassed /\ InterruptStops
  OBVIOUS
<1>1. TypeOK
  <2>1. /\ ToSet(input_queue) \subseteq {Break} \cup 1 .. jobs
        /\ ToSet(output_queue) \subseteq 1 .. jobs
    BY QueuesHoldJobs DEF Inv
  <2>2. \A w \in Worker : /\ worker[w].at \in {"get", "look", "launch", "run", "put", "ended", "lost"}
                          /\ worker[w].job \in {None} \cup 1 .. jobs
                          /\ late[w] \in Nat
    BY DEF Inv, Types, Interrupts, At
  <2>3. thread_exit \in BOOLEAN /\ signalled \in BOOLEAN
    BY DEF Inv, Interrupts
  <2> QED
    BY <2>1, <2>2, <2>3 DEF Inv, Types, TypeOK
<1>2. SuccessMeansPassed
  BY DEF Inv, Progress, Evidence, SuccessMeansPassed
<1>3. InterruptStops
  BY DEF Inv, Interrupts, InterruptStops
<1> QED
  BY <1>1, <1>2, <1>3

\* Type correctness of test.py's queues, threads and counters: the queues hold
\* jobs that were dispatched, for any number of tests and worker threads.
THEOREM RunnerTypeCorrect == Spec => []TypeOK
BY InvAlways, InvImplies, PTL

\* run_tests returns 0 only if every test that was not to be skipped has run and
\* its child really ended with 0, whatever was interrupted, unreadable or lost.
THEOREM SuccessMeansPassedAlways == Spec => []SuccessMeansPassed
BY InvAlways, InvImplies, PTL

\* After sigint_hook has set thread_exit, a worker launches at most the one child
\* it had already decided to run.
THEOREM InterruptStopsAlways == Spec => []InterruptStops
BY InvAlways, InvImplies, PTL

\* No test has a verdict and the program no exit status at the start.
LEMMA ReportInit == Init => Report!Init
<1> SUFFICES ASSUME Init
             PROVE  Report!Init
  OBVIOUS
<1>1. tests \in Seq(Test) /\ Len(tests) \in {Len(l) : l \in TestLists}
  BY RunnerAssumption DEF Init
<1>2. counted = [t \in 1 .. Len(tests) |-> None]
  BY <1>1 DEF Init, Job
<1> QED
  BY <1>1, <1>2 DEF Init, Report!Init

\* A turn of the collecting loop decides one test, Finish returns, and every other
\* step leaves verdicts and exit status alone.
LEMMA ReportNext == Inv /\ [Next]_vars => [Report!Next]_(Report!vars)
<1> SUFFICES ASSUME Inv, [Next]_vars
             PROVE  Report!Next \/ UNCHANGED <<counted, status>>
  BY DEF Report!vars
<1>0. DOMAIN counted = Job
  BY DEF Inv, Types
<1>1. CASE Collect
  <2> DEFINE j == Head(output_queue)
  <2>1. /\ j \in Job /\ counted[j] = None
        /\ counted' = [counted EXCEPT ![j] = StatusOf(j)]
        /\ status = None /\ status' \in {None, 1}
    BY <1>1, CollectFacts
  <2>2. StatusOf(j) \in Report!Verdict
    BY <2>1, StatusOfJob DEF Inv, Status, Report!Verdict
  <2> HIDE DEF j
  <2>3. Report!Decide(j)
    BY <2>1, <2>2 DEF Report!Decide
  <2> QED
    BY <1>0, <2>1, <2>3 DEF Report!Next
<1>2. CASE Finish
  <2>1. /\ status = None /\ jobs = Len(tests) /\ Counted = Job
        /\ UNCHANGED counted
        /\ status' = IF Number("PASS") + Number("SKIP") = jobs THEN 0 ELSE 1
    BY <1>2 DEF Finish, Inv, Progress
  <2>2. \A j \in Job : counted[j] # None
    BY <2>1 DEF Counted
  <2>3. Number("PASS") + Number("SKIP") = jobs <=> \A j \in Job : counted[j] \in {"PASS", "SKIP"}
    BY <2>1, VerdictsCount DEF Inv
  <2>4. Report!Return
    BY <1>0, <2>1, <2>2, <2>3 DEF Report!Return
  <2> QED
    BY <2>4 DEF Report!Next
<1>3. CASE Dispatch \/ JoinAll
  BY <1>3 DEF Dispatch, JoinAll
<1>4. CASE sigint_hook \/ \E w \in Worker : run(w)
  <2>1. UNCHANGED mainVars
    BY <1>4 DEF sigint_hook, run, Take, Interrupted, Skip, GoAhead, Launch, LaunchFails,
                run_job_synchronously, HandBack
  <2> QED
    BY <2>1 DEF mainVars
<1>5. CASE UNCHANGED vars
  BY <1>5 DEF vars, mainVars
<1>6. CASE ParseFails
  <2>1. /\ status = None /\ Counted = Job
        /\ UNCHANGED counted /\ status' = 1
    BY <1>6 DEF ParseFails, Inv, Progress
  <2>2. PICK j \in Job : FromFile(j) /\ tmp_file[j] = "partial"
    BY <1>6 DEF ParseFails, Unparsable
  <2>3. counted[j] # "PASS"
    BY <2>2 DEF Inv, Evidence
  <2>4. counted[j] # "SKIP"
    BY <2>2 DEF Inv, Evidence, FromFile, StatusOf
  <2>5. Report!Return
    BY <1>0, <2>1, <2>3, <2>4 DEF Report!Return, Counted
  <2> QED
    BY <2>5 DEF Report!Next
<1> QED
  BY <1>1, <1>2, <1>3, <1>4, <1>5, <1>6 DEF Next, run_tests

\* test.py implements its promise: every test gets one verdict, which never
\* changes, and the exit status is 0 if and only if all passed or were skipped on
\* purpose, whatever the threads do in between.
THEOREM RunnerImplementsReport == Spec => ImplementsReport
<1>1. Init => Report!Init
  BY ReportInit
<1>2. Inv /\ [Next]_vars => [Report!Next]_(Report!vars)
  BY ReportNext
<1> QED
  BY <1>1, <1>2, InvAlways, PTL DEF Spec, ImplementsReport, Report!Spec
-----------------------------------------------------------------------------
(* The report.  findall is a recursive function of the number of entries it  *)
(* has gone through.  That there is such a function, and what it has found    *)
(* after every entry, is shown by induction on that number.                  *)

Less == {ss \in Nat \X Nat : ss[1] < ss[2]}

\* A set that holds 0 and the successors of its members holds all numbers.
LEMMA Inductive ==
  ASSUME NEW S, 0 \in S, \A n \in Nat : n \in S => n + 1 \in S
  PROVE  Nat \subseteq S
<1> DEFINE T == Nat \ S
<1> SUFFICES ASSUME T # {} PROVE FALSE
  OBVIOUS
<1>1. IsWellFoundedOn(Less, Nat)
  BY NatLessThanWellFounded DEF OpToRel, Less
<1>2. T \subseteq Nat
  OBVIOUS
<1>3. PICK x \in T : \A y \in T : ~ (<<y, x>> \in Less)
  <2> HIDE DEF T
  <2> QED
    BY <1>1, <1>2, WFMin
<1>4. x \in Nat /\ x # 0 /\ x \notin S
  OBVIOUS
<1>5. x - 1 \in Nat /\ x - 1 < x /\ (x - 1) + 1 = x
  BY <1>4
<1>6. <<x - 1, x>> \in Less
  BY <1>4, <1>5 DEF Less
<1>7. x - 1 \in S
  BY <1>3, <1>5, <1>6
<1> QED
  BY <1>4, <1>5, <1>7

\* f holds what findall has found after each of the first n entries.
Finds(entries, kinds, n, f) ==
  f = [i \in 0 .. n |-> IF i = 0 THEN <<>> ELSE Find(entries, kinds, f[i - 1], i)]

LEMMA FindsExists ==
  ASSUME NEW entries, NEW kinds, NEW n \in Nat
  PROVE  \E f : Finds(entries, kinds, n, f)
<1> DEFINE S == {m \in Nat : \E f : Finds(entries, kinds, m, f)}
<1>1. 0 \in S
  <2> DEFINE f == [i \in 0 .. 0 |-> <<>>]
  <2>1. \A i \in 0 .. 0 : i = 0
    OBVIOUS
  <2>2. Finds(entries, kinds, 0, f)
    BY <2>1 DEF Finds
  <2> QED
    BY <2>2
<1>2. ASSUME NEW m \in Nat, m \in S PROVE m + 1 \in S
  <2>1. PICK f : Finds(entries, kinds, m, f)
    BY <1>2
  <2> DEFINE g == [i \in 0 .. m + 1 |->
                     IF i <= m THEN f[i] ELSE Find(entries, kinds, f[m], m + 1)]
  <2>2. \A i \in 0 .. m : f[i] = IF i = 0 THEN <<>> ELSE Find(entries, kinds, f[i - 1], i)
    BY <2>1 DEF Finds
  <2>3. ASSUME NEW i \in 0 .. m + 1
        PROVE  g[i] = IF i = 0 THEN <<>> ELSE Find(entries, kinds, g[i - 1], i)
    <3>1. CASE i = 0
      BY <2>2, <3>1
    <3>2. CASE i # 0 /\ i <= m
      <4>1. i \in 0 .. m /\ i - 1 \in 0 .. m + 1 /\ i - 1 <= m
        BY <3>2
      <4>2. g[i] = f[i] /\ g[i - 1] = f[i - 1]
        BY <3>2, <4>1
      <4> HIDE DEF g
      <4> QED
        BY <2>2, <3>2, <4>1, <4>2
    <3>3. CASE i = m + 1
      <4>1. ~ (i <= m) /\ i - 1 = m /\ m \in 0 .. m + 1 /\ m <= m /\ i # 0
        BY <3>3
      <4>2. g[i] = Find(entries, kinds, f[m], m + 1) /\ g[m] = f[m]
        BY <3>3, <4>1
      <4> HIDE DEF g
      <4> QED
        BY <3>3, <4>1, <4>2
    <3> QED
      BY <3>1, <3>2, <3>3
  <2>4. g = [i \in 0 .. m + 1 |-> g[i]]
    OBVIOUS
  <2> HIDE DEF g
  <2>5. Finds(entries, kinds, m + 1, g)
    BY <2>3, <2>4 DEF Finds
  <2> QED
    BY <2>5
<1> HIDE DEF S
<1>3. n \in S
  BY <1>1, <1>2, Inductive
<1> QED
  BY <1>3 DEF S

ResultEntry == [job : Job, result : Status \cup File]

\* q has one entry for job j, namely x.
Single(q, j, x) ==
  \E i \in 1 .. Len(q) : q[i] = x /\ \A k \in 1 .. Len(q) : q[k].job = j <=> k = i

Absent(q, j) == \A k \in 1 .. Len(q) : q[k].job # j

\* One turn of findall appends an entry or does not.
LEMMA FindTurn ==
  ASSUME NEW E, NEW q \in Seq(E), NEW x \in E, NEW j
  PROVE  /\ Append(q, x) \in Seq(E)
         /\ Absent(q, j) /\ x.job = j => Single(Append(q, x), j, x)
         /\ Absent(q, j) /\ x.job # j => Absent(Append(q, x), j)
         /\ \A y : Single(q, j, y) /\ x.job # j => Single(Append(q, x), j, y)
<1> DEFINE r == Append(q, x)
           n == Len(q)
<1>1. /\ n \in Nat /\ r \in Seq(E) /\ Len(r) = n + 1 /\ r[n + 1] = x
      /\ \A k \in 1 .. n : r[k] = q[k]
  OBVIOUS
<1>2. n = Len(q)
  OBVIOUS
<1> HIDE DEF r, n
<1>3. \A k \in 1 .. n + 1 : k \in 1 .. n \/ k = n + 1
  BY <1>1
<1>4. n + 1 \in 1 .. n + 1 /\ n + 1 \notin 1 .. n /\ 1 .. n \subseteq 1 .. n + 1
  BY <1>1
<1>5. ASSUME Absent(q, j), x.job = j PROVE Single(r, j, x)
  <2>1. \A k \in 1 .. Len(r) : r[k].job = j <=> k = n + 1
    BY <1>1, <1>2, <1>3, <1>4, <1>5 DEF Absent
  <2> QED
    BY <1>1, <1>4, <2>1 DEF Single
<1>6. ASSUME Absent(q, j), x.job # j PROVE Absent(r, j)
  BY <1>1, <1>2, <1>3, <1>6 DEF Absent
<1>7. ASSUME NEW y, Single(q, j, y), x.job # j PROVE Single(r, j, y)
  <2>1. PICK i \in 1 .. n : q[i] = y /\ \A k \in 1 .. n : q[k].job = j <=> k = i
    BY <1>2, <1>7 DEF Single
  <2>2. \A k \in 1 .. Len(r) : r[k].job = j <=> k = i
    BY <1>1, <1>3, <1>4, <1>7, <2>1
  <2> QED
    BY <1>1, <1>4, <2>1, <2>2 DEF Single
<1> QED
  BY <1>1, <1>5, <1>6, <1>7 DEF r

\* findall keeps the only entry for job j if it is of one of the kinds.
LEMMA FindAllOne ==
  ASSUME NEW entries \in Seq(ResultEntry), NEW j, NEW kinds,
         NEW m \in 1 .. Len(entries),
         \A k \in 1 .. Len(entries) : entries[k].job = j <=> k = m
  PROVE  /\ findall(entries, kinds) \in Seq(ResultEntry)
         /\ tests[j].kind \in kinds => Single(findall(entries, kinds), j, entries[m])
         /\ tests[j].kind \notin kinds => Absent(findall(entries, kinds), j)
<1> DEFINE E == ResultEntry
           N == Len(entries)
           Kept(q, n) ==
             /\ q \in Seq(E)
             /\ (tests[j].kind \in kinds /\ m <= n) => Single(q, j, entries[m])
             /\ (tests[j].kind \notin kinds \/ n < m) => Absent(q, j)
<1>1. /\ N \in Nat /\ entries \in Seq(E) /\ m \in 1 .. N
      /\ \A k \in 1 .. N : entries[k] \in E /\ (entries[k].job = j <=> k = m)
  OBVIOUS
<1>2. PICK f : Finds(entries, kinds, N, f) /\ findall(entries, kinds) = f[N]
  <2>1. \E f : f = [i \in 0 .. Len(entries) |->
                      IF i = 0 THEN <<>> ELSE Find(entries, kinds, f[i - 1], i)]
    <3>1. Len(entries) \in Nat
      OBVIOUS
    <3>2. \E f : Finds(entries, kinds, Len(entries), f)
      BY <3>1, FindsExists
    <3> QED
      BY <3>2 DEF Finds
  <2> QED
    BY <2>1 DEF findall, Finds
<1>3. \A i \in 0 .. N : f[i] = IF i = 0 THEN <<>> ELSE Find(entries, kinds, f[i - 1], i)
  BY <1>2 DEF Finds
<1> HIDE DEF E, N
<1> DEFINE S == {n \in Nat : n <= N => Kept(f[n], n)}
<1>4. 0 \in S
  <2>1. f[0] = <<>>
    BY <1>1, <1>3
  <2>2. <<>> \in Seq(E) /\ Absent(<<>>, j)
    BY DEF Absent
  <2>3. ~ (m <= 0)
    BY <1>1
  <2> QED
    BY <2>1, <2>2, <2>3
<1>5. ASSUME NEW n \in Nat, n \in S PROVE n + 1 \in S
  <2> SUFFICES ASSUME n + 1 <= N PROVE Kept(f[n + 1], n + 1)
    BY <1>5
  <2> DEFINE q == f[n]
             x == entries[n + 1]
  <2>1. n <= N /\ n + 1 \in 1 .. N /\ n + 1 \in 0 .. N /\ n + 1 # 0 /\ (n + 1) - 1 = n
    BY <1>1
  <2>2. Kept(q, n)
    BY <1>5, <2>1
  <2>3. f[n + 1] = Find(entries, kinds, q, n + 1)
    BY <1>3, <2>1
  <2>4. x \in E /\ (x.job = j <=> n + 1 = m)
    BY <1>1, <2>1
  <2>5. f[n + 1] = IF tests[x.job].kind \in kinds THEN Append(q, x) ELSE q
    BY <2>3 DEF Find
  <2>6. n + 1 = m => x = entries[m]
    OBVIOUS
  <2>7. /\ m \in Nat /\ n + 1 = m => n < m /\ m <= n + 1 /\ ~ (m <= n) /\ ~ (n + 1 < m)
        /\ n + 1 # m => ((m <= n + 1 <=> m <= n) /\ (n + 1 < m <=> n < m))
    BY <1>1
  <2>8. q \in Seq(E)
    BY <2>2
  <2> HIDE DEF q, x
  <2>9. CASE n + 1 = m
    <3>1. Absent(q, j) /\ x.job = j /\ x = entries[m]
      BY <1>1, <2>2, <2>4, <2>6, <2>7, <2>9
    <3>2. CASE tests[j].kind \in kinds
      <4>1. f[n + 1] = Append(q, x)
        BY <2>5, <3>1, <3>2
      <4>2. Append(q, x) \in Seq(E) /\ Single(Append(q, x), j, x)
        BY <2>4, <2>8, <3>1, FindTurn
      <4> QED
        BY <1>1, <2>7, <2>9, <3>1, <3>2, <4>1, <4>2
    <3>3. CASE tests[j].kind \notin kinds
      BY <2>5, <2>8, <3>1, <3>3
    <3> QED
      BY <3>2, <3>3
  <2>10. CASE n + 1 # m
    <3>1. x.job # j
      BY <2>4, <2>10
    <3>2. /\ Append(q, x) \in Seq(E)
          /\ Absent(q, j) => Absent(Append(q, x), j)
          /\ Single(q, j, entries[m]) => Single(Append(q, x), j, entries[m])
      BY <2>4, <2>8, <3>1, FindTurn
    <3>3. Kept(q, n + 1)
      BY <2>2, <2>7, <2>10
    <3>4. CASE tests[x.job].kind \in kinds
      <4>1. f[n + 1] = Append(q, x)
        BY <2>5, <3>4
      <4> QED
        BY <3>2, <3>3, <4>1
    <3>5. CASE tests[x.job].kind \notin kinds
      BY <2>5, <3>3, <3>5
    <3> QED
      BY <3>4, <3>5
  <2> QED
    BY <2>9, <2>10
<1>6. N \in S
  <2> HIDE DEF S
  <2> QED
    BY <1>1, <1>4, <1>5, Inductive
<1>7. Kept(f[N], N)
  BY <1>1, <1>6
<1>8. m <= N /\ ~ (N < m)
  BY <1>1
<1> QED
  BY <1>2, <1>7, <1>8 DEF E

\* Test j has one entry, which shows its status s if that is a crash or a skip.
ShownOnce(entries, j, s) ==
  \E i \in 1 .. Len(entries) :
    /\ \A k \in 1 .. Len(entries) : entries[k].job = j <=> k = i
    /\ s \in {"CRASH", "SKIP"} => entries[i].result = s

\* What is shown in results.xml is shown in the report.
LEMMA TranslateShows ==
  ASSUME Types, NEW entries \in Seq(ResultEntry), NEW j \in Job, NEW s, ShownOnce(entries, j, s)
  PROVE  ShownOnce(translate(entries), j, s)
<1> DEFINE E == ResultEntry
           a == findall(entries, {"suite"})
           b == findall(entries, {"example", "pyexample"})
           c == a \o b
<1>1. PICK m \in 1 .. Len(entries) :
        /\ \A k \in 1 .. Len(entries) : entries[k].job = j <=> k = m
        /\ s \in {"CRASH", "SKIP"} => entries[m].result = s
  BY DEF ShownOnce
<1>2. a \in Seq(E) /\ b \in Seq(E)
  BY <1>1, FindAllOne
<1>3. tests[j].kind \in {"suite", "example", "pyexample"}
  <2>1. tests \in Seq(Test)
    BY RunnerAssumption DEF Types
  <2>2. tests[j] \in Test
    BY <2>1 DEF Job
  <2> QED
    BY <2>2 DEF Test, Kind
<1>4. \/ Single(a, j, entries[m]) /\ Absent(b, j)
      \/ Absent(a, j) /\ Single(b, j, entries[m])
  <2>1. CASE tests[j].kind = "suite"
    <3>1. tests[j].kind \in {"suite"} /\ tests[j].kind \notin {"example", "pyexample"}
      BY <2>1
    <3> QED
      BY <1>1, <3>1, FindAllOne
  <2>2. CASE tests[j].kind # "suite"
    <3>1. tests[j].kind \notin {"suite"} /\ tests[j].kind \in {"example", "pyexample"}
      BY <1>3, <2>2
    <3> QED
      BY <1>1, <3>1, FindAllOne
  <2> QED
    BY <2>1, <2>2
<1>5. translate(entries) = c
  BY DEF translate
<1> DEFINE p == Len(a)
           q == Len(b)
<1> HIDE DEF E, a, b
<1>6. /\ p \in Nat /\ q \in Nat /\ Len(c) = p + q
      /\ \A k \in 1 .. p : c[k] = a[k]
      /\ \A k \in 1 .. q : c[p + k] = b[k]
  BY <1>2
<1>7. p = Len(a) /\ q = Len(b)
  OBVIOUS
<1> HIDE DEF p, q, c
<1>8. \A k \in 1 .. p + q : k \in 1 .. p \/ (k - p \in 1 .. q /\ k = p + (k - p))
  BY <1>6
<1>9. CASE Single(a, j, entries[m]) /\ Absent(b, j)
  <2>1. PICK i \in 1 .. p : a[i] = entries[m] /\ \A k \in 1 .. p : a[k].job = j <=> k = i
    BY <1>7, <1>9 DEF Single
  <2>2. ASSUME NEW k \in 1 .. p + q PROVE c[k].job = j <=> k = i
    <3>1. CASE k \in 1 .. p
      BY <1>6, <2>1, <3>1
    <3>2. CASE k - p \in 1 .. q /\ k = p + (k - p)
      <4>1. c[k] = b[k - p] /\ b[k - p].job # j
        BY <1>6, <1>7, <1>9, <3>2 DEF Absent
      <4>2. k # i
        BY <1>6, <3>2
      <4> QED
        BY <4>1, <4>2
    <3> QED
      BY <1>8, <3>1, <3>2
  <2>3. i \in 1 .. p + q /\ c[i] = entries[m]
    BY <1>6, <2>1
  <2> QED
    BY <1>1, <1>5, <1>6, <2>2, <2>3 DEF ShownOnce
<1>10. CASE Absent(a, j) /\ Single(b, j, entries[m])
  <2>1. PICK i \in 1 .. q : b[i] = entries[m] /\ \A k \in 1 .. q : b[k].job = j <=> k = i
    BY <1>7, <1>10 DEF Single
  <2>2. ASSUME NEW k \in 1 .. p + q PROVE c[k].job = j <=> k = p + i
    <3>1. CASE k \in 1 .. p
      <4>1. c[k] = a[k] /\ a[k].job # j
        BY <1>6, <1>7, <1>10, <3>1 DEF Absent
      <4>2. k # p + i
        BY <1>6, <3>1
      <4> QED
        BY <4>1, <4>2
    <3>2. CASE k - p \in 1 .. q /\ k = p + (k - p)
      <4>1. c[k] = b[k - p]
        BY <1>6, <3>2
      <4>2. k - p = i <=> k = p + i
        BY <1>6, <3>2
      <4> QED
        BY <2>1, <3>2, <4>1, <4>2
    <3> QED
      BY <1>8, <3>1, <3>2
  <2>3. p + i \in 1 .. p + q /\ c[p + i] = entries[m]
    BY <1>6, <2>1
  <2> QED
    BY <1>1, <1>5, <1>6, <2>2, <2>3 DEF ShownOnce
<1> QED
  BY <1>4, <1>9, <1>10

-----------------------------------------------------------------------------
(* The invariant that the report rests on.                                   *)

\* No job is marked broken without a signal, and a suite that ends without a
\* crash does not leave an empty file.
Children ==
  /\ ~ signalled => \A j \in Job : ~ is_break[j]
  /\ \A j \in Job : ended[j] # None =>
       /\ tmp_file[j] = ended[j].file
       /\ (tests[j].kind = "suite" /\ ended[j].rc # 139) => ended[j].file # "empty"

Readable(j) == ended[j] = None \/ ended[j].decodable

\* Up to the end of the loop results.xml has entries for counted jobs only, and
\* shows each that was run or skipped and whose output could be read.
Gathered ==
  main \in {"dispatch", "collect", "finish"} =>
    /\ report = None
    /\ results \in Seq(ResultEntry)
    /\ \A i \in 1 .. Len(results) : results[i].job \in Counted
    /\ \A j \in Counted :
         (~ is_break[j] /\ Readable(j)) => ShownOnce(results, j, counted[j])

AfterLoop ==
  /\ main = "raised" => report = None
  /\ main = "done" => Counted = Job

ReportInv == Inv /\ Children /\ Gathered /\ AfterLoop /\ ReportCoversAll

LEMMA ReportInvInit == Init => ReportInv
<1> SUFFICES ASSUME Init PROVE ReportInv
  OBVIOUS
<1>1. Inv
  BY InvInit
<1>2. Counted = {}
  BY DEF Init, Counted
<1>3. results = <<>> /\ report = None /\ main = "dispatch"
  BY DEF Init
<1>4. Gathered
  <2>1. results \in Seq(ResultEntry) /\ \A i \in 1 .. Len(results) : FALSE
    BY <1>3
  <2> QED
    BY <1>2, <1>3, <2>1 DEF Gathered
<1>5. Children
  BY DEF Init, Children
<1> QED
  BY <1>1, <1>3, <1>4, <1>5 DEF ReportInv, AfterLoop, ReportCoversAll

\* What a worker does to its own job, which nobody has counted, changes nothing
\* for the jobs that were.
LEMMA WorkersStep ==
  ASSUME ReportInv, NEW w \in Worker, run(w)
  PROVE  Children' /\ Gathered' /\ AfterLoop' /\ ReportCoversAll'
<1> DEFINE j == worker[w].job
<1>1. UNCHANGED <<options, tests, main, jobs, counted, results, report, status, thread_exit, signalled>>
  BY DEF run, Take, Interrupted, Skip, GoAhead, Launch, LaunchFails,
         run_job_synchronously, HandBack, inputVars, mainVars, signalVars
<1>2. Job' = Job /\ Counted' = Counted /\ ResultEntry' = ResultEntry
  BY <1>1 DEF Job, Counted, ResultEntry
<1>3. is_break \in [Job -> BOOLEAN] /\ ended \in [Job -> {None} \cup Ended] /\ tmp_file \in [Job -> File]
  BY DEF ReportInv, Inv, Types
<1>4. ASSUME \A i \in Counted : is_break'[i] = is_break[i] /\ ended'[i] = ended[i]
      PROVE  Gathered' /\ AfterLoop' /\ ReportCoversAll'
  <2>1. Gathered'
    BY <1>1, <1>2, <1>4 DEF ReportInv, Gathered, Readable, ShownOnce
  <2>2. AfterLoop'
    BY <1>1, <1>2 DEF ReportInv, AfterLoop
  <2>3. main \in {"dispatch", "collect", "finish", "raised", "done"}
    BY DEF ReportInv, Inv, Types
  <2>4. ASSUME report = None PROVE ReportCoversAll'
    BY <1>1, <2>4 DEF ReportCoversAll
  <2>5. ASSUME report # None PROVE ReportCoversAll'
    <3>1. main = "done" /\ Counted = Job
      BY <2>3, <2>5 DEF ReportInv, Gathered, AfterLoop
    <3> QED
      BY <1>1, <1>2, <1>4, <3>1 DEF ReportInv, ReportCoversAll, Shown
  <2> QED
    BY <2>1, <2>2, <2>4, <2>5
<1>5. CASE UNCHANGED jobVars
  <2>1. UNCHANGED <<is_break, tmp_file, ended>>
    BY <1>5 DEF jobVars
  <2>2. Children'
    BY <1>1, <1>2, <2>1 DEF ReportInv, Children
  <2> QED
    BY <1>4, <2>1, <2>2
<1>6. ASSUME j # None PROVE j \in Job /\ j \notin Counted
  <2>1. worker[w].job \in {None} \cup 1 .. jobs /\ 1 .. jobs \subseteq Job
    BY JobInterval DEF ReportInv, Inv, Types
  <2>2. \A i \in Counted : worker[w].job # i
    BY DEF ReportInv, Inv, OnePlace
  <2> QED
    BY <1>6, <2>1, <2>2
<1>7. worker[w].at \in {"look", "run"} => j # None
  BY DEF ReportInv, Inv, Types
<1>8. CASE Interrupted(w)
  <2>1. j \in Job /\ j \notin Counted /\ signalled
    BY <1>6, <1>7, <1>8 DEF Interrupted, ReportInv, Inv, Interrupts
  <2>2. is_break' = [is_break EXCEPT ![j] = TRUE] /\ UNCHANGED <<tmp_file, ended>>
    BY <1>8 DEF Interrupted
  <2>3. Children'
    BY <1>1, <1>2, <2>1, <2>2 DEF ReportInv, Children
  <2>4. \A i \in Counted : is_break'[i] = is_break[i] /\ ended'[i] = ended[i]
    BY <1>3, <2>1, <2>2 DEF Counted
  <2> QED
    BY <1>4, <2>3, <2>4
<1>9. CASE run_job_synchronously(w)
  <2>1. j \in Job /\ j \notin Counted
    BY <1>6, <1>7, <1>9 DEF run_job_synchronously
  <2>2. PICK e \in ChildEnd(j) : /\ ended' = [ended EXCEPT ![j] = e]
                                 /\ tmp_file' = [tmp_file EXCEPT ![j] = e.file]
    BY <1>9 DEF run_job_synchronously
  <2>3. UNCHANGED is_break
    BY <1>9 DEF run_job_synchronously
  <2>4. (tests[j].kind = "suite" /\ e.rc # 139) => e.file # "empty"
    BY DEF ChildEnd
  <2>5. Children'
    BY <1>1, <1>2, <1>3, <2>1, <2>2, <2>3, <2>4 DEF ReportInv, Children
  <2>6. \A i \in Counted : is_break'[i] = is_break[i] /\ ended'[i] = ended[i]
    BY <1>3, <2>1, <2>2, <2>3 DEF Counted
  <2> QED
    BY <1>4, <2>5, <2>6
<1> QED
  BY <1>5, <1>8, <1>9 DEF run, Take, Skip, GoAhead, Launch, LaunchFails, HandBack

\* The first job of the output queue gets its entry.  It had none.
LEMMA GatherStep ==
  ASSUME ReportInv, Collect
  PROVE  Gathered'
<1> DEFINE j == Head(output_queue)
           E == ResultEntry
<1>1. /\ j \in Job /\ counted[j] = None
      /\ counted' = [counted EXCEPT ![j] = StatusOf(j)]
  BY CollectFacts DEF ReportInv
<1>2. UNCHANGED <<options, tests, is_break, ended, tmp_file, report>> /\ main = "collect"
  BY DEF Collect, inputVars, jobVars
<1>3. /\ report = None /\ results \in Seq(E)
      /\ \A i \in 1 .. Len(results) : results[i].job \in Counted
      /\ \A i \in Counted : (~ is_break[i] /\ Readable(i)) => ShownOnce(results, i, counted[i])
  BY <1>2 DEF ReportInv, Gathered
<1>4. StatusOf(j) \in Status /\ None \notin Status
  BY <1>1, StatusOfJob, JobInterval DEF ReportInv, Inv
<1>5. counted \in [Job -> {None} \cup Status]
  BY DEF ReportInv, Inv, Types
<1>6. /\ Counted' = Counted \cup {j} /\ j \notin Counted
      /\ counted'[j] = StatusOf(j) /\ \A i \in Counted : counted'[i] = counted[i]
  BY <1>1, <1>2, <1>4, <1>5 DEF Counted, Job
<1>7. Job' = Job /\ ResultEntry' = E
  BY <1>2 DEF Job, ResultEntry
<1>8. \A i : Readable(i)' = Readable(i)
  BY <1>2 DEF Readable
<1>j. j \in ToSet(output_queue)
  <2>1. output_queue # <<>>
    BY DEF Collect
  <2> DEFINE O == 1 .. jobs
  <2>2. output_queue \in Seq(O) /\ Distinct(output_queue)
    BY DEF ReportInv, Inv, Types, OnePlace
  <2> HIDE DEF O
  <2> QED
    BY <2>1, <2>2, TailJobs
<1> HIDE DEF j, E
<1>9. CASE UNCHANGED results /\ (is_break[j] \/ ~ Readable(j))
  BY <1>2, <1>3, <1>6, <1>7, <1>8, <1>9 DEF Gathered, ShownOnce
<1>10. CASE main' = "raised"
  BY <1>10 DEF Gathered
<1>11. ASSUME NEW x \in E, x.job = j, results' = Append(results, x),
              StatusOf(j) \in {"CRASH", "SKIP"} => x.result = StatusOf(j)
       PROVE  Gathered'
  <2> DEFINE n == Len(results)
             r == results'
  <2>1. /\ n \in Nat /\ r \in Seq(E) /\ Len(r) = n + 1 /\ r[n + 1] = x
        /\ \A k \in 1 .. n : r[k] = results[k]
    BY <1>3, <1>11
  <2>n. n = Len(results)
    OBVIOUS
  <2>r. r = results'
    OBVIOUS
  <2> HIDE DEF n, r
  <2>2. \A k \in 1 .. n + 1 : k \in 1 .. n \/ k = n + 1
    BY <2>1
  <2>3. n + 1 \in 1 .. n + 1 /\ n + 1 \notin 1 .. n /\ 1 .. n \subseteq 1 .. n + 1
    BY <2>1
  <2>4. \A i \in 1 .. n : results[i].job \in Counted
    BY <1>3, <2>n
  <2>5. \A k \in 1 .. n + 1 : r[k].job = j <=> k = n + 1
    BY <1>6, <1>11, <2>1, <2>2, <2>3, <2>4
  <2>6. ShownOnce(r, j, StatusOf(j))
    BY <1>11, <2>1, <2>3, <2>5 DEF ShownOnce
  <2>7. ASSUME NEW i \in Counted, ~ is_break[i], Readable(i)
        PROVE  ShownOnce(r, i, counted[i])
    <3>1. PICK m \in 1 .. n :
            /\ \A k \in 1 .. n : results[k].job = i <=> k = m
            /\ counted[i] \in {"CRASH", "SKIP"} => results[m].result = counted[i]
      BY <1>3, <2>7, <2>n DEF ShownOnce
    <3>2. i # j
      BY <1>6
    <3>3. \A k \in 1 .. n + 1 : r[k].job = i <=> k = m
      BY <1>11, <2>1, <2>2, <2>3, <3>1, <3>2
    <3> QED
      BY <2>1, <2>3, <3>1, <3>3 DEF ShownOnce
  <2>8. \A i \in 1 .. Len(r) : r[i].job \in Counted'
    BY <1>6, <1>11, <2>1, <2>2, <2>4
  <2>9. \A i \in Counted' : (~ is_break'[i] /\ Readable(i)') => ShownOnce(r, i, counted'[i])
    BY <1>2, <1>6, <1>8, <2>6, <2>7
  <2>10. report' = None /\ results' \in Seq(ResultEntry')
    BY <1>2, <1>3, <1>7, <2>1, <2>r
  <2>11. \A i \in 1 .. Len(results') : results'[i].job \in Counted'
    BY <2>8, <2>r
  <2>12. \A i \in Counted' : (~ is_break'[i] /\ Readable(i)') => ShownOnce(results', i, counted'[i])
    BY <2>9, <2>r
  <2> QED
    BY <2>10, <2>11, <2>12 DEF Gathered
<1>12. CASE ~ is_break[j] /\ ~ (FromFile(j) /\ tmp_file[j] = "none") /\ results' = results \o EntriesOf(j)
  <2>1. tmp_file[j] \in File
    BY <1>1 DEF ReportInv, Inv, Types
  <2>2. ASSUME NEW x \in E PROVE results \o <<x>> = Append(results, x)
    BY <1>3, <2>2
  <2>3. CASE ~ FromFile(j)
    <3> DEFINE x == Entry(j, StatusOf(j))
    <3>1. x \in E /\ x.job = j /\ x.result = StatusOf(j)
      BY <1>1, <1>4 DEF Entry, E, ResultEntry
    <3>2. results' = results \o <<x>>
      BY <1>12, <2>3 DEF EntriesOf
    <3> HIDE DEF x
    <3> QED
      BY <1>11, <2>2, <3>1, <3>2
  <2>4. CASE FromFile(j) /\ tmp_file[j] # "empty"
    <3> DEFINE x == Entry(j, tmp_file[j])
    <3>1. x \in E /\ x.job = j
      BY <1>1, <2>1 DEF Entry, E, ResultEntry
    <3>2. results' = results \o <<x>>
      BY <1>12, <2>4 DEF EntriesOf
    <3>3. StatusOf(j) \notin {"CRASH", "SKIP"}
      BY <2>4 DEF FromFile
    <3> HIDE DEF x
    <3> QED
      BY <1>11, <2>2, <3>1, <3>2, <3>3
  <2>5. CASE FromFile(j) /\ tmp_file[j] = "empty"
    <3>1. results' = results \o <<>>
      BY <1>12, <2>5 DEF EntriesOf
    <3>2. results' = results
      BY <1>3, <3>1
    <3>3. tests[j].kind = "suite" /\ StatusOf(j) \in {"PASS", "FAIL", "VALGR"}
      BY <2>5 DEF FromFile
    <3>4. ~ is_skip(j) /\ returncode[j] \in {0, 1, 2}
      <4>1. returncode[j] \in {0, 1, 2, 139}
        BY <1>1 DEF ReportInv, Inv, Types
      <4> QED
        BY <1>12, <3>3, <4>1 DEF StatusOf
    <3>5. ended[j] # None
      BY <1>12, <1>j, <3>4 DEF ReportInv, Inv, Evidence
    <3>6. ended[j].rc = 139
      BY <1>1, <2>5, <3>3, <3>5 DEF ReportInv, Children
    <3>7. returncode[j] = IF ended[j].decodable THEN ended[j].rc ELSE 1
      BY <1>1, <3>5 DEF ReportInv, Inv, Evidence
    <3>8. ~ Readable(j)
      BY <3>4, <3>5, <3>6, <3>7 DEF Readable
    <3> QED
      BY <1>9, <3>2, <3>8
  <2> QED
    BY <2>3, <2>4, <2>5
<1> QED
  BY <1>9, <1>10, <1>12 DEF Collect, j

LEMMA ReportInvNext ==
  ASSUME ReportInv, Inv', [Next]_vars
  PROVE  ReportInv'
<1> SUFFICES Children' /\ Gathered' /\ AfterLoop' /\ ReportCoversAll'
  BY DEF ReportInv
<1>1. CASE Collect
  <2>1. /\ main = "collect" /\ main' \in {"collect", "raised"}
        /\ UNCHANGED <<options, tests, is_break, ended, tmp_file, report, signalled>>
    BY <1>1 DEF Collect, inputVars, jobVars, signalVars
  <2>2. report = None
    BY <2>1 DEF ReportInv, Gathered
  <2>3. Children'
    BY <2>1 DEF ReportInv, Children, Job
  <2>4. Gathered'
    BY <1>1, GatherStep
  <2> QED
    BY <2>1, <2>2, <2>3, <2>4 DEF AfterLoop, ReportCoversAll
<1>2. CASE Finish
  <2>1. /\ main = "finish" /\ main' = "done"
        /\ report' = IF options.report THEN translate(results) ELSE None
        /\ UNCHANGED <<options, tests, is_break, ended, tmp_file, signalled, counted>>
    BY <1>2 DEF Finish, inputVars, jobVars, signalVars
  <2>2. Counted = Job
    BY <2>1 DEF ReportInv, Inv, Progress
  <2>3. Children'
    BY <2>1 DEF ReportInv, Children, Job
  <2>4. Gathered' /\ AfterLoop'
    BY <2>1, <2>2 DEF Gathered, AfterLoop, Counted, Job
  <2>5. ASSUME report' # None, ~ signalled, NEW j \in Job, Readable(j)
        PROVE  ShownOnce(translate(results), j, counted[j])
    <3>1. results \in Seq(ResultEntry) /\ ~ is_break[j] /\ ShownOnce(results, j, counted[j])
      BY <2>1, <2>2, <2>5 DEF ReportInv, Gathered, Children
    <3> QED
      BY <3>1, TranslateShows DEF ReportInv, Inv
  <2>6. ReportCoversAll'
    <3> SUFFICES ASSUME report' # None, ~ signalled, NEW j \in Job, Readable(j)
                 PROVE  Shown(report, j, counted[j])'
      BY <2>1 DEF ReportCoversAll, Readable, Job
    <3>1. report' = translate(results)
      BY <2>1
    <3>2. Shown(translate(results), j, counted[j])
      BY <2>5 DEF ShownOnce, Shown
    <3>3. Shown(report', j, counted'[j])
      BY <2>1, <3>1, <3>2
    <3> QED
      BY <3>3 DEF Shown
  <2> QED
    BY <2>3, <2>4, <2>6
<1>3. CASE Dispatch \/ JoinAll
  <2>1. /\ main \in {"dispatch", "collect"} /\ main' \in {"dispatch", "collect", "finish"}
        /\ UNCHANGED <<options, tests, is_break, ended, tmp_file, report, signalled, counted, results>>
    BY <1>3 DEF Dispatch, JoinAll, inputVars, jobVars, signalVars
  <2>2. report = None
    BY <2>1 DEF ReportInv, Gathered
  <2>3. Children'
    BY <2>1 DEF ReportInv, Children, Job
  <2>4. Gathered'
    BY <2>1 DEF ReportInv, Gathered, ShownOnce, Readable, Counted, Job, ResultEntry
  <2> QED
    BY <2>1, <2>2, <2>3, <2>4 DEF AfterLoop, ReportCoversAll
<1>4. CASE sigint_hook
  <2>1. /\ signalled' = TRUE
        /\ UNCHANGED <<options, tests, main, is_break, ended, tmp_file, report, counted, results>>
    BY <1>4 DEF sigint_hook, inputVars, jobVars, mainVars
  <2>2. Children'
    BY <2>1 DEF ReportInv, Children, Job
  <2>3. Gathered'
    BY <2>1 DEF ReportInv, Gathered, ShownOnce, Readable, Counted, Job, ResultEntry
  <2>4. AfterLoop'
    BY <2>1 DEF ReportInv, AfterLoop, Counted, Job
  <2> QED
    BY <2>1, <2>2, <2>3, <2>4 DEF ReportCoversAll
<1>5. CASE \E w \in Worker : run(w)
  BY <1>5, WorkersStep
<1>6. CASE UNCHANGED vars
  <2>1. UNCHANGED <<options, tests, main, is_break, ended, tmp_file, report, signalled, counted, results>>
    BY <1>6 DEF vars, inputVars, jobVars, mainVars, signalVars
  <2>2. Children' /\ AfterLoop'
    BY <2>1 DEF ReportInv, Children, AfterLoop, Counted, Job
  <2>3. Gathered' /\ ReportCoversAll'
    BY <2>1 DEF ReportInv, Gathered, ReportCoversAll, ShownOnce, Shown, Readable, Counted, Job, ResultEntry
  <2> QED
    BY <2>2, <2>3
<1>7. CASE ParseFails
  <2>1. /\ main = "finish" /\ main' = "raised"
        /\ UNCHANGED <<options, tests, is_break, ended, tmp_file, report, signalled>>
    BY <1>7 DEF ParseFails, inputVars, jobVars, signalVars
  <2>2. report = None
    BY <2>1 DEF ReportInv, Gathered
  <2>3. Children'
    BY <2>1 DEF ReportInv, Children, Job
  <2> QED
    BY <2>1, <2>2, <2>3 DEF Gathered, AfterLoop, ReportCoversAll
<1> QED
  BY <1>1, <1>2, <1>3, <1>4, <1>5, <1>6, <1>7 DEF Next, run_tests

\* A report that test.py has written without an interrupt has an entry for every
\* test whose output could be read, only one where valgrind found nothing, and
\* shows crashes and skipped tests as such, in whatever order the workers handed
\* the jobs back.
THEOREM ReportCoversAllAlways == Spec => []ReportCoversAll
<1>1. ReportInv => ReportCoversAll
  BY DEF ReportInv
<1>2. ReportInv /\ Inv' /\ [Next]_vars => ReportInv'
  BY ReportInvNext
<1> QED
  BY <1>1, <1>2, ReportInvInit, InvAlways, PTL DEF Spec
=============================================================================
