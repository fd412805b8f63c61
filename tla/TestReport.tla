----------------------------- MODULE TestReport -----------------------------
(***************************************************************************)
(* What test.py promises its caller, whatever threads do the work: every    *)
(* test gets one verdict, which never changes, and the program says success  *)
(* only when every test has passed or was skipped on purpose.  A test that   *)
(* an interrupt kept from running has the verdict "broken".                  *)
(***************************************************************************)
EXTENDS Naturals

CONSTANTS
  Sizes,    \* how many tests may have been asked for
  Nothing   \* no verdict, no exit status yet

Verdict == {"PASS", "FAIL", "VALGR", "CRASH", "SKIP", "broken"}

VARIABLES
  verdict,  \* [test -> its verdict]
  status    \* the exit status of the program

vars == <<verdict, status>>

Init ==
  /\ \E n \in Sizes : verdict = [t \in 1 .. n |-> Nothing]
  /\ status = Nothing

\* A test gets its verdict; an exception while it is recorded ends the program,
\* with a status that is not that of success.
Decide(t) ==
  /\ status = Nothing
  /\ verdict[t] = Nothing
  /\ \E v \in Verdict : verdict' = [verdict EXCEPT ![t] = v]
  /\ status' \in {Nothing, 1}

\* Success, if and only if nothing went wrong.
Return ==
  /\ status = Nothing
  /\ \A t \in DOMAIN verdict : verdict[t] # Nothing
  /\ status' = IF \A t \in DOMAIN verdict : verdict[t] \in {"PASS", "SKIP"} THEN 0 ELSE 1
  /\ UNCHANGED verdict

Next == (\E t \in DOMAIN verdict : Decide(t)) \/ Return

Spec == Init /\ [][Next]_vars
=============================================================================
