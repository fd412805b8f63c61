---------------------------- MODULE MCTestRunner ----------------------------
(***************************************************************************)
(* Instances of TestRunner: a suite, an example and a Python example in      *)
(* several combinations, on two worker threads.                              *)
(***************************************************************************)
EXTENDS TestRunner

CONSTANTS w1, w2

Suite   == [kind |-> "suite", novalgrind |-> FALSE, missing |-> FALSE]
Fragile == [kind |-> "suite", novalgrind |-> TRUE, missing |-> FALSE]
Nsc     == [kind |-> "suite", novalgrind |-> FALSE, missing |-> TRUE]
Example == [kind |-> "example", novalgrind |-> FALSE, missing |-> FALSE]
Script  == [kind |-> "pyexample", novalgrind |-> TRUE, missing |-> FALSE]

\* No test at all, fewer tests than workers, as many, and more.
SomeLists == {<<>>, <<Suite>>, <<Nsc, Suite>>, <<Suite, Nsc, Example>>, <<Fragile, Script>>}
\* A run with and without valgrind, a report and the temporary files.
SomeOptions == {[valgrind |-> TRUE, report |-> TRUE, retain |-> FALSE],
                [valgrind |-> FALSE, report |-> TRUE, retain |-> TRUE],
                [valgrind |-> FALSE, report |-> FALSE, retain |-> FALSE]}
OneSuite  == {<<Suite>>}
=============================================================================
