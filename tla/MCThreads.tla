------------------------------ MODULE MCThreads -----------------------------
(* Instances of UserThreads for TLC.                                       *)
EXTENDS ThreadsRefinement, TLC

CONSTANTS fib, col, sub, sum   \* threads

\* As init_threads creates them, and a second thread that reads.
Four == <<fib, col, sub, sum>>
=============================================================================
