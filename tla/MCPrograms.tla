------------------------------ MODULE MCPrograms ----------------------------
(* Instances of ThreadPrograms for TLC.                                    *)
EXTENDS ThreadPrograms

CONSTANTS fib, col, sub   \* threads

\* As init_threads creates them.
Three == <<fib, col, sub>>
Functions == [t \in Thread |->
  CASE t = fib -> "fibonacci" [] t = col -> "collatz" [] t = sub -> "max_subarray"]

Arguments(f, c, s) == [t \in Thread |-> CASE t = fib -> f [] t = col -> c [] t = sub -> s]

\* All loops end; or some have the argument 0 and no end within the ints.
SmallArgs == {Arguments(4, 1, 2), Arguments(0, 2, 3), Arguments(1, 0, 1)}

\* As those of sample_execution.sh: one below zero, one above.
Numbers == {-1, 2}
=============================================================================
