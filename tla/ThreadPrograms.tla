---------------------------- MODULE ThreadPrograms --------------------------
(***************************************************************************)
(* The thread functions of hw3 (threads.c) on the thread library:          *)
(* fibonacci, collatz and max_subarray keep i, x and y in their thread's   *)
(* block across switches.  A call of thread_yield or thread_exit ends one  *)
(* pass of a function's loop; what the pass computes and prints happens    *)
(* in that step, since no other thread runs between the jump into the      *)
(* function and that call.                                                 *)
(***************************************************************************)
EXTENDS UserThreads, FiniteSets, Functions, FiniteSetsExt

CONSTANTS
  function,   \* the function each thread runs
  Args,       \* what the arguments of the threads may be
  Number,     \* the numbers a line of a FIFO may hold
  NoNumber,   \* a line that holds none, or the end of the stream
  Garbage,    \* what an uninitialised int may hold
  IntMax,     \* the largest int
  Kept        \* bound: lines of its output a thread's history keeps

ASSUME FunctionAssumption ==
  /\ function \in [Thread -> {"fibonacci", "collatz", "max_subarray"}]
  /\ Reader = {t \in Thread : function[t] = "max_subarray"}
ASSUME ArgsAssumption == Args \subseteq [Thread -> 0..IntMax]
ASSUME IntAssumption ==
  /\ IntMax \in Nat \ {0}
  /\ Number \subseteq Int
  /\ NoNumber \notin Number
  /\ Garbage \subseteq Int
  /\ Kept \in 0..IntMax

VARIABLES
  arg,      \* the argument of a thread
  i, x, y,  \* the three ints of its block; i is 0 before the first pass
  printed,  \* history: the first numbers it printed
  heard     \* history: the first lines it read

data == <<arg, i, x, y, printed, heard>>
varsPrograms == <<vars, data>>

-----------------------------------------------------------------------------
(* The loops.                                                              *)

\* Mutant: numbers are not ints.
Unbounded(n) == n

\* Ints wrap around, as they do in the build.
Wrap(n) == ((n + IntMax + 1) % (2 * (IntMax + 1))) - (IntMax + 1)

Note(history, t, value) ==
  IF Len(history[t]) < Kept THEN [history EXCEPT ![t] = Append(@, value)] ELSE history

Prints(t, n) == printed' = Note(printed, t, n)

\* Mutant: y is overwritten before x takes it over.
fibonacciOverwriting(t) ==
  /\ i' = [i EXCEPT ![t] = Wrap(@ + 1)]
  /\ y' = [y EXCEPT ![t] = IF i'[t] <= 2 THEN 1 ELSE Wrap(x[t] + @)]
  /\ x' = [x EXCEPT ![t] = y'[t]]
  /\ Prints(t, y'[t])
  /\ UNCHANGED heard

fibonacci(t) ==
  /\ i' = [i EXCEPT ![t] = Wrap(@ + 1)]
  /\ y' = [y EXCEPT ![t] = IF i'[t] <= 2 THEN 1 ELSE Wrap(x[t] + @)]
  /\ x' = [x EXCEPT ![t] = IF i'[t] <= 2 THEN 1 ELSE y[t]]
  /\ Prints(t, y'[t])
  /\ UNCHANGED heard

HalveOrTriple(n) == IF n % 2 = 0 THEN n \div 2 ELSE Wrap(Wrap(3 * n) + 1)

collatz(t) ==
  /\ i' = [i EXCEPT ![t] = HalveOrTriple(@)]
  /\ Prints(t, i'[t])
  /\ UNCHANGED <<x, y, heard>>

\* The read behind async_read finds a line, or the end of the stream.
Lines(t) == IF fifo[t] = "data" THEN Number \cup {NoNumber} ELSE {NoNumber}

\* sscanf sets curr if there is a number, and leaves it as it is if not.
Scanned(line) == IF line = NoNumber THEN Garbage ELSE {line}

\* The greatest sum that ends at this number, and the greatest so far.
Add(t, curr) ==
  LET sum == Wrap(y[t] + curr) IN
  /\ x' = [x EXCEPT ![t] = IF @ < sum THEN sum ELSE @]
  /\ y' = [y EXCEPT ![t] = IF sum < 0 THEN 0 ELSE sum]

max_subarray(t) ==
  /\ i' = [i EXCEPT ![t] = Wrap(@ + 1)]
  /\ \E line \in Lines(t) : /\ \E curr \in Scanned(line) : Add(t, curr)
                            /\ heard' = Note(heard, t, line)
  /\ Prints(t, x'[t])

\* One pass of the loop of a thread.
Pass(t) ==
  /\ \/ function[t] = "fibonacci" /\ fibonacci(t)
     \/ function[t] = "collatz" /\ collatz(t)
     \/ function[t] = "max_subarray" /\ max_subarray(t)
  /\ UNCHANGED arg

\* Mutant: collatz runs on to 0.
FinishedAtZero(t) == i'[t] = IF function[t] = "collatz" THEN 0 ELSE arg[t]

\* Does the pass find that it was the last?
Finished(t) == i'[t] = IF function[t] = "collatz" THEN 1 ELSE arg[t]

-----------------------------------------------------------------------------
(* The functions on the library.                                           *)

LastPass == ThreadExit /\ Pass(RUNNING) /\ Finished(RUNNING)
NextPass == ThreadYield /\ Pass(RUNNING) /\ ~Finished(RUNNING)

RunPrograms == LastPass \/ NextPass \/ (Library /\ UNCHANGED data)

InitPrograms ==
  /\ Init
  /\ arg \in Args
  /\ i = [t \in Thread |-> IF function[t] = "collatz" THEN arg[t] ELSE 0]
  /\ x = [t \in Thread |-> 0]
  /\ y = [t \in Thread |-> 0]
  /\ printed = [t \in Thread |-> <<>>]
  /\ heard = [t \in Thread |-> <<>>]

NextPrograms == RunPrograms \/ (World /\ UNCHANGED data)

SpecPrograms == InitPrograms /\ [][NextPrograms]_varsPrograms

\* As in UserThreads: the program runs on, and the timer runs out.
FairSpecPrograms ==
  /\ SpecPrograms
  /\ WF_varsPrograms(RunPrograms)
  /\ WF_varsPrograms(Alarm /\ UNCHANGED data)

-----------------------------------------------------------------------------
(* What the functions are for.                                             *)

Fibonacci[n \in Nat] == IF n <= 2 THEN 1 ELSE Fibonacci[n - 1] + Fibonacci[n - 2]

\* The way of a through the 3n + 1 problem: a, and the numbers behind it.
Orbit(a) ==
  LET Onward(b) == IF b % 2 = 0 THEN b \div 2 ELSE 3 * b + 1
      way[n \in Nat] == IF n = 0 THEN a ELSE Onward(way[n - 1])
  IN  way

\* The way of a up to the n-th number stays within the ints.
OrbitFits(n, a) == \A k \in 0..n : Orbit(a)[k] <= IntMax

\* What the first numbers of s add up to.
Total(s) ==
  LET sum[n \in 0..Len(s)] == IF n = 0 THEN 0 ELSE sum[n - 1] + s[n]
  IN  sum

\* Sums of adjacent numbers of s, those behind the a-th up to the b-th; of none,
\* if these are one.
Sums(s) == UNION {{Total(s)[b] - Total(s)[a] : a \in 0..b} : b \in 0..Len(s)}

\* What thread t prints in pass n, if its ints do not overflow and, for
\* max_subarray, each line it read holds a number.
Right(t, n) ==
  CASE function[t] = "fibonacci" ->
         n <= IntMax => printed[t][n] = Wrap(Fibonacci[n])
    [] function[t] = "collatz" ->
         OrbitFits(n, arg[t]) => printed[t][n] = Orbit(arg[t])[n]
    [] function[t] = "max_subarray" ->
         LET s == SubSeq(heard[t], 1, n)
         IN  NoNumber \notin Range(s) /\ (\A m \in Sums(s) : m \in -IntMax..IntMax)
               => printed[t][n] = Max(Sums(s))

\* The number of the last pass of thread t; none if its loop has no last pass
\* (the argument 0), or one beyond the histories.
Passes(t) ==
  IF function[t] # "collatz" THEN {arg[t]} \cap (1..Kept)
  ELSE {n \in 1..Kept : /\ Orbit(arg[t])[n] = 1 /\ OrbitFits(n, arg[t])
                        /\ \A k \in 1..(n - 1) : Orbit(arg[t])[k] # 1}

-----------------------------------------------------------------------------
(* Properties.                                                             *)

\* Type invariant of what the functions add.
TypeOKPrograms ==
  /\ arg \in Args
  /\ \A f \in {i, x, y} : f \in [Thread -> (-IntMax - 1)..IntMax]
  /\ printed \in [Thread -> Seq((-IntMax - 1)..IntMax)]
  /\ heard \in [Thread -> Seq(Number \cup {NoNumber})]

\* Whatever is switched, signalled or awakened in between, each thread prints
\* the Fibonacci numbers, the way of its argument to 1, or the greatest sums
\* of the numbers it was sent, and a thread that ended printed all of them.
PrintedRight ==
  \A t \in Thread :
    /\ \A n \in 1..Len(printed[t]) : Right(t, n)
    /\ \A p \in Passes(t) : /\ Len(printed[t]) <= p
                            /\ env[t] = "freed" => Len(printed[t]) = p

\* With a timeslice every thread whose loop has a last pass ends, if its input
\* does not fail to come, although others may never end (an argument of 0).
Finishes ==
  \A t \in Thread :
    (Passes(t) # {} /\ []<>(t \notin Entries(waiting_queue) \/ Readable(t)))
      => <>(env[t] = "freed")

=============================================================================
