------------------------ MODULE ThreadProgramsProofs ------------------------
(* Theorems about ThreadPrograms: whatever the functions compute, they are *)
(* threads of the library; what they keep in i, x and y between two        *)
(* passes; and that they print what they are for.                          *)
EXTENDS ThreadPrograms, UserThreadsProofs, NaturalRecursion

-----------------------------------------------------------------------------
(* The functions are threads.                                              *)

\* A step of a function is a step of its thread.
LEMMA StepsAreSteps == [NextPrograms]_varsPrograms => [Next]_vars
BY DEF NextPrograms, RunPrograms, LastPass, NextPass, Next, Run, varsPrograms

\* The three functions do no more with the library than UserThreads lets any
\* function do, so that all that is proved about the library holds of them.
THEOREM ProgramsAreThreads == SpecPrograms => Spec
<1>1. InitPrograms => Init  BY DEF InitPrograms
<1> QED  BY <1>1, StepsAreSteps, PTL DEF SpecPrograms, Spec

\* In particular RUNNING is a thread when a function uses its block.
LEMMA InvPrograms == SpecPrograms => []Inv
BY ProgramsAreThreads, InvAlways, PTL

LEMMA RunningIsThread ==
  ASSUME Inv, pc = "thread"
  PROVE  RUNNING \in Thread
<1>1. ready_queue \in Seq(Thread) /\ rq_current \in Nat /\ rq_current < rq_size
  BY DEF Inv, TypeOK, Control, OnThread, rq_size
<1> QED  BY <1>1, ElementOfSeq DEF RUNNING, rq_size

-----------------------------------------------------------------------------
(* Types.                                                                  *)

Ints == (-IntMax - 1)..IntMax

\* A remainder is less than what is divided by; a smaller number is its own.
LEMMA Remainder ==
  ASSUME NEW b \in Nat \ {0}
  PROVE  /\ \A a \in Int : a % b \in 0..(b - 1)
         /\ \A a \in 0..(b - 1) : a % b = a
OBVIOUS

\* Whatever is wrapped is an int, and an int stays as it is.
LEMMA WrapInts ==
  /\ \A n \in Int : Wrap(n) \in Ints
  /\ \A n \in Ints : Wrap(n) = n
<1> DEFINE Width == 2 * (IntMax + 1)
           Shifted(n) == n + (IntMax + 1)
<1>1. Width \in Nat \ {0} /\ IntMax \in Nat  BY IntAssumption
<1>2. \A a \in Int : a % Width \in 0..(Width - 1)  BY <1>1, Remainder
<1>3. \A a \in 0..(Width - 1) : a % Width = a  BY <1>1, Remainder
<1>4. \A n \in Int : n + IntMax + 1 = Shifted(n) /\ Shifted(n) \in Int  BY <1>1
<1>5. \A n \in Int : Wrap(n) = (Shifted(n) % Width) - (IntMax + 1)  BY <1>4 DEF Wrap
<1>6. \A n \in Ints : n \in Int /\ Shifted(n) \in 0..(Width - 1)  BY <1>1 DEF Ints
<1>7. \A m \in 0..(Width - 1) : m - (IntMax + 1) \in Ints  BY <1>1 DEF Ints
<1>8. \A n \in Int : Shifted(n) - (IntMax + 1) = n  BY <1>1
<1> HIDE DEF Width, Shifted
<1> QED  BY <1>2, <1>3, <1>4, <1>5, <1>6, <1>7, <1>8

\* A history takes up a value or is full.
LEMMA NoteHolds ==
  ASSUME NEW S, NEW h \in [Thread -> Seq(S)], NEW t \in Thread, NEW v \in S
  PROVE  Note(h, t, v) \in [Thread -> Seq(S)]
BY AppendProperties DEF Note

\* A pass of any function keeps ints in i, x and y and prints an int.
LEMMA PassTypes ==
  ASSUME TypeOKPrograms, NEW t \in Thread, Pass(t)
  PROVE  TypeOKPrograms'
<1> USE DEF Ints
<1>1. arg' = arg /\ arg \in Args  BY DEF Pass, TypeOKPrograms
<1>2. /\ i \in [Thread -> Ints] /\ x \in [Thread -> Ints] /\ y \in [Thread -> Ints]
      /\ printed \in [Thread -> Seq(Ints)]
      /\ heard \in [Thread -> Seq(Number \cup {NoNumber})]
  BY DEF TypeOKPrograms
<1> HIDE DEF Ints
<1>3. 0 \in Ints /\ Ints \subseteq Int  BY IntAssumption DEF Ints
<1>5. SUFFICES /\ i' \in [Thread -> Ints] /\ x' \in [Thread -> Ints] /\ y' \in [Thread -> Ints]
               /\ printed' \in [Thread -> Seq(Ints)]
               /\ heard' \in [Thread -> Seq(Number \cup {NoNumber})]
  BY <1>1 DEF TypeOKPrograms, Ints
<1>6. CASE fibonacci(t)
  <2>1. Wrap(i[t] + 1) \in Ints /\ Wrap(x[t] + y[t]) \in Ints
    <3>1. i[t] \in Int /\ x[t] \in Int /\ y[t] \in Int  BY <1>2, <1>3
    <3>2. i[t] + 1 \in Int /\ x[t] + y[t] \in Int  BY <3>1
    <3> QED  BY <3>2, WrapInts
  <2>2. 1 \in Ints  BY IntAssumption DEF Ints
  <2>3. i' \in [Thread -> Ints] /\ y' \in [Thread -> Ints]
    BY <1>2, <1>6, <2>1, <2>2 DEF fibonacci
  <2>4. x' \in [Thread -> Ints]  BY <1>2, <1>6, <2>2 DEF fibonacci
  <2> QED  BY <1>2, <1>6, <2>3, <2>4, NoteHolds DEF fibonacci, Prints
<1>7. CASE collatz(t)
  <2>1. \A n \in Ints : HalveOrTriple(n) \in Ints
    <3> TAKE n \in Ints
    <3>1. n \div 2 \in Ints  BY IntAssumption DEF Ints
    <3>2. 3 * n \in Int  BY <1>3
    <3>3. Wrap(3 * n) \in Int  BY <1>3, <3>2, WrapInts
    <3>4. Wrap(3 * n) + 1 \in Int  BY <3>3
    <3> QED  BY <3>1, <3>4, WrapInts DEF HalveOrTriple
  <2>2. i' \in [Thread -> Ints]  BY <1>2, <1>7, <2>1 DEF collatz
  <2> QED  BY <1>2, <1>7, <2>2, NoteHolds DEF collatz, Prints
<1>8. CASE max_subarray(t)
  <2>1. PICK line \in Lines(t) : /\ \E curr \in Scanned(line) : Add(t, curr)
                                 /\ heard' = Note(heard, t, line)
    BY <1>8 DEF max_subarray
  <2>2. PICK curr \in Scanned(line) : Add(t, curr)  BY <2>1
  <2>3. line \in Number \cup {NoNumber} /\ curr \in Int
    BY IntAssumption DEF Lines, Scanned
  <2>4. Wrap(i[t] + 1) \in Ints /\ Wrap(y[t] + curr) \in Ints
    <3>1. i[t] \in Int /\ y[t] \in Int  BY <1>2, <1>3
    <3>2. i[t] + 1 \in Int /\ y[t] + curr \in Int  BY <2>3, <3>1
    <3> QED  BY <3>2, WrapInts
  <2>5. i' \in [Thread -> Ints]  BY <1>2, <1>8, <2>4 DEF max_subarray
  <2>6. x' \in [Thread -> Ints]  BY <1>2, <2>2, <2>4 DEF Add
  <2>7. y' \in [Thread -> Ints]  BY <1>2, <1>3, <2>2, <2>4 DEF Add
  <2>8. printed' \in [Thread -> Seq(Ints)]  BY <1>2, <1>8, <2>6, NoteHolds DEF max_subarray, Prints
  <2> QED  BY <1>2, <2>1, <2>3, <2>5, <2>6, <2>7, <2>8, NoteHolds
<1> QED  BY <1>6, <1>7, <1>8 DEF Pass

LEMMA TypesInit == InitPrograms => TypeOKPrograms
<1> SUFFICES ASSUME InitPrograms PROVE TypeOKPrograms  OBVIOUS
<1>1. arg \in Args /\ arg \in [Thread -> 0..IntMax]  BY ArgsAssumption DEF InitPrograms
<1>2. 0 \in Ints /\ 0..IntMax \subseteq Ints  BY IntAssumption DEF Ints
<1>3. i \in [Thread -> Ints] /\ x \in [Thread -> Ints] /\ y \in [Thread -> Ints]
  BY <1>1, <1>2 DEF InitPrograms
<1> QED  BY <1>1, <1>3 DEF InitPrograms, TypeOKPrograms, Ints

\* A function does a pass only in its own thread, and the library none.
LEMMA PassOrNothing ==
  ASSUME Inv, [NextPrograms]_varsPrograms
  PROVE  (RUNNING \in Thread /\ Pass(RUNNING)) \/ UNCHANGED data
<1>1. LastPass \/ NextPass => pc = "thread" /\ Pass(RUNNING)
  BY DEF LastPass, NextPass, ThreadExit, ThreadYield
<1> QED  BY <1>1, RunningIsThread DEF NextPrograms, RunPrograms, varsPrograms

\* Every int of a block stays an int of the width it has.
THEOREM ProgramsTypeCorrect == SpecPrograms => []TypeOKPrograms
<1>1. TypeOKPrograms /\ Inv /\ [NextPrograms]_varsPrograms => TypeOKPrograms'
  <2> SUFFICES ASSUME TypeOKPrograms, Inv, [NextPrograms]_varsPrograms PROVE TypeOKPrograms'
    OBVIOUS
  <2>1. CASE RUNNING \in Thread /\ Pass(RUNNING)  BY <2>1, PassTypes
  <2>2. CASE UNCHANGED data  BY <2>2 DEF data, TypeOKPrograms
  <2> QED  BY <2>1, <2>2, PassOrNothing
<1> QED  BY <1>1, TypesInit, InvPrograms, PTL DEF SpecPrograms

-----------------------------------------------------------------------------
(* Passes and histories.                                                   *)

\* A pass leaves the blocks of other threads alone.
LEMMA PassElsewhere ==
  ASSUME TypeOKPrograms, NEW t \in Thread, NEW u \in Thread, u # t, Pass(t)
  PROVE  /\ i'[u] = i[u] /\ x'[u] = x[u] /\ y'[u] = y[u]
         /\ printed'[u] = printed[u] /\ heard'[u] = heard[u] /\ arg' = arg
BY DEF Pass, fibonacci, collatz, max_subarray, Add, Prints, Note, TypeOKPrograms

\* What is noted is behind what was, unless the history is full.
LEMMA Noted ==
  ASSUME NEW S, NEW h \in [Thread -> Seq(S)], NEW t \in Thread, NEW v \in S
  PROVE  /\ Len(h[t]) >= Kept => Note(h, t, v)[t] = h[t]
         /\ Len(h[t]) < Kept => Note(h, t, v)[t] = Append(h[t], v)
<1>1. h[t] \in Seq(S) /\ Len(h[t]) \in Nat /\ Kept \in Nat  BY IntAssumption
<1> QED  BY <1>1 DEF Note

LEMMA ArgIsNat ==
  ASSUME TypeOKPrograms, NEW t \in Thread
  PROVE  arg[t] \in Nat /\ arg[t] <= IntMax
BY ArgsAssumption, IntAssumption DEF TypeOKPrograms

\* What the histories and blocks hold.
LEMMA Blocks ==
  ASSUME TypeOKPrograms, NEW t \in Thread
  PROVE  /\ printed \in [Thread -> Seq(Ints)] /\ printed[t] \in Seq(Ints) /\ Len(printed[t]) \in Nat
         /\ heard \in [Thread -> Seq(Number \cup {NoNumber})]
         /\ heard[t] \in Seq(Number \cup {NoNumber}) /\ Len(heard[t]) \in Nat
         /\ i[t] \in Ints /\ x[t] \in Ints /\ y[t] \in Ints
         /\ Ints \subseteq Int /\ Kept \in Nat /\ Kept <= IntMax
<1>1. /\ printed \in [Thread -> Seq(Ints)] /\ heard \in [Thread -> Seq(Number \cup {NoNumber})]
      /\ i \in [Thread -> Ints] /\ x \in [Thread -> Ints] /\ y \in [Thread -> Ints]
  BY DEF TypeOKPrograms, Ints
<1>2. Ints \subseteq Int /\ Kept \in Nat /\ Kept <= IntMax  BY IntAssumption DEF Ints
<1> QED  BY <1>1, <1>2

-----------------------------------------------------------------------------
(* Remainders.                                                             *)

\* A product is not between 0 and one of its factors.
LEMMA Multiples ==
  ASSUME NEW b \in Nat \ {0}, NEW k \in Int, -b < b * k, b * k < b
  PROVE  k = 0
<1>1. CASE k >= 1
  <2>1. PICK d \in Nat : k = 1 + d
    <3>1. k - 1 \in Nat /\ k = 1 + (k - 1)  BY <1>1
    <3> QED  BY <3>1
  <2>2. b * k = b + b * d /\ b * d >= 0  BY <2>1
  <2> QED  BY <2>2
<1>2. CASE k <= -1
  <2>1. PICK d \in Nat : k = -1 - d
    <3>1. -1 - k \in Nat /\ k = -1 - (-1 - k)  BY <1>2
    <3> QED  BY <3>1
  <2>2. b * k = -b - b * d /\ b * d >= 0  BY <2>1
  <2> QED  BY <2>2
<1> QED  BY <1>1, <1>2

\* A remainder is what is left when multiples are taken away.
LEMMA Quotient ==
  ASSUME NEW b \in Nat \ {0}, NEW a \in Int
  PROVE  \E q \in Int : a = b * q + (a % b)
<1>1. a \div b \in Int /\ a = b * (a \div b) + (a % b)  OBVIOUS
<1> QED  BY <1>1

LEMMA SameRemainder ==
  ASSUME NEW b \in Nat \ {0}, NEW a \in Int, NEW c \in Int, NEW k \in Int, a - c = b * k
  PROVE  a % b = c % b
<1>1. PICK p \in Int : a = b * p + (a % b)  BY Quotient
<1>2. PICK q \in Int : c = b * q + (c % b)  BY Quotient
<1>3. a % b \in 0..(b - 1) /\ c % b \in 0..(b - 1)  BY Remainder
<1> DEFINE r == a % b
           s == c % b
<1>4. r \in Int /\ s \in Int /\ 0 <= r /\ r < b /\ 0 <= s /\ s < b /\ a = b * p + r /\ c = b * q + s
  BY <1>1, <1>2, <1>3
<1> HIDE DEF r, s
<1>5. b * (k - p + q) = r - s
  <2>1. b * (k - p + q) = b * k - b * p + b * q  OBVIOUS
  <2> QED  BY <1>4, <2>1
<1>6. -b < r - s /\ r - s < b  BY <1>4
<1>7. k - p + q = 0
  <2> DEFINE d == k - p + q
  <2>1. d \in Int /\ -b < b * d /\ b * d < b  BY <1>5, <1>6
  <2> HIDE DEF d
  <2>2. d = 0  BY <2>1, Multiples
  <2> QED  BY <2>2 DEF d
<1>8. r - s = 0  BY <1>5, <1>7
<1> QED  BY <1>4, <1>8 DEF r, s

\* Adding and wrapping is as good as wrapping before.
LEMMA WrapSum ==
  ASSUME NEW a \in Int, NEW b \in Int
  PROVE  Wrap(Wrap(a) + Wrap(b)) = Wrap(a + b)
<1> DEFINE h == IntMax + 1
           w == 2 * h
<1>1. h \in Int /\ w \in Nat \ {0}  BY IntAssumption
<1>2. \A n \in Int : Wrap(n) = ((n + h) % w) - h
  <2>1. \A n \in Int : n + IntMax + 1 = n + h  BY IntAssumption
  <2> QED  BY <2>1 DEF Wrap
<1> HIDE DEF w, h
<1>3. ASSUME NEW n \in Int PROVE Wrap(n) \in Int /\ \E q \in Int : n - Wrap(n) = w * q
  <2>1. n + h \in Int  BY <1>1
  <2>2. PICK q \in Int : n + h = w * q + ((n + h) % w)  BY <1>1, <2>1, Quotient
  <2>3. (n + h) % w \in 0..(w - 1)  BY <1>1, <2>1, Remainder
  <2>4. (n + h) % w \in Int  BY <1>1, <2>3
  <2> DEFINE r == (n + h) % w
  <2>5. r \in Int /\ n + h = w * q + r /\ Wrap(n) = r - h  BY <1>2, <2>2, <2>4
  <2> HIDE DEF r
  <2>6. w * q \in Int  BY <1>1
  <2>7. Wrap(n) \in Int /\ n - Wrap(n) = w * q  BY <1>1, <2>5, <2>6
  <2> QED  BY <2>7
<1>4. PICK p \in Int : a - Wrap(a) = w * p  BY <1>3
<1>5. PICK q \in Int : b - Wrap(b) = w * q  BY <1>3
<1>6. Wrap(a) \in Int /\ Wrap(b) \in Int  BY <1>3
<1> DEFINE c == Wrap(a) + Wrap(b)
<1>7. c \in Int /\ a + b \in Int /\ p + q \in Int /\ ((a + b) + h) - (c + h) = w * (p + q)
  <2>1. w * (p + q) = w * p + w * q /\ w * p \in Int /\ w * q \in Int  BY <1>1
  <2>2. c \in Int /\ a + b \in Int /\ p + q \in Int  BY <1>6
  <2> DEFINE wp == w * p
             wq == w * q
             wpq == w * (p + q)
  <2>3. wp \in Int /\ wq \in Int /\ wpq = wp + wq  BY <2>1
  <2>4. a - Wrap(a) = wp /\ b - Wrap(b) = wq  BY <1>4, <1>5
  <2> HIDE DEF wp, wq, wpq
  <2>5. ((a + b) + h) - (c + h) = wpq  BY <1>1, <1>6, <2>3, <2>4
  <2> QED  BY <2>2, <2>5 DEF wpq
<1> HIDE DEF c
<1>8. ((a + b) + h) % w = (c + h) % w
  <2> DEFINE x1 == (a + b) + h
             x2 == c + h
             x3 == p + q
  <2>1. x1 \in Int /\ x2 \in Int /\ x3 \in Int /\ x1 - x2 = w * x3  BY <1>1, <1>7
  <2> HIDE DEF x1, x2, x3
  <2>2. x1 % w = x2 % w  BY <1>1, <2>1, SameRemainder
  <2> QED  BY <2>2 DEF x1, x2
<1>9. Wrap(c) = Wrap(a + b)  BY <1>2, <1>7, <1>8
<1> QED  BY <1>9 DEF c

-----------------------------------------------------------------------------
(* The Fibonacci numbers.                                                  *)

\* The recursion has a function: its pairs of neighbours have one.
LEMMA FibonacciIs ==
  Fibonacci = [n \in Nat |-> IF n <= 2 THEN 1 ELSE Fibonacci[n - 1] + Fibonacci[n - 2]]
<1> DEFINE V == Nat \X Nat
           step == [n \in Nat |-> [v \in V |-> <<v[2], IF n = 0 THEN 1 ELSE v[1] + v[2]>>]]
<1>1. <<1, 1>> \in V  OBVIOUS
<1>2. step \in [Nat -> [V -> V]]
  <2>1. \A n \in Nat, v \in V : <<v[2], IF n = 0 THEN 1 ELSE v[1] + v[2]>> \in V  OBVIOUS
  <2> QED  BY <2>1
<1>3. \A n \in Nat, v \in V : step[n][v] = <<v[2], IF n = 0 THEN 1 ELSE v[1] + v[2]>>  OBVIOUS
<1> HIDE DEF step, V
<1>a. Recursion(V, <<1, 1>>, step)  BY <1>1, <1>2 DEF Recursion
<1>4. PICK f : Recurs(f, V, <<1, 1>>, step)  BY <1>a, RecursionExists
<1>b. f \in [Nat -> V] /\ f[0] = <<1, 1>> /\ \A n \in Nat : f[n + 1] = step[n][f[n]]
  BY <1>4 DEF Recurs
<1>5. \A n \in Nat : f[n + 1] = <<f[n][2], IF n = 0 THEN 1 ELSE f[n][1] + f[n][2]>>
  BY <1>3, <1>b
<1> DEFINE g == [n \in Nat |-> f[n][1]]
<1>6. g[0] = 1 /\ g[1] = 1  BY <1>b, <1>5
<1>7. ASSUME NEW n \in Nat, n >= 2 PROVE g[n] = IF n = 2 THEN 1 ELSE g[n - 1] + g[n - 2]
  <2>1. n - 1 \in Nat /\ n - 2 \in Nat /\ (n - 1) + 1 = n /\ (n - 2) + 1 = n - 1  BY <1>7
  <2>2. f[n] = <<f[n - 1][2], IF n - 1 = 0 THEN 1 ELSE f[n - 1][1] + f[n - 1][2]>>  BY <1>5, <2>1
  <2>3. f[n - 1] = <<f[n - 2][2], IF n - 2 = 0 THEN 1 ELSE f[n - 2][1] + f[n - 2][2]>>
    BY <1>5, <2>1
  <2>4. g[n] = f[n - 1][2] /\ g[n - 1] = f[n - 2][2] /\ g[n - 2] = f[n - 2][1]
    BY <2>1, <2>2, <2>3
  <2>5. f[n - 1][2] = IF n = 2 THEN 1 ELSE f[n - 2][1] + f[n - 2][2]  BY <1>7, <2>1, <2>3
  <2>6. f[n - 2] \in Nat \X Nat  BY <2>1, <1>b DEF V
  <2> HIDE DEF g
  <2> QED  BY <2>4, <2>5, <2>6
<1>8. g = [n \in Nat |-> IF n <= 2 THEN 1 ELSE g[n - 1] + g[n - 2]]
  <2>1. \A n \in Nat : g[n] = IF n <= 2 THEN 1 ELSE g[n - 1] + g[n - 2]
    <3> TAKE n \in Nat
    <3>1. n = 0 \/ n = 1 \/ n >= 2  OBVIOUS
    <3> HIDE DEF g
    <3>2. CASE n >= 2 
      <4>1. n = 2 \/ ~(n <= 2)  BY <3>2
      <4> QED  BY <1>7, <3>2, <4>1
    <3> QED  BY <1>6, <3>1, <3>2
  <2> QED  BY <2>1
<1> HIDE DEF g
<1>9. \E F : F = [n \in Nat |-> IF n <= 2 THEN 1 ELSE F[n - 1] + F[n - 2]]  BY <1>8
<1> QED  BY <1>9 DEF Fibonacci

LEMMA FibonacciNat == Fibonacci \in [Nat -> Nat]
<1>1. \A n \in Nat : Fibonacci[n] = IF n <= 2 THEN 1 ELSE Fibonacci[n - 1] + Fibonacci[n - 2]
  BY FibonacciIs
<1> DEFINE S == {n \in Nat : Fibonacci[n] \in Nat /\ Fibonacci[n + 1] \in Nat}
<1>2. 0 \in S  BY <1>1
<1>3. ASSUME NEW n \in S PROVE n + 1 \in S
  <2>1. n \in Nat /\ n + 1 \in Nat /\ n + 2 \in Nat /\ (n + 2) - 1 = n + 1 /\ (n + 2) - 2 = n
        /\ (n + 1) + 1 = n + 2
    OBVIOUS
  <2>2. Fibonacci[n + 2] = IF n + 2 <= 2 THEN 1 ELSE Fibonacci[n + 1] + Fibonacci[n]  BY <1>1, <2>1
  <2>3. Fibonacci[n] \in Nat /\ Fibonacci[n + 1] \in Nat  OBVIOUS
  <2>4. Fibonacci[n + 2] \in Nat  BY <2>2, <2>3
  <2> QED  BY <2>1, <2>3, <2>4
<1> HIDE DEF S
<1>4. ASSUME NEW m \in Nat PROVE Fibonacci[m] \in Nat
  <2>1. 0..m \subseteq S  BY <1>2, <1>3, AllUpTo
  <2>2. m \in S  BY <2>1
  <2> QED  BY <2>2 DEF S
<1> QED  BY <1>4, FibonacciIs

\* The Fibonacci numbers as ints: ones, then the sums of the two before.
Recurrent(s) ==
  \A n \in 1..Len(s) : s[n] = IF n <= 2 THEN 1 ELSE Wrap(s[n - 2] + s[n - 1])

\* What i, x and y hold behind the pass that printed the last number of s.
Keeps(t, s) ==
  /\ i[t] = Len(s)
  /\ Len(s) >= 1 => y[t] = s[Len(s)]
  /\ Len(s) = 1 => x[t] = 1
  /\ Len(s) >= 2 => x[t] = s[Len(s) - 1]

FibonacciAt(t) ==
  Recurrent(printed[t]) /\ (Len(printed[t]) < Kept => Keeps(t, printed[t]))

\* Ones and wrapped sums are the wrapped Fibonacci numbers.
LEMMA RecurrentIsFibonacci ==
  ASSUME NEW s, Len(s) \in Nat, Recurrent(s), NEW n \in 1..Len(s)
  PROVE  s[n] = Wrap(Fibonacci[n])
<1> DEFINE m == Len(s)
           Is(k) == k \in 1..m => s[k] = Wrap(Fibonacci[k])
           S == {k \in Nat : Is(k) /\ Is(k + 1)}
<1>1. m \in Nat /\ \A k \in 1..m : s[k] = IF k <= 2 THEN 1 ELSE Wrap(s[k - 2] + s[k - 1])
  BY DEF Recurrent
<1>2. Wrap(1) = 1
  <2>1. 1 \in Ints  BY IntAssumption DEF Ints
  <2> QED  BY <2>1, WrapInts
<1>3. \A k \in Nat : Fibonacci[k] = IF k <= 2 THEN 1 ELSE Fibonacci[k - 1] + Fibonacci[k - 2]
  BY FibonacciIs
<1>n. n \in 1..m  OBVIOUS
<1> HIDE DEF m
<1>4. 0 \in S
  <2>1. Is(0)  OBVIOUS
  <2>2. Is(1)  BY <1>1, <1>2, <1>3
  <2> QED  BY <2>1, <2>2
<1>5. ASSUME NEW k \in Nat, Is(k), Is(k + 1) PROVE Is(k + 2)
  <2> SUFFICES ASSUME k + 2 \in 1..m PROVE s[k + 2] = Wrap(Fibonacci[k + 2])  OBVIOUS
  <2>1. k + 2 \in Nat /\ (k + 2) - 1 = k + 1 /\ (k + 2) - 2 = k /\ k + 1 \in Nat  OBVIOUS
  <2>2. CASE k = 0
    <3>1. 2 \in 1..m  BY <2>2
    <3> QED  BY <1>1, <1>2, <1>3, <2>2, <3>1
  <2>3. CASE k # 0
    <3>1. k \in 1..m /\ k + 1 \in 1..m /\ ~(k + 2 <= 2)  BY <1>1, <2>3
    <3>2. s[k + 2] = Wrap(s[k] + s[k + 1])  BY <1>1, <2>1, <3>1
    <3>3. Fibonacci[k + 2] = Fibonacci[k + 1] + Fibonacci[k]  BY <1>3, <2>1, <3>1
    <3>4. s[k] = Wrap(Fibonacci[k]) /\ s[k + 1] = Wrap(Fibonacci[k + 1])  BY <1>5, <3>1
    <3>a. \A j \in Nat : Fibonacci[j] \in Nat  BY FibonacciNat
    <3>5. Fibonacci[k] \in Int /\ Fibonacci[k + 1] \in Int  BY <2>1, <3>a
    <3>6. Wrap(Wrap(Fibonacci[k]) + Wrap(Fibonacci[k + 1])) = Wrap(Fibonacci[k] + Fibonacci[k + 1])
      BY <3>5, WrapSum
    <3>7. Fibonacci[k + 1] + Fibonacci[k] = Fibonacci[k] + Fibonacci[k + 1]  BY <3>5
    <3> QED  BY <3>2, <3>3, <3>4, <3>6, <3>7
  <2> QED  BY <2>2, <2>3
<1>6. ASSUME NEW k \in S PROVE k + 1 \in S
  <2>1. k \in Nat /\ Is(k) /\ Is(k + 1) /\ (k + 1) + 1 = k + 2 /\ k + 1 \in Nat  OBVIOUS
  <2>2. Is(k + 2)  BY <1>5, <2>1
  <2> HIDE DEF Is
  <2>3. Is((k + 1) + 1)  BY <2>1, <2>2
  <2> QED  BY <2>1, <2>3
<1>7. n \in S
  <2> HIDE DEF S
  <2>1. n \in Nat /\ n \in 0..n  BY <1>1, <1>n
  <2>2. 0..n \subseteq S  BY <1>4, <1>6, <2>1, AllUpTo
  <2> QED  BY <2>1, <2>2
<1> QED  BY <1>7, <1>n

LEMMA FibonacciPass ==
  ASSUME NEW t \in Thread, TypeOKPrograms, FibonacciAt(t), fibonacci(t)
  PROVE  FibonacciAt(t)'
<1> DEFINE s == printed[t]
           n == Len(s)
<1> SUFFICES Recurrent(printed'[t]) /\ (Len(printed'[t]) < Kept => Keeps(t, printed[t])')
  BY DEF FibonacciAt
<1>1. s \in Seq(Ints) /\ n \in Nat /\ i[t] \in Int /\ x[t] \in Int /\ y[t] \in Int
  BY LenProperties, IntAssumption DEF TypeOKPrograms, Ints
<1>2. CASE n >= Kept
  <2>1. printed' = printed  BY <1>2, IntAssumption DEF fibonacci, Prints, Note
  <2> QED  BY <1>2, <2>1, IntAssumption DEF FibonacciAt
<1>3. CASE n < Kept
  <2>1. Keeps(t, s) /\ Recurrent(s)  BY <1>3 DEF FibonacciAt
  <2>2. n + 1 \in Ints  BY <1>1, <1>3, IntAssumption DEF Ints
  <2>3. i'[t] = n + 1
    BY <1>1, <2>1, <2>2, WrapInts DEF fibonacci, Keeps, TypeOKPrograms
  <2>4. y'[t] = IF n + 1 <= 2 THEN 1 ELSE Wrap(x[t] + y[t])
    BY <1>1, <2>3 DEF fibonacci, TypeOKPrograms
  <2>5. x'[t] = IF n + 1 <= 2 THEN 1 ELSE y[t]
    BY <1>1, <2>3 DEF fibonacci, TypeOKPrograms
  <2>6. printed'[t] = Append(s, y'[t])
    BY <1>1, <1>3, IntAssumption DEF fibonacci, Prints, Note, TypeOKPrograms
  <2>7. y'[t] \in Int
    <3>1. x[t] + y[t] \in Int  BY <1>1
    <3>2. Wrap(x[t] + y[t]) \in Int  BY <3>1, WrapInts, IntAssumption DEF Ints
    <3> QED  BY <2>4, <3>2
  <2>8. Len(printed'[t]) = n + 1 /\ printed'[t][n + 1] = y'[t]
        /\ \A k \in 1..n : printed'[t][k] = s[k]
    <3> DEFINE a == Append(s, y'[t])
    <3>1. s \in Seq(Int) /\ Len(s) = n  BY <1>1, IntAssumption DEF Ints
    <3> HIDE DEF s, n
    <3>2. Len(a) = n + 1 /\ a[n + 1] = y'[t] /\ \A k \in 1..n : a[k] = s[k]
      BY <2>7, <3>1, AppendProperties
    <3> QED  BY <2>6, <3>2
  <2> DEFINE z == printed'[t]
  <2>9. /\ n \in Nat /\ Len(z) = n + 1 /\ z[n + 1] = y'[t]
        /\ \A k \in 1..n : z[k] = s[k]
        /\ n >= 1 => y[t] = s[n]
        /\ n = 1 => x[t] = 1
        /\ n >= 2 => x[t] = s[n - 1]
        /\ \A k \in 1..n : s[k] = IF k <= 2 THEN 1 ELSE Wrap(s[k - 2] + s[k - 1])
    BY <1>1, <2>1, <2>8 DEF Keeps, Recurrent
  <2> HIDE DEF n, s, z
  <2>10. Keeps(t, printed[t])'
    <3>1. n >= 1 => z[n] = y[t]  BY <2>9
    <3>2. n + 1 >= 2 => x'[t] = z[n]
      BY <2>5, <2>9, <3>1
    <3>3. /\ i'[t] = Len(z)
          /\ Len(z) >= 1 => y'[t] = z[Len(z)]
          /\ Len(z) = 1 => x'[t] = 1
          /\ Len(z) >= 2 => x'[t] = z[Len(z) - 1]
      <4>1. n + 1 - 1 = n /\ (n + 1 = 1 => n + 1 <= 2)  BY <2>9
      <4> QED  BY <2>3, <2>5, <2>9, <3>2, <4>1
    <3> QED  BY <3>3 DEF Keeps, z
  <2>11. ASSUME NEW k \in 1..(n + 1)
         PROVE  z[k] = IF k <= 2 THEN 1 ELSE Wrap(z[k - 2] + z[k - 1])
    <3>1. CASE k \in 1..n
      <4>1. k > 2 => k - 1 \in 1..n /\ k - 2 \in 1..n  BY <2>9, <3>1
      <4>2. z[k] = s[k] /\ (k > 2 => z[k - 1] = s[k - 1] /\ z[k - 2] = s[k - 2])
        BY <2>9, <3>1, <4>1
      <4> QED  BY <2>9, <3>1, <4>2
    <3>2. CASE k = n + 1 /\ k <= 2  BY <2>4, <2>9, <3>2
    <3>3. CASE k = n + 1 /\ k > 2
      <4>1. n \in 1..n /\ n - 1 \in 1..n /\ k - 1 = n /\ k - 2 = n - 1  BY <2>9, <3>3
      <4>2. z[k - 1] = y[t] /\ z[k - 2] = x[t]  BY <2>9, <4>1
      <4> QED  BY <2>4, <2>9, <3>3, <4>2
    <3> QED  BY <2>9, <3>1, <3>2, <3>3
  <2> QED  BY <2>9, <2>10, <2>11 DEF Recurrent, z
<1> QED  BY <1>1, <1>2, <1>3, IntAssumption

-----------------------------------------------------------------------------
(* The 3n + 1 problem.                                                     *)

Onward(b) == IF b % 2 = 0 THEN b \div 2 ELSE 3 * b + 1

LEMMA OrbitIs ==
  ASSUME NEW a \in Nat
  PROVE  /\ Orbit(a) \in [Nat -> Nat]
         /\ Orbit(a)[0] = a
         /\ \A n \in Nat : Orbit(a)[n + 1] = Onward(Orbit(a)[n])
<1> DEFINE step == [n \in Nat |-> [b \in Nat |-> Onward(b)]]
<1>1. ASSUME NEW b \in Nat PROVE Onward(b) \in Nat
  <2>1. b \div 2 \in Nat  OBVIOUS
  <2>2. 3 * b + 1 \in Nat  OBVIOUS
  <2> QED  BY <2>1, <2>2 DEF Onward
<1>2. step \in [Nat -> [Nat -> Nat]]  BY <1>1
<1>3. \A n \in Nat, b \in Nat : step[n][b] = Onward(b)  OBVIOUS
<1> HIDE DEF step
<1>4. Recursion(Nat, a, step)  BY <1>2 DEF Recursion
<1>5. PICK f : Recurs(f, Nat, a, step)  BY <1>4, RecursionExists
<1>6. f \in [Nat -> Nat] /\ f[0] = a /\ \A n \in Nat : f[n + 1] = Onward(f[n])
  <2>1. f \in [Nat -> Nat] /\ f[0] = a /\ \A n \in Nat : f[n + 1] = step[n][f[n]]
    BY <1>5 DEF Recurs
  <2>2. \A n \in Nat : f[n] \in Nat  BY <2>1
  <2> QED  BY <1>3, <2>1, <2>2
<1> DEFINE Way(g) == g = [n \in Nat |-> IF n = 0 THEN a ELSE Onward(g[n - 1])]
<1>7. Way(f)
  <2>1. ASSUME NEW n \in Nat PROVE f[n] = IF n = 0 THEN a ELSE Onward(f[n - 1])
    <3>1. n # 0 => n - 1 \in Nat /\ (n - 1) + 1 = n  OBVIOUS
    <3> QED  BY <1>6, <3>1
  <2> QED  BY <1>6, <2>1
<1>8. Orbit(a) = CHOOSE g : Way(g)  BY DEF Orbit, Onward
<1>9. Way(Orbit(a))
  <2> HIDE DEF Way
  <2> QED  BY <1>7, <1>8
<1> DEFINE g == Orbit(a)
<1>10. g = [n \in Nat |-> IF n = 0 THEN a ELSE Onward(g[n - 1])]  BY <1>9
<1> HIDE DEF g
<1>11. g[0] = a /\ \A n \in Nat : g[n + 1] = Onward(g[n])
  <2>1. \A n \in Nat : n + 1 \in Nat /\ n + 1 # 0 /\ (n + 1) - 1 = n  OBVIOUS
  <2> QED  BY <1>10, <2>1
<1>12. ASSUME NEW m \in Nat PROVE g[m] \in Nat
  <2> DEFINE S == {n \in Nat : g[n] \in Nat}
  <2>1. 0 \in S  BY <1>11
  <2>2. \A n \in S : n + 1 \in S  BY <1>1, <1>11
  <2> HIDE DEF S
  <2>3. 0..m \subseteq S  BY <2>1, <2>2, AllUpTo
  <2> QED  BY <2>3 DEF S
<1>13. g \in [Nat -> Nat]  BY <1>10, <1>12
<1> QED  BY <1>11, <1>13 DEF g

\* On the ints halving and tripling is what the problem says, as long as the
\* result is one.
LEMMA StepFits ==
  ASSUME NEW a \in Nat, a <= IntMax, Onward(a) <= IntMax
  PROVE  HalveOrTriple(a) = Onward(a)
<1>1. CASE a % 2 = 0  BY <1>1 DEF HalveOrTriple, Onward
<1>2. CASE a % 2 # 0
  <2>1. Onward(a) = 3 * a + 1 /\ 3 * a + 1 <= IntMax  BY <1>2 DEF Onward
  <2>2. 3 * a \in Ints /\ 3 * a + 1 \in Ints  BY <2>1, IntAssumption DEF Ints
  <2>3. Wrap(3 * a) = 3 * a  BY <2>2, WrapInts
  <2>4. Wrap(3 * a + 1) = 3 * a + 1  BY <2>2, WrapInts
  <2> QED  BY <1>2, <2>1, <2>3, <2>4 DEF HalveOrTriple
<1> QED  BY <1>1, <1>2

-----------------------------------------------------------------------------
(* collatz.                                                                *)

\* What a collatz thread printed, and what i holds behind it.
CollatzAt(t) ==
  /\ \A n \in 1..Len(printed[t]) : OrbitFits(n, arg[t]) => printed[t][n] = Orbit(arg[t])[n]
  /\ Len(printed[t]) < Kept /\ OrbitFits(Len(printed[t]), arg[t]) =>
       i[t] = Orbit(arg[t])[Len(printed[t])]

LEMMA CollatzPass ==
  ASSUME NEW t \in Thread, TypeOKPrograms, CollatzAt(t), TypeOKPrograms', collatz(t), arg' = arg
  PROVE  CollatzAt(t)'
<1> DEFINE s == printed[t]
           n == Len(s)
           z == printed'[t]
           a == arg[t]
           O == Orbit(a)
<1>1. /\ printed \in [Thread -> Seq(Ints)] /\ s \in Seq(Ints) /\ n \in Nat /\ Kept \in Nat
      /\ i'[t] \in Ints /\ Ints \subseteq Int
  <2>1. i'[t] \in Ints  BY DEF TypeOKPrograms, Ints
  <2> QED  BY <2>1, Blocks
<1>2. i'[t] = HalveOrTriple(i[t]) /\ printed' = Note(printed, t, i'[t])
  BY DEF collatz, Prints, TypeOKPrograms
<1>3. /\ a \in Nat /\ O \in [Nat -> Nat] /\ O[0] = a
      /\ \A k \in Nat : O[k + 1] = Onward(O[k])
  BY ArgIsNat, OrbitIs
<1>4. \A m : OrbitFits(m, a) <=> \A k \in 0..m : O[k] <= IntMax  BY DEF OrbitFits
<1>5. /\ \A k \in 1..n : OrbitFits(k, a) => s[k] = O[k]
      /\ n < Kept /\ OrbitFits(n, a) => i[t] = O[n]
  BY DEF CollatzAt
<1> SUFFICES /\ \A k \in 1..Len(z) : OrbitFits(k, a) => z[k] = O[k]
             /\ Len(z) < Kept /\ OrbitFits(Len(z), a) => i'[t] = O[Len(z)]
  BY DEF CollatzAt
<1> HIDE DEF a, O
<1>6. CASE n >= Kept
  <2>1. z = s  BY <1>1, <1>2, <1>6, Noted
  <2> QED  BY <1>1, <1>5, <1>6, <2>1
<1>7. CASE n < Kept
  <2>1. z = Append(s, i'[t])
    <3>1. Len(printed[t]) < Kept  BY <1>7
    <3>2. PICK v \in Ints : v = i'[t]  BY <1>1
    <3>3. printed \in [Thread -> Seq(Ints)]  BY <1>1
    <3>4. Note(printed, t, v)[t] = Append(printed[t], v)  BY <3>1, <3>3, Noted
    <3> QED  BY <1>2, <3>2, <3>4
  <2>2. Len(z) = n + 1 /\ z[n + 1] = i'[t] /\ \A k \in 1..n : z[k] = s[k]
    BY <1>1, <2>1, AppendProperties
  <2>3. ASSUME OrbitFits(n + 1, a) PROVE i'[t] = O[n + 1]
    <3>1. /\ O[n] \in Nat /\ O[n] <= IntMax /\ O[n + 1] <= IntMax
          /\ O[n + 1] = Onward(O[n]) /\ \A k \in 0..n : O[k] <= IntMax
      <4>1. n \in 0..(n + 1) /\ n + 1 \in 0..(n + 1) /\ \A k \in 0..n : k \in 0..(n + 1)  BY <1>1
      <4> QED  BY <1>1, <1>3, <1>4, <2>3, <4>1
    <3>2. i[t] = O[n]  BY <1>4, <1>5, <1>7, <3>1
    <3>3. HalveOrTriple(O[n]) = Onward(O[n])
      <4> DEFINE b == O[n]
      <4>1. b \in Nat /\ b <= IntMax /\ Onward(b) <= IntMax  BY <3>1
      <4> HIDE DEF b
      <4>2. HalveOrTriple(b) = Onward(b)  BY <4>1, StepFits
      <4> QED  BY <4>2 DEF b
    <3> QED  BY <1>2, <3>1, <3>2, <3>3
  <2>4. \A k \in 1..(n + 1) : k \in 1..n \/ k = n + 1  BY <1>1
  <2> HIDE DEF s, n, z
  <2> QED  BY <1>5, <2>2, <2>3, <2>4
<1> QED  BY <1>1, <1>6, <1>7

-----------------------------------------------------------------------------
(* Sums of adjacent numbers.                                               *)

LEMMA TotalIs ==
  ASSUME NEW s \in Seq(Int)
  PROVE  /\ Total(s) \in [0..Len(s) -> Int]
         /\ Total(s)[0] = 0
         /\ \A n \in 1..Len(s) : Total(s)[n] = Total(s)[n - 1] + s[n]
<1> DEFINE m == Len(s)
           step == [n \in Nat |-> [v \in Int |-> IF n + 1 \in 1..m THEN v + s[n + 1] ELSE v]]
<1>1. m \in Nat /\ \A n \in 1..m : s[n] \in Int  OBVIOUS
<1> HIDE DEF m
<1>2. step \in [Nat -> [Int -> Int]]
  <2>1. \A n \in Nat, v \in Int : (IF n + 1 \in 1..m THEN v + s[n + 1] ELSE v) \in Int  BY <1>1
  <2> QED  BY <2>1
<1>3. \A n \in 0..(m - 1), v \in Int : step[n][v] = v + s[n + 1]
  <2>1. \A n \in 0..(m - 1) : n \in Nat /\ n + 1 \in 1..m  BY <1>1
  <2> QED  BY <2>1
<1> HIDE DEF step
<1>a. 0 \in Int  OBVIOUS
<1>4. Recursion(Int, 0, step)  BY <1>2, <1>a, Zenon DEF Recursion
<1>5. PICK f : Recurs(f, Int, 0, step)  BY <1>4, RecursionExists
<1>6. /\ \A n \in 0..m : f[n] \in Int
      /\ f[0] = 0
      /\ \A n \in 1..m : f[n] = f[n - 1] + s[n]
  <2>1. f \in [Nat -> Int] /\ f[0] = 0 /\ \A n \in Nat : f[n + 1] = step[n][f[n]]
    BY <1>5 DEF Recurs
  <2>2. \A n \in 0..m : f[n] \in Int  BY <1>1, <2>1
  <2>3. ASSUME NEW n \in 1..m PROVE f[n] = f[n - 1] + s[n]
    <3>1. n - 1 \in 0..(m - 1) /\ n - 1 \in Nat /\ (n - 1) + 1 = n  BY <1>1
    <3>2. f[n - 1] \in Int /\ f[n] = step[n - 1][f[n - 1]]  BY <2>1, <3>1
    <3> QED  BY <1>3, <3>1, <3>2
  <2> QED  BY <2>1, <2>2, <2>3
<1> DEFINE Adds(g) == g = [n \in 0..m |-> IF n = 0 THEN 0 ELSE g[n - 1] + s[n]]
           h == [n \in 0..m |-> f[n]]
<1>7. Adds(h)
  <2>1. ASSUME NEW n \in 0..m PROVE h[n] = IF n = 0 THEN 0 ELSE h[n - 1] + s[n]
    <3>1. n # 0 => n - 1 \in 0..m /\ n \in 1..m  BY <1>1
    <3> QED  BY <1>6, <3>1
  <2> HIDE DEF h
  <2>2. h = [n \in 0..m |-> h[n]]  BY DEF h
  <2> QED  BY <2>1, <2>2
<1>8. Total(s) = CHOOSE g : Adds(g)  BY DEF Total, m
<1>9. Adds(Total(s))
  <2> HIDE DEF Adds, h
  <2> QED  BY <1>7, <1>8
<1> DEFINE g == Total(s)
<1>10. g = [n \in 0..m |-> IF n = 0 THEN 0 ELSE g[n - 1] + s[n]]  BY <1>9
<1> HIDE DEF g
<1>11. 0 \in 0..m /\ g[0] = 0  BY <1>1, <1>10
<1>12. \A n \in 1..m : g[n] = g[n - 1] + s[n]
  <2>1. \A n \in 1..m : n \in 0..m /\ n # 0  BY <1>1
  <2> QED  BY <1>10, <2>1
<1>13. \A n \in 0..m : g[n] \in Int
  <2> DEFINE S == {n \in 0..m : g[n] \in Int}
  <2>1. 0 \in S  BY <1>11
  <2>2. ASSUME NEW n \in 0..(m - 1), n \in S PROVE n + 1 \in S
    <3>1. n + 1 \in 1..m /\ n + 1 \in 0..m /\ (n + 1) - 1 = n /\ g[n] \in Int /\ s[n + 1] \in Int
      BY <1>1, <2>2
    <3> QED  BY <1>12, <3>1
  <2> HIDE DEF S
  <2>3. 0..m \subseteq S  BY <1>1, <2>1, <2>2, AllUpTo
  <2> QED  BY <2>3 DEF S
<1>14. g \in [0..m -> Int]  BY <1>10, <1>13
<1> QED  BY <1>11, <1>12, <1>14 DEF g, m

\* One number more adds one sum more.
LEMMA TotalAppends ==
  ASSUME NEW s \in Seq(Int), NEW v \in Int
  PROVE  /\ \A k \in 0..Len(s) : Total(Append(s, v))[k] = Total(s)[k]
         /\ Total(Append(s, v))[Len(s) + 1] = Total(s)[Len(s)] + v
<1> DEFINE z == Append(s, v)
           m == Len(s)
           S == {k \in 0..m : Total(z)[k] = Total(s)[k]}
<1>1. z \in Seq(Int) /\ Len(z) = m + 1 /\ z[m + 1] = v /\ (\A k \in 1..m : z[k] = s[k]) /\ m \in Nat
  BY AppendProperties
<1>2. /\ Total(z)[0] = 0
      /\ \A n \in 1..(m + 1) : Total(z)[n] = Total(z)[n - 1] + z[n]
  BY <1>1, TotalIs
<1>3. /\ Total(s)[0] = 0
      /\ \A n \in 1..m : Total(s)[n] = Total(s)[n - 1] + s[n]
  BY TotalIs
<1> HIDE DEF z, m
<1>4. 0 \in S  BY <1>1, <1>2, <1>3
<1>5. ASSUME NEW k \in 0..(m - 1), k \in S PROVE k + 1 \in S
  <2>1. k + 1 \in 1..m /\ k + 1 \in 1..(m + 1) /\ k + 1 \in 0..m /\ (k + 1) - 1 = k
    BY <1>1
  <2>2. Total(z)[k] = Total(s)[k] /\ z[k + 1] = s[k + 1]  BY <1>1, <1>5, <2>1
  <2>3. Total(z)[k + 1] = Total(s)[k + 1]  BY <1>2, <1>3, <2>1, <2>2
  <2> QED  BY <2>1, <2>3
<1>6. 0..m \subseteq S
  <2> HIDE DEF S
  <2> QED  BY <1>1, <1>4, <1>5, AllUpTo
<1>7. m + 1 \in 1..(m + 1) /\ (m + 1) - 1 = m /\ m \in 0..m  BY <1>1
<1>8. Total(z)[m + 1] = Total(s)[m] + v  BY <1>1, <1>2, <1>6, <1>7
<1> QED  BY <1>6, <1>8 DEF z, m

\* Sums of n numbers that end at the last of them, and all others.
LEMMA SumsAppend ==
  ASSUME NEW s \in Seq(Int), NEW v \in Int, NEW d
  PROVE  d \in Sums(Append(s, v)) <=>
           \/ d \in Sums(s)
           \/ \E a \in 0..(Len(s) + 1) : d = Total(Append(s, v))[Len(s) + 1] - Total(Append(s, v))[a]
<1> DEFINE z == Append(s, v)
           m == Len(s)
           T == Total(s)
           U == Total(z)
<1>1. Len(z) = m + 1 /\ m \in Nat  BY AppendProperties
<1>2. \A k \in 0..m : U[k] = T[k]  BY TotalAppends
<1>3. d \in Sums(s) <=> \E b \in 0..m : \E a \in 0..b : d = T[b] - T[a]  BY DEF Sums
<1>4. d \in Sums(z) <=> \E b \in 0..(m + 1) : \E a \in 0..b : d = U[b] - U[a]  BY <1>1 DEF Sums
<1> HIDE DEF z, m, T, U
<1>5. \A b \in 0..(m + 1) : b \in 0..m \/ b = m + 1  BY <1>1
<1>6. \A b \in 0..m : b \in 0..(m + 1) /\ \A a \in 0..b : a \in 0..m  BY <1>1
<1>7. m + 1 \in 0..(m + 1)  BY <1>1
<1>8. d \in Sums(z) <=> \/ \E b \in 0..m : \E a \in 0..b : d = T[b] - T[a]
                        \/ \E a \in 0..(m + 1) : d = U[m + 1] - U[a]
  BY <1>2, <1>4, <1>5, <1>6, <1>7
<1> QED  BY <1>3, <1>8 DEF z, m, T, U

-----------------------------------------------------------------------------
(* max_subarray.                                                           *)

\* m is the greatest of S.
Greatest(m, S) == m \in S /\ \A n \in S : n <= m

\* The sums of adjacent numbers of s up to its last.
Ending(s) == {Total(s)[Len(s)] - Total(s)[a] : a \in 0..Len(s)}

LEMMA GreatestIsMax ==
  ASSUME NEW S \in SUBSET Int, NEW m, Greatest(m, S)
  PROVE  Max(S) = m
<1>1. m \in S /\ \A n \in S : m >= n  BY DEF Greatest
<1>2. Max(S) \in S /\ \A n \in S : Max(S) >= n
  <2> DEFINE Is(k) == \A n \in S : k >= n
  <2>1. Max(S) = CHOOSE k \in S : Is(k)  BY DEF Max
  <2>2. m \in S /\ Is(m)  BY <1>1
  <2> HIDE DEF Is
  <2>3. Max(S) \in S /\ Is(Max(S))  BY <2>1, <2>2
  <2> QED  BY <2>3 DEF Is
<1> DEFINE k == Max(S)
<1>3. k \in Int /\ m \in Int /\ m >= k /\ k >= m  BY <1>1, <1>2
<1> HIDE DEF k
<1>4. k = m  BY <1>3
<1> QED  BY <1>4 DEF k

LEMMA SumsInt ==
  ASSUME NEW s \in Seq(Int)
  PROVE  Sums(s) \subseteq Int /\ 0 \in Sums(s) /\ Ending(s) \subseteq Sums(s)
<1> DEFINE m == Len(s)
           T == Total(s)
<1>1. m \in Nat /\ \A k \in 0..m : T[k] \in Int  BY TotalIs
<1>2. \A d : d \in Sums(s) <=> \E b \in 0..m : \E a \in 0..b : d = T[b] - T[a]  BY DEF Sums
<1>3. \A d : d \in Ending(s) <=> \E a \in 0..m : d = T[m] - T[a]  BY DEF Ending
<1> HIDE DEF m, T
<1>4. Sums(s) \subseteq Int
  <2>1. \A b \in 0..m : \A a \in 0..b : a \in 0..m  BY <1>1
  <2> QED  BY <1>1, <1>2, <2>1
<1>5. 0 \in Sums(s)
  <2>1. 0 \in 0..m /\ 0 \in 0..0 /\ T[0] - T[0] = 0  BY <1>1
  <2> QED  BY <1>2, <2>1
<1>6. m \in 0..m  BY <1>1
<1> QED  BY <1>2, <1>3, <1>4, <1>5, <1>6

\* The sums of one number more: those that were, and those that end at it,
\* which are those that ended before it and the number, and the sum of none.
LEMMA SumsGrow ==
  ASSUME NEW s \in Seq(Int), NEW v \in Int
  PROVE  /\ \A d : d \in Sums(Append(s, v)) <=> d \in Sums(s) \/ d \in Ending(Append(s, v))
         /\ \A d : d \in Ending(Append(s, v)) <=> d = 0 \/ \E e \in Ending(s) : d = e + v
<1> DEFINE z == Append(s, v)
           m == Len(s)
           T == Total(s)
           U == Total(z)
<1>1. z \in Seq(Int) /\ Len(z) = m + 1 /\ m \in Nat  BY AppendProperties
<1>2. (\A k \in 0..m : U[k] = T[k]) /\ U[m + 1] = T[m] + v  BY TotalAppends
<1>3. (\A k \in 0..m : T[k] \in Int)  BY TotalIs
<1>4. \A d : d \in Ending(s) <=> \E a \in 0..m : d = T[m] - T[a]  BY DEF Ending
<1>5. \A d : d \in Ending(z) <=> \E a \in 0..(m + 1) : d = U[m + 1] - U[a]  BY <1>1 DEF Ending
<1>6. \A d : d \in Sums(z) <=> d \in Sums(s) \/ d \in Ending(z)
  <2>1. \A d : d \in Sums(z) <=> \/ d \in Sums(s)
                                 \/ \E a \in 0..(m + 1) : d = U[m + 1] - U[a]
    BY SumsAppend
  <2> HIDE DEF z, m, T, U
  <2> QED  BY <1>5, <2>1
<1> HIDE DEF z, m, T, U
<1>7. \A d : d \in Ending(z) <=> d = 0 \/ \E e \in Ending(s) : d = e + v
  <2>1. \A a \in 0..m : a \in 0..(m + 1) /\ U[m + 1] - U[a] = (T[m] - T[a]) + v
    <3>1. m \in 0..m  BY <1>1
    <3> QED  BY <1>1, <1>2, <1>3, <3>1
  <2>2. m + 1 \in 0..(m + 1) /\ U[m + 1] - U[m + 1] = 0
    <3>1. m \in 0..m  BY <1>1
    <3>2. U[m + 1] \in Int  BY <1>2, <1>3, <3>1
    <3> QED  BY <1>1, <3>2
  <2>3. \A a \in 0..(m + 1) : a \in 0..m \/ a = m + 1  BY <1>1
  <2> TAKE d
  <2>4. ASSUME d \in Ending(z) PROVE d = 0 \/ \E e \in Ending(s) : d = e + v
    <3>1. PICK a \in 0..(m + 1) : d = U[m + 1] - U[a]  BY <1>5, <2>4
    <3>2. CASE a = m + 1  BY <2>2, <3>1, <3>2
    <3>3. CASE a \in 0..m
      <4>1. T[m] - T[a] \in Ending(s)  BY <1>4, <3>3
      <4> QED  BY <2>1, <3>1, <3>3, <4>1
    <3> QED  BY <2>3, <3>2, <3>3
  <2>5. ASSUME d = 0 PROVE d \in Ending(z)
    <3>1. d = U[m + 1] - U[m + 1]  BY <2>2, <2>5
    <3> QED  BY <1>5, <2>2, <3>1
  <2>6. ASSUME NEW e \in Ending(s), d = e + v PROVE d \in Ending(z)
    <3>1. PICK a \in 0..m : e = T[m] - T[a]  BY <1>4
    <3>2. d = U[m + 1] - U[a] /\ a \in 0..(m + 1)  BY <2>1, <2>6, <3>1
    <3> QED  BY <1>5, <3>2
  <2> QED  BY <2>4, <2>5, <2>6
<1> QED  BY <1>6, <1>7 DEF z

\* The loop of max_subarray: with the greatest sum up to the last number and
\* the greatest sum of all, one number more is enough to find both again.
LEMMA GreatestGrow ==
  ASSUME NEW s \in Seq(Int), NEW v \in Int, NEW best, NEW last,
         Greatest(best, Sums(s)), Greatest(last, Ending(s))
  PROVE  /\ best \in Int /\ last \in Int /\ last + v \in Sums(Append(s, v))
         /\ Greatest(IF best < last + v THEN last + v ELSE best, Sums(Append(s, v)))
         /\ Greatest(IF last + v < 0 THEN 0 ELSE last + v, Ending(Append(s, v)))
<1> DEFINE z == Append(s, v)
           sum == last + v
           x2 == IF best < sum THEN sum ELSE best
           y2 == IF sum < 0 THEN 0 ELSE sum
<1>1. /\ \A d : d \in Sums(z) <=> d \in Sums(s) \/ d \in Ending(z)
      /\ \A d : d \in Ending(z) <=> d = 0 \/ \E e \in Ending(s) : d = e + v
  BY SumsGrow
<1>2. Sums(s) \subseteq Int /\ 0 \in Sums(s) /\ Ending(s) \subseteq Sums(s)  BY SumsInt
<1>3. /\ best \in Sums(s) /\ \A n \in Sums(s) : n <= best
      /\ last \in Ending(s) /\ \A n \in Ending(s) : n <= last
  BY DEF Greatest
<1> HIDE DEF z
<1>4. best \in Int /\ last \in Int /\ sum \in Int /\ 0 <= best  BY <1>2, <1>3
<1>5. sum \in Ending(z) /\ 0 \in Ending(z)  BY <1>1, <1>3
<1>6. sum \in Sums(z) /\ best \in Sums(z)  BY <1>1, <1>3, <1>5
<1>7. \A d \in Ending(z) : d = 0 \/ d <= sum
  <2> TAKE d \in Ending(z)
  <2>1. ASSUME NEW e \in Ending(s), d = e + v PROVE d <= sum
    <3>1. e \in Int /\ e <= last  BY <1>2, <1>3
    <3> QED  BY <1>4, <2>1, <3>1
  <2> QED  BY <1>1, <2>1
<1>8. Ending(z) \subseteq Int
  <2>1. \A e \in Ending(s) : e + v \in Int  BY <1>2
  <2> QED  BY <1>1, <2>1
<1> HIDE DEF sum
<1>9. Greatest(y2, Ending(z))
  <2>1. y2 \in Ending(z)  BY <1>5
  <2>2. \A d \in Ending(z) : d <= y2  BY <1>4, <1>7, <1>8
  <2> QED  BY <2>1, <2>2 DEF Greatest
<1>10. Greatest(x2, Sums(z))
  <2>1. x2 \in Sums(z)  BY <1>6
  <2>2. ASSUME NEW d \in Sums(z) PROVE d <= x2
    <3>1. CASE d \in Sums(s)
      <4>1. d \in Int /\ d <= best  BY <1>2, <1>3, <3>1
      <4> QED  BY <1>4, <4>1
    <3>2. CASE d \in Ending(z)
      <4>1. d \in Int /\ (d = 0 \/ d <= sum)  BY <1>7, <1>8, <3>2
      <4> QED  BY <1>4, <4>1
    <3> QED  BY <1>1, <3>1, <3>2
  <2> QED  BY <2>1, <2>2 DEF Greatest
<1> QED  BY <1>4, <1>6, <1>9, <1>10 DEF z, sum

\* The lines of s hold numbers, and sums of them are ints.
Clean(s) == NoNumber \notin Range(s) /\ \A m \in Sums(s) : m \in -IntMax..IntMax

\* What a max_subarray thread printed, and what its block holds behind it.
SubarrayAt(t) ==
  /\ Len(heard[t]) = Len(printed[t])
  /\ \A n \in 1..Len(printed[t]) :
       Clean(SubSeq(heard[t], 1, n)) => printed[t][n] = Max(Sums(SubSeq(heard[t], 1, n)))
  /\ Len(printed[t]) < Kept =>
       /\ i[t] = Len(printed[t])
       /\ Clean(heard[t]) => /\ Greatest(x[t], Sums(heard[t]))
                             /\ Greatest(y[t], Ending(heard[t]))

\* Lines of which none is empty are numbers.
LEMMA CleanNumbers ==
  ASSUME NEW s \in Seq(Number \cup {NoNumber}), Clean(s)
  PROVE  s \in Seq(Int) /\ NoNumber \notin Range(s)
<1>1. \A n \in 1..Len(s) : s[n] \in Number \cup {NoNumber} /\ s[n] # NoNumber
  BY DEF Clean, Range
<1>2. \A n \in 1..Len(s) : s[n] \in Int  BY <1>1, IntAssumption
<1>3. s = [n \in 1..Len(s) |-> s[n]] /\ Len(s) \in Nat  OBVIOUS
<1>4. s \in [1..Len(s) -> Int]  BY <1>2, <1>3
<1> QED  BY <1>3, <1>4 DEF Clean, Seq

\* If the lines and one more are clean, so are the lines.
LEMMA CleanBefore ==
  ASSUME NEW s \in Seq(Number \cup {NoNumber}), NEW v \in Number \cup {NoNumber},
         Clean(Append(s, v))
  PROVE  Clean(s) /\ v \in Number /\ s \in Seq(Int)
<1> DEFINE z == Append(s, v)
           m == Len(s)
<1>1. z \in Seq(Number \cup {NoNumber}) /\ Len(z) = m + 1 /\ m \in Nat /\ z[m + 1] = v
      /\ \A k \in 1..m : z[k] = s[k]
  BY AppendProperties
<1>2. z \in Seq(Int) /\ NoNumber \notin Range(z)  BY <1>1, CleanNumbers
<1>3. \A k \in 1..(m + 1) : z[k] # NoNumber /\ z[k] \in Int
  <2>1. DOMAIN z = 1..(m + 1) /\ \A k \in 1..(m + 1) : z[k] \in Int  BY <1>1, <1>2
  <2> QED  BY <1>2, <2>1 DEF Range
<1>4. v # NoNumber  BY <1>1, <1>3
<1>5. \A k \in 1..m : s[k] # NoNumber /\ s[k] \in Int
  <2>1. \A k \in 1..m : k \in 1..(m + 1)  BY <1>1
  <2> QED  BY <1>1, <1>3, <2>1
<1>6. s \in Seq(Int)
  <2>1. s = [n \in 1..m |-> s[n]]  OBVIOUS
  <2>2. s \in [1..m -> Int]  BY <1>5, <2>1
  <2> QED  BY <1>1, <2>2 DEF Seq
<1>7. NoNumber \notin Range(s)
  <2>1. DOMAIN s = 1..m  OBVIOUS
  <2> QED  BY <1>5, <2>1 DEF Range
<1>8. \A d \in Sums(s) : d \in Sums(z)
  <2>1. v \in Int  BY <1>4, IntAssumption
  <2> QED  BY <1>6, <2>1, SumsGrow
<1>9. Clean(s)  BY <1>7, <1>8 DEF Clean
<1> QED  BY <1>4, <1>6, <1>9

\* The first elements stay the first.
LEMMA FirstOfAppend ==
  ASSUME NEW S, NEW s \in Seq(S), NEW v \in S, NEW m \in 1..Len(s)
  PROVE  SubSeq(Append(s, v), 1, m) = SubSeq(s, 1, m)
<1> DEFINE z == Append(s, v)
<1>1. /\ Len(z) = Len(s) + 1 /\ Len(s) \in Nat
      /\ \A k \in 1..Len(s) : z[k] = s[k] /\ s[k] \in S
  BY AppendProperties
<1> HIDE DEF z
<1>2. m \in Int /\ 1 \in Int /\ 1 <= m /\ m - 1 + 1 = m /\ \A k \in 1..m : k \in 1..Len(s) /\ 1 + k - 1 = k
  BY <1>1
<1>3. \A k \in 1..m : z[k] \in S /\ s[k] \in S /\ z[k] = s[k]  BY <1>1, <1>2
<1> DEFINE p == SubSeq(z, 1, m)
           q == SubSeq(s, 1, m)
<1>4. p \in Seq(S) /\ Len(p) = m /\ \A k \in 1..m : p[k] = z[k]
  BY <1>2, <1>3, SubSeqProperties
<1>5. q \in Seq(S) /\ Len(q) = m /\ \A k \in 1..m : q[k] = s[k]
  BY <1>2, <1>3, SubSeqProperties
<1> HIDE DEF p, q
<1>6. p = [k \in 1..m |-> p[k]] /\ q = [k \in 1..m |-> q[k]]  BY <1>4, <1>5
<1>7. \A k \in 1..m : p[k] = q[k]  BY <1>3, <1>4, <1>5
<1> QED  BY <1>6, <1>7 DEF p, q, z

LEMMA SubarrayPass ==
  ASSUME NEW t \in Thread, TypeOKPrograms, SubarrayAt(t), TypeOKPrograms', max_subarray(t)
  PROVE  SubarrayAt(t)'
<1> DEFINE s == printed[t]
           n == Len(s)
           z == printed'[t]
           h == heard[t]
           k == heard'[t]
<1>1. /\ printed \in [Thread -> Seq(Ints)] /\ s \in Seq(Ints) /\ n \in Nat /\ Kept \in Nat
      /\ heard \in [Thread -> Seq(Number \cup {NoNumber})] /\ h \in Seq(Number \cup {NoNumber})
      /\ x[t] \in Int /\ y[t] \in Int /\ i[t] \in Int
      /\ x'[t] \in Ints /\ Ints \subseteq Int /\ Kept <= IntMax
  <2>1. x'[t] \in Ints  BY DEF TypeOKPrograms, Ints
  <2> QED  BY <2>1, Blocks
<1>2. PICK line \in Lines(t) : /\ \E curr \in Scanned(line) : Add(t, curr)
                               /\ heard' = Note(heard, t, line)
  BY DEF max_subarray
<1>3. PICK curr \in Scanned(line) : Add(t, curr)  BY <1>2
<1>4. /\ i'[t] = Wrap(i[t] + 1) /\ printed' = Note(printed, t, x'[t])
      /\ x'[t] = IF x[t] < Wrap(y[t] + curr) THEN Wrap(y[t] + curr) ELSE x[t]
      /\ y'[t] = IF Wrap(y[t] + curr) < 0 THEN 0 ELSE Wrap(y[t] + curr)
  BY <1>3 DEF max_subarray, Prints, Add, TypeOKPrograms
<1>5. line \in Number \cup {NoNumber}  BY DEF Lines
<1>6. Len(h) = n /\ (\A m \in 1..n : Clean(SubSeq(h, 1, m)) => s[m] = Max(Sums(SubSeq(h, 1, m))))
      /\ (n < Kept => /\ i[t] = n
                      /\ Clean(h) => Greatest(x[t], Sums(h)) /\ Greatest(y[t], Ending(h)))
  BY DEF SubarrayAt
<1> SUFFICES
      /\ Len(k) = Len(z)
      /\ \A m \in 1..Len(z) : Clean(SubSeq(k, 1, m)) => z[m] = Max(Sums(SubSeq(k, 1, m)))
      /\ Len(z) < Kept =>
           /\ i'[t] = Len(z)
           /\ Clean(k) => Greatest(x'[t], Sums(k)) /\ Greatest(y'[t], Ending(k))
  BY DEF SubarrayAt
<1>7. CASE n >= Kept
  <2>1. z = s /\ k = h
    <3>1. Len(printed[t]) >= Kept /\ Len(heard[t]) >= Kept  BY <1>6, <1>7
    <3>2. PICK v \in Ints : v = x'[t]  BY <1>1
    <3>3. /\ printed \in [Thread -> Seq(Ints)] /\ line \in Number \cup {NoNumber}
          /\ heard \in [Thread -> Seq(Number \cup {NoNumber})]
      BY <1>1, <1>5
    <3>4. Note(printed, t, v)[t] = printed[t]  BY <3>1, <3>3, Noted
    <3>5. Note(heard, t, line)[t] = heard[t]  BY <3>1, <3>3, Noted
    <3> QED  BY <1>2, <1>4, <3>2, <3>4, <3>5
  <2> HIDE DEF z, k, s, h
  <2> QED  BY <1>1, <1>6, <1>7, <2>1 DEF n
<1>8. CASE n < Kept
  <2>a. z = Append(s, x'[t])
    <3>1. Len(printed[t]) < Kept  BY <1>8
    <3>2. PICK v \in Ints : v = x'[t]  BY <1>1
    <3>3. printed \in [Thread -> Seq(Ints)]  BY <1>1
    <3>4. Note(printed, t, v)[t] = Append(printed[t], v)  BY <3>1, <3>3, Noted
    <3> QED  BY <1>4, <3>2, <3>4
  <2>b. k = Append(h, line)
    <3>1. Len(heard[t]) < Kept  BY <1>6, <1>8
    <3>2. line \in Number \cup {NoNumber} /\ heard \in [Thread -> Seq(Number \cup {NoNumber})]
      BY <1>1, <1>5
    <3>3. Note(heard, t, line)[t] = Append(heard[t], line)  BY <3>1, <3>2, Noted
    <3> QED  BY <1>2, <3>3
  <2>1. z = Append(s, x'[t]) /\ k = Append(h, line)  BY <2>a, <2>b
  <2>2. /\ Len(z) = n + 1 /\ z[n + 1] = x'[t] /\ \A m \in 1..n : z[m] = s[m]
        /\ k \in Seq(Number \cup {NoNumber}) /\ Len(k) = n + 1
    BY <1>1, <1>5, <1>6, <2>1, AppendProperties
  <2>3. \A m \in 1..n : SubSeq(k, 1, m) = SubSeq(h, 1, m)
    <3> TAKE m \in 1..n
    <3>1. m \in 1..Len(h)  BY <1>6
    <3> QED  BY <1>1, <1>5, <2>1, <3>1, FirstOfAppend
  <2>4. SubSeq(k, 1, n + 1) = k  BY <2>2, SubSeqFull
  <2>5. i'[t] = n + 1
    <3>1. n + 1 \in Ints  BY <1>1, <1>8, IntAssumption DEF Ints
    <3> QED  BY <1>4, <1>6, <1>8, <3>1, WrapInts
  <2>6. ASSUME Clean(k)
        PROVE  Greatest(x'[t], Sums(k)) /\ Greatest(y'[t], Ending(k)) /\ x'[t] = Max(Sums(k))
    <3>1. Clean(h) /\ line \in Number /\ h \in Seq(Int)
      <4>1. h \in Seq(Number \cup {NoNumber}) /\ Clean(Append(h, line))  BY <1>1, <2>1, <2>6
      <4> HIDE DEF h
      <4> QED  BY <1>5, <4>1, CleanBefore
    <3>2. curr = line /\ line \in Int  BY <3>1, IntAssumption DEF Scanned
    <3>3. Greatest(x[t], Sums(h)) /\ Greatest(y[t], Ending(h))  BY <1>6, <1>8, <3>1
    <3>4. /\ y[t] + line \in Sums(k)
          /\ Greatest(IF x[t] < y[t] + line THEN y[t] + line ELSE x[t], Sums(k))
          /\ Greatest(IF y[t] + line < 0 THEN 0 ELSE y[t] + line, Ending(k))
      BY <2>1, <3>1, <3>2, <3>3, GreatestGrow
    <3>5. Wrap(y[t] + curr) = y[t] + line
      <4>1. y[t] + line \in Ints  BY <2>6, <3>4, IntAssumption DEF Clean, Ints
      <4> QED  BY <3>2, <4>1, WrapInts
    <3>6. Greatest(x'[t], Sums(k)) /\ Greatest(y'[t], Ending(k))
      BY <1>4, <3>4, <3>5
    <3>7. Sums(k) \in SUBSET Int
      <4>1. k \in Seq(Int)  BY <2>2, <2>6, CleanNumbers
      <4> QED  BY <4>1, SumsInt
    <3> QED  BY <3>6, <3>7, GreatestIsMax
  <2>7. \A m \in 1..(n + 1) : m \in 1..n \/ m = n + 1  BY <1>1
  <2> HIDE DEF z, k, s, h
  <2>8. ASSUME NEW m \in 1..(n + 1), Clean(SubSeq(k, 1, m)) PROVE z[m] = Max(Sums(SubSeq(k, 1, m)))
    <3>1. CASE m \in 1..n  BY <1>6, <2>2, <2>3, <2>8, <3>1
    <3>2. CASE m = n + 1  BY <2>2, <2>4, <2>6, <2>8, <3>2
    <3> QED  BY <2>7, <3>1, <3>2
  <2> HIDE DEF n
  <2> QED  BY <2>2, <2>5, <2>6, <2>8
<1> QED  BY <1>1, <1>7, <1>8

-----------------------------------------------------------------------------
(* The last pass.                                                          *)

\* Thread t has called thread_exit: the scheduler freed it or is about to.
Over(t) == env[t] = "freed" \/ (Scheduling /\ status = 3 /\ t = RUNNING)

\* Thread t printed all of it if it is over, and not yet otherwise.
PassesAt(t) ==
  \A p \in Passes(t) : IF Over(t) THEN Len(printed[t]) = p ELSE Len(printed[t]) < p

\* What each thread printed, and what its block holds.
PrintedAt(t) ==
  /\ function[t] = "fibonacci" => FibonacciAt(t)
  /\ function[t] = "collatz" => CollatzAt(t)
  /\ function[t] = "max_subarray" => SubarrayAt(t)

\* A pass of another thread, and a step without one, change neither.
LEMMA PrintedElsewhere ==
  ASSUME NEW t, PrintedAt(t), arg' = arg, printed'[t] = printed[t], heard'[t] = heard[t],
         i'[t] = i[t], x'[t] = x[t], y'[t] = y[t]
  PROVE  PrintedAt(t)'
<1>1. CollatzAt(t) => CollatzAt(t)'  BY DEF CollatzAt
<1>2. SubarrayAt(t) => SubarrayAt(t)'  BY DEF SubarrayAt
<1>3. FibonacciAt(t) => FibonacciAt(t)'  BY DEF FibonacciAt, Keeps
<1> QED  BY <1>1, <1>2, <1>3 DEF PrintedAt

LEMMA PrintedPass ==
  ASSUME NEW t \in Thread, TypeOKPrograms, TypeOKPrograms', PrintedAt(t), Pass(t)
  PROVE  PrintedAt(t)'
<1>1. arg' = arg  BY DEF Pass
<1>2. CASE function[t] = "fibonacci"
  <2>1. fibonacci(t) /\ FibonacciAt(t)  BY <1>2 DEF Pass, PrintedAt
  <2>2. FibonacciAt(t)'  BY <2>1, FibonacciPass
  <2> QED  BY <1>2, <2>2 DEF PrintedAt
<1>3. CASE function[t] = "collatz"
  <2>1. collatz(t) /\ CollatzAt(t)  BY <1>3 DEF Pass, PrintedAt
  <2>2. CollatzAt(t)'  BY <1>1, <2>1, CollatzPass
  <2> QED  BY <1>3, <2>2 DEF PrintedAt
<1>4. CASE function[t] = "max_subarray"
  <2>1. max_subarray(t) /\ SubarrayAt(t)  BY <1>4 DEF Pass, PrintedAt
  <2>2. SubarrayAt(t)'  BY <2>1, SubarrayPass
  <2> QED  BY <1>4, <2>2 DEF PrintedAt
<1> QED  BY <1>2, <1>3, <1>4, FunctionAssumption

\* The pass that prints the last number finds that it was the last.
LEMMA LastCounts ==
  ASSUME NEW t \in Thread, TypeOKPrograms, TypeOKPrograms', PrintedAt(t), Pass(t),
         NEW p \in Passes(t), Len(printed[t]) < p
  PROVE  /\ Len(printed'[t]) = Len(printed[t]) + 1
         /\ Finished(t) <=> Len(printed[t]) + 1 = p
<1> DEFINE n == Len(printed[t])
           a == arg[t]
<1>1. /\ printed \in [Thread -> Seq(Ints)] /\ printed[t] \in Seq(Ints) /\ n \in Nat /\ Kept \in Nat
      /\ Kept <= IntMax /\ Ints \subseteq Int /\ a \in Nat /\ a <= IntMax
  BY Blocks, ArgIsNat
<1>2. p \in 1..Kept /\ n < Kept
  <2>1. p \in 1..Kept  BY DEF Passes
  <2> QED  BY <1>1, <2>1
<1>3. n + 1 \in Ints /\ Wrap(n + 1) = n + 1
  <2>1. n + 1 \in Ints  BY <1>1, <1>2, IntAssumption DEF Ints
  <2> QED  BY <2>1, WrapInts
<1>4. i'[t] \in Ints /\ x'[t] \in Ints /\ y'[t] \in Ints  BY DEF TypeOKPrograms, Ints
<1>5. Len(printed'[t]) = n + 1
  <2>1. \E v \in Ints : printed' = Note(printed, t, v)
    BY <1>4 DEF Pass, fibonacci, collatz, max_subarray, Prints
  <2>2. PICK v \in Ints : printed' = Note(printed, t, v)  BY <2>1
  <2>3. printed'[t] = Append(printed[t], v)  BY <1>1, <1>2, <2>2, Noted
  <2> QED  BY <1>1, <2>3, AppendProperties
<1>6. CASE function[t] # "collatz"
  <2>1. p = a  BY <1>6 DEF Passes
  <2>2. i[t] = n
    <3>1. function[t] = "fibonacci" => Keeps(t, printed[t])  BY <1>2 DEF PrintedAt, FibonacciAt
    <3>2. function[t] = "max_subarray" => SubarrayAt(t)  BY DEF PrintedAt
    <3> QED  BY <1>2, <1>6, <3>1, <3>2, FunctionAssumption DEF Keeps, SubarrayAt
  <2>3. i'[t] = Wrap(i[t] + 1)
    BY <1>6 DEF Pass, fibonacci, max_subarray, TypeOKPrograms
  <2> QED  BY <1>3, <1>5, <1>6, <2>1, <2>2, <2>3 DEF Finished
<1>7. CASE function[t] = "collatz"
  <2> DEFINE O == Orbit(a)
  <2>1. O[p] = 1 /\ OrbitFits(p, a) /\ \A k \in 1..(p - 1) : O[k] # 1
    BY <1>7 DEF Passes
  <2>2. OrbitFits(n + 1, a) /\ n + 1 \in 1..p
    <3>1. n + 1 \in 1..p /\ \A k \in 0..(n + 1) : k \in 0..p  BY <1>1, <1>2
    <3> QED  BY <2>1, <3>1 DEF OrbitFits
  <2>3. i'[t] = O[n + 1]
    <3>1. collatz(t) /\ CollatzAt(t)  BY <1>7 DEF Pass, PrintedAt
    <3>2. CollatzAt(t)'
      <4>1. arg' = arg  BY DEF Pass
      <4> QED  BY <3>1, <4>1, CollatzPass
    <3>3. printed'[t][n + 1] = O[n + 1]
      <4>1. arg' = arg  BY DEF Pass
      <4>2. n + 1 \in 1..Len(printed'[t])  BY <1>1, <1>5
      <4> QED  BY <2>2, <3>2, <4>1, <4>2 DEF CollatzAt
    <3>4. printed'[t] = Append(printed[t], i'[t])
      <4>1. printed' = Note(printed, t, i'[t])  BY <3>1 DEF collatz, Prints
      <4> QED  BY <1>1, <1>2, <1>4, <4>1, Noted
    <3>5. printed'[t][n + 1] = i'[t]  BY <1>1, <1>4, <3>4, AppendProperties
    <3> QED  BY <3>3, <3>5
  <2> HIDE DEF O
  <2>4. O[n + 1] = 1 <=> n + 1 = p
    <3>1. n + 1 = p \/ n + 1 \in 1..(p - 1)  BY <1>1, <1>2, <2>2
    <3> QED  BY <2>1, <3>1
  <2> QED  BY <1>5, <1>7, <2>3, <2>4 DEF Finished
<1> QED  BY <1>6, <1>7

\* Only thread_exit makes a thread be over.
LEMMA OverKept ==
  ASSUME Inv, Library \/ World \/ UNCHANGED vars, NEW t \in Thread
  PROVE  Over(t)' <=> Over(t)
<1>1. TypeOK  BY DEF Inv
<1>2. CASE AsyncRead
  <2>1. env[RUNNING] # "freed" /\ RUNNING \in Thread
    BY <1>2, RunningReady DEF AsyncRead, OnThread, Inv, NoThreadLost
  <2> QED  BY <1>1, <1>2, <2>1 DEF AsyncRead, Over, Scheduling, TypeOK
<1>3. CASE CatchTSTP \/ CatchALRM
  BY <1>3 DEF CatchTSTP, CatchALRM, SigHandler, queues, Over, Scheduling
<1>4. CASE NoTSTP \/ NoALRM \/ Start \/ Block \/ EndRescan \/ Rotate
  BY <1>4 DEF NoTSTP, NoALRM, Start, Block, EndRescan, Rotate, queues, Over, Scheduling
<1>5. CASE Poll \/ EndScan
  BY <1>5 DEF Poll, EndScan, queues, Over, Scheduling, RUNNING
<1>6. CASE Wake
  <2>1. CASE pc = "rescan"  BY <1>6, <2>1 DEF Wake, Over, Scheduling
  <2>2. CASE pc = "scan"
    <3>1. rq_current + 1 \in 1..Len(ready_queue)
      BY <1>1, <2>2 DEF Inv, Control, TypeOK, Scheduling, rq_size
    <3>2. RUNNING' = RUNNING
      BY <1>1, <1>6, <3>1 DEF Wake, Awaken, RUNNING, TypeOK
    <3> QED  BY <1>6, <3>2 DEF Wake, Over, Scheduling
  <2> QED  BY <1>6, <2>1, <2>2 DEF Wake
<1>7. CASE Exit
  BY <1>1, <1>7 DEF Exit, Resume, Over, Scheduling, TypeOK
<1>8. CASE Wait
  BY <1>8 DEF Wait, Resume, Over, Scheduling
<1>9. CASE World
  BY <1>9 DEF World, Alarm, Stop, Open, Send, Close, queues, Over, Scheduling, RUNNING
<1>10. CASE UNCHANGED vars
  BY <1>10 DEF vars, Over, Scheduling, RUNNING
<1> QED  BY <1>2, <1>3, <1>4, <1>5, <1>6, <1>7, <1>8, <1>9, <1>10 DEF Library

-----------------------------------------------------------------------------
(* Every thread prints what it should.                                     *)

ProgramsInv == \A t \in Thread : PrintedAt(t) /\ PassesAt(t)

LEMMA ProgramsInvInit == InitPrograms => ProgramsInv
<1> SUFFICES ASSUME InitPrograms, NEW t \in Thread PROVE PrintedAt(t) /\ PassesAt(t)
  BY DEF ProgramsInv
<1>1. /\ printed[t] = <<>> /\ heard[t] = <<>> /\ x[t] = 0 /\ y[t] = 0
      /\ i[t] = IF function[t] = "collatz" THEN arg[t] ELSE 0
      /\ env[t] = "setup" /\ pc = "start" /\ arg[t] \in Nat
  BY ArgIsNat, TypesInit DEF InitPrograms, Init
<1>2. Len(<<>>) = 0 /\ <<>> \in Seq(Int)  OBVIOUS
<1>3. \A n \in 1..Len(<<>>) : FALSE  BY <1>2
<1>4. CollatzAt(t) \/ function[t] # "collatz"
  <2>1. Orbit(arg[t])[0] = arg[t]  BY <1>1, OrbitIs
  <2> QED  BY <1>1, <1>2, <1>3, <2>1 DEF CollatzAt
<1>5. SubarrayAt(t) \/ function[t] # "max_subarray"
  <2>1. Total(<<>>)[0] = 0  BY <1>2, TotalIs
  <2>2. \A a : a \in 0..0 <=> a = 0  OBVIOUS
  <2>3. Ending(<<>>) = {0}  BY <1>2, <2>1, <2>2 DEF Ending
  <2>4. Sums(<<>>) = {0}
    <3>1. \A d : d \in Sums(<<>>) <=> \E b \in 0..0 : \E a \in 0..b : d = Total(<<>>)[b] - Total(<<>>)[a]
      BY <1>2 DEF Sums
    <3>2. \A d : d \in Sums(<<>>) <=> d = 0 - 0  BY <2>1, <2>2, <3>1
    <3> QED  BY <3>2
  <2>5. Greatest(0, {0})  BY DEF Greatest
  <2> QED  BY <1>1, <1>2, <1>3, <2>3, <2>4, <2>5 DEF SubarrayAt
<1>6. FibonacciAt(t) \/ function[t] # "fibonacci"
  BY <1>1, <1>2, <1>3 DEF FibonacciAt, Recurrent, Keeps
<1>7. PassesAt(t)
  <2>1. ~Over(t)  BY <1>1 DEF Over, Scheduling
  <2>2. \A p \in Passes(t) : p \in 1..Kept /\ p > 0  BY IntAssumption DEF Passes
  <2> QED  BY <1>1, <1>2, <2>1, <2>2 DEF PassesAt
<1> QED  BY <1>4, <1>5, <1>6, <1>7 DEF PrintedAt

\* A step without a pass.
LEMMA ProgramsInvIdle ==
  ASSUME ProgramsInv, Inv, Library \/ World \/ UNCHANGED vars, UNCHANGED data
  PROVE  ProgramsInv'
<1> SUFFICES ASSUME NEW t \in Thread PROVE PrintedAt(t)' /\ PassesAt(t)'  BY DEF ProgramsInv
<1>1. PrintedAt(t) /\ PassesAt(t)  BY DEF ProgramsInv
<1>2. PrintedAt(t)'  BY <1>1, PrintedElsewhere DEF data
<1>3. Over(t)' <=> Over(t)  BY OverKept
<1>4. Passes(t)' = Passes(t) /\ printed' = printed  BY DEF Passes, data
<1> QED  BY <1>1, <1>2, <1>3, <1>4 DEF PassesAt

\* A pass, and whether it is found to be the last.
LEMMA ProgramsInvPass ==
  ASSUME ProgramsInv, Inv, TypeOKPrograms, TypeOKPrograms', LastPass \/ NextPass
  PROVE  ProgramsInv'
<1>1. PICK r \in Thread :
        /\ r = RUNNING /\ pc = "thread" /\ Pass(r)
        /\ env[r] # "freed" /\ env \in [Thread -> {"setup", "yield", "read", "freed"}]
  <2>1. pc = "thread" /\ Pass(RUNNING)  BY DEF LastPass, NextPass, ThreadExit, ThreadYield
  <2>2. OnThread  BY <2>1 DEF OnThread
  <2> QED  BY <2>1, <2>2, RunningReady DEF Inv, NoThreadLost, TypeOK
<1>2. \A t \in Thread : PrintedAt(t)'
  <2> TAKE t \in Thread
  <2>1. PrintedAt(t)  BY DEF ProgramsInv
  <2>2. CASE t = r  BY <1>1, <2>1, <2>2, PrintedPass
  <2>3. CASE t # r  BY <1>1, <2>1, <2>3, PassElsewhere, PrintedElsewhere
  <2> QED  BY <2>2, <2>3
<1>3. \A t \in Thread : ~Over(t) \/ t # r  BY <1>1 DEF Over, Scheduling
<1>4. \A t \in Thread : t # r => (Over(t)' <=> Over(t))
  BY <1>1 DEF LastPass, NextPass, ThreadExit, ThreadYield, Over, Scheduling, queues, RUNNING
<1>5. Over(r)' <=> Finished(r)
  <2>1. CASE LastPass
    <3>1. env'[r] = env[r] /\ pc' = "poll" /\ status' = 3 /\ RUNNING' = r /\ Finished(r)
      BY <1>1, <2>1 DEF LastPass, ThreadExit, queues, RUNNING
    <3> QED  BY <3>1 DEF Over, Scheduling
  <2>2. CASE NextPass
    <3>1. env'[r] = "yield" /\ pc' = "tstp" /\ ~Finished(r)
      BY <1>1, <2>2 DEF NextPass, ThreadYield
    <3> QED  BY <3>1 DEF Over, Scheduling
  <2> QED  BY <2>1, <2>2
<1>6. \A t \in Thread : Passes(t)' = Passes(t)
  <2>1. arg' = arg  BY <1>1 DEF Pass
  <2> QED  BY <2>1 DEF Passes
<1>7. ASSUME NEW t \in Thread, NEW p \in Passes(t)
      PROVE  IF Over(t)' THEN Len(printed'[t]) = p ELSE Len(printed'[t]) < p
  <2>1. PrintedAt(t) /\ IF Over(t) THEN Len(printed[t]) = p ELSE Len(printed[t]) < p
    BY DEF ProgramsInv, PassesAt
  <2>2. CASE t = r
    <3>1. Len(printed[t]) < p  BY <1>3, <2>1, <2>2
    <3>2. /\ Len(printed'[t]) = Len(printed[t]) + 1
          /\ Finished(t) <=> Len(printed[t]) + 1 = p
      BY <1>1, <2>1, <2>2, <3>1, LastCounts
    <3>3. Len(printed[t]) \in Nat /\ p \in Nat
      BY Blocks, IntAssumption DEF Passes
    <3> QED  BY <1>5, <2>2, <3>1, <3>2, <3>3
  <2>3. CASE t # r
    <3>1. printed'[t] = printed[t]  BY <1>1, <2>3, PassElsewhere
    <3> QED  BY <1>4, <2>1, <2>3, <3>1
  <2> QED  BY <2>2, <2>3
<1>8. \A t \in Thread : PassesAt(t)'  BY <1>6, <1>7 DEF PassesAt
<1> QED  BY <1>2, <1>8 DEF ProgramsInv

LEMMA ProgramsInvAlways == SpecPrograms => []ProgramsInv
<1>1. ProgramsInv /\ Inv /\ TypeOKPrograms /\ TypeOKPrograms' /\ [NextPrograms]_varsPrograms
        => ProgramsInv'
  <2> SUFFICES ASSUME ProgramsInv, Inv, TypeOKPrograms, TypeOKPrograms', [NextPrograms]_varsPrograms
               PROVE  ProgramsInv'
    OBVIOUS
  <2>1. \/ LastPass \/ NextPass
        \/ (Library \/ World \/ UNCHANGED vars) /\ UNCHANGED data
    BY DEF NextPrograms, RunPrograms, varsPrograms
  <2> QED  BY <2>1, ProgramsInvPass, ProgramsInvIdle
<1> QED  BY <1>1, ProgramsInvInit, ProgramsTypeCorrect, InvPrograms, PTL DEF SpecPrograms

\* What a fibonacci thread prints is each time the sum of the last two numbers
\* it printed, in the int's arithmetic, whatever runs between the two passes.
THEOREM FibonacciPrintsSums ==
  SpecPrograms => [](\A t \in Thread : function[t] = "fibonacci" => Recurrent(printed[t]))
<1>1. ProgramsInv => \A t \in Thread : function[t] = "fibonacci" => Recurrent(printed[t])
  BY DEF ProgramsInv, PrintedAt, FibonacciAt
<1> QED  BY <1>1, ProgramsInvAlways, PTL

\* Each thread prints the Fibonacci numbers, the way of its argument to 1, or
\* the greatest sums of the numbers it was sent, and a thread that ended printed
\* all of them: for any threads, arguments and input, and any int.
THEOREM PrintsRight == SpecPrograms => []PrintedRight
<1>1. ProgramsInv /\ TypeOKPrograms => PrintedRight
  <2> SUFFICES ASSUME ProgramsInv, TypeOKPrograms, NEW t \in Thread
               PROVE  /\ \A n \in 1..Len(printed[t]) : Right(t, n)
                      /\ \A p \in Passes(t) : /\ Len(printed[t]) <= p
                                              /\ env[t] = "freed" => Len(printed[t]) = p
    BY DEF PrintedRight
  <2>1. PrintedAt(t) /\ PassesAt(t)  BY DEF ProgramsInv
  <2>2. ASSUME NEW n \in 1..Len(printed[t]) PROVE Right(t, n)
    <3>1. CASE function[t] = "fibonacci"
      <4>1. Recurrent(printed[t]) /\ Len(printed[t]) \in Nat
        BY <2>1, <3>1, Blocks DEF PrintedAt, FibonacciAt
      <4>2. printed[t][n] = Wrap(Fibonacci[n])  BY <4>1, RecurrentIsFibonacci
      <4> QED  BY <3>1, <4>2 DEF Right
    <3>2. CASE function[t] = "collatz"
      <4>1. OrbitFits(n, arg[t]) => printed[t][n] = Orbit(arg[t])[n]
        BY <2>1, <3>2 DEF PrintedAt, CollatzAt
      <4> QED  BY <3>2, <4>1 DEF Right
    <3>3. CASE function[t] = "max_subarray"
      <4>1. Clean(SubSeq(heard[t], 1, n)) => printed[t][n] = Max(Sums(SubSeq(heard[t], 1, n)))
        BY <2>1, <3>3 DEF PrintedAt, SubarrayAt
      <4> QED  BY <3>3, <4>1 DEF Right, Clean
    <3> QED  BY <3>1, <3>2, <3>3, FunctionAssumption
  <2>3. ASSUME NEW p \in Passes(t)
        PROVE  /\ Len(printed[t]) <= p
               /\ env[t] = "freed" => Len(printed[t]) = p
    <3>1. Len(printed[t]) \in Nat /\ p \in Nat  BY Blocks, IntAssumption DEF Passes
    <3>2. IF Over(t) THEN Len(printed[t]) = p ELSE Len(printed[t]) < p  BY <2>1 DEF PassesAt
    <3> QED  BY <3>1, <3>2 DEF Over
  <2> QED  BY <2>2, <2>3
<1> QED  BY <1>1, ProgramsInvAlways, ProgramsTypeCorrect, PTL

=============================================================================
