-------------------------- MODULE UserThreadsProofs -------------------------
(* Theorems about UserThreads, for every number of threads: its invariants, *)
(* and that it implements ThreadLife.                                      *)
EXTENDS ThreadsRefinement, SequenceTheorems, TLAPS

USE DEF rq_size, wq_size

-----------------------------------------------------------------------------
(* What the scheduler's four operations on its arrays do to the threads    *)
(* held in them.                                                           *)

\* An array built from its entries.
LEMMA Built ==
  ASSUME NEW S, NEW n \in Nat, NEW f \in [1..n -> S]
  PROVE  f \in Seq(S) /\ Len(f) = n
<1>1. f \in Seq(S)  BY SeqDef
<1> QED  BY <1>1, LenProperties

\* Appending a thread that is not there adds it.
LEMMA AppendHolds ==
  ASSUME NEW S, NEW q \in Seq(S), NEW x \in S
  PROVE  /\ Append(q, x) \in Seq(S)
         /\ Len(Append(q, x)) = Len(q) + 1
         /\ Entries(Append(q, x)) = Entries(q) \cup {x}
         /\ Distinct(q) /\ x \notin Entries(q) => Distinct(Append(q, x))
<1> DEFINE a == Append(q, x)
<1>1. a \in Seq(S) /\ Len(a) = Len(q) + 1 /\ Len(q) \in Nat
  BY AppendProperties, LenProperties
<1>2. \A i \in 1..Len(q) : a[i] = q[i]  BY AppendProperties
<1>3. a[Len(q) + 1] = x  BY AppendProperties
<1>4. 1..Len(a) = 1..Len(q) \cup {Len(q) + 1}  BY <1>1
<1> HIDE DEF a
<1>5. Entries(a) = Entries(q) \cup {x}
  BY <1>1, <1>2, <1>3, <1>4 DEF Entries
<1>6. ASSUME Distinct(q), x \notin Entries(q) PROVE Distinct(a)
  <2> SUFFICES ASSUME NEW i \in 1..Len(a), NEW j \in 1..Len(a), a[i] = a[j]
               PROVE  i = j
    BY DEF Distinct
  <2>1. \A k \in 1..Len(q) : a[k] # x  BY <1>2, <1>6 DEF Entries
  <2>2. CASE i = Len(q) + 1 \/ j = Len(q) + 1  BY <2>1, <2>2, <1>3, <1>4
  <2>3. CASE i \in 1..Len(q) /\ j \in 1..Len(q)
    BY <2>3, <1>2, <1>6 DEF Distinct
  <2> QED  BY <2>2, <2>3, <1>4
<1> QED  BY <1>1, <1>5, <1>6 DEF a

\* Moving up the entries behind an entry takes out that one.
LEMMA WithoutHolds ==
  ASSUME NEW S, NEW q \in Seq(S), NEW i \in Nat, i < Len(q), Distinct(q)
  PROVE  /\ Without(q, i) \in Seq(S)
         /\ Len(Without(q, i)) = Len(q) - 1
         /\ Entries(Without(q, i)) = Entries(q) \ {q[i + 1]}
         /\ Distinct(Without(q, i))
<1> DEFINE w == Without(q, i)
           n == Len(q) - 1
<1>1. Len(q) \in Nat /\ n \in Nat /\ \A j \in 1..Len(q) : q[j] \in S
  BY LenProperties, ElementOfSeq
<1>2. w \in [1..n -> S]
  BY <1>1 DEF Without
<1>3. w \in Seq(S) /\ Len(w) = n  BY <1>1, <1>2, Built
<1>4. \A j \in 1..n : w[j] = IF j <= i THEN q[j] ELSE q[j + 1]
  BY DEF Without
<1> HIDE DEF w
<1>5. Distinct(w)
  <2> SUFFICES ASSUME NEW j \in 1..n, NEW k \in 1..n, w[j] = w[k] PROVE j = k
    BY <1>3 DEF Distinct
  <2> DEFINE at(l) == IF l <= i THEN l ELSE l + 1
  <2>1. at(j) \in 1..Len(q) /\ at(k) \in 1..Len(q)  BY <1>1
  <2>2. q[at(j)] = q[at(k)]  BY <1>4
  <2>3. at(j) = at(k)  BY <2>1, <2>2 DEF Distinct
  <2> QED  BY <2>3
<1>6. Entries(w) \subseteq Entries(q) \ {q[i + 1]}
  <2> SUFFICES ASSUME NEW j \in 1..n PROVE w[j] \in Entries(q) \ {q[i + 1]}
    BY <1>3 DEF Entries
  <2> DEFINE l == IF j <= i THEN j ELSE j + 1
  <2>1. l \in 1..Len(q) /\ l # i + 1 /\ i + 1 \in 1..Len(q)  BY <1>1
  <2>2. w[j] = q[l]  BY <1>4
  <2> QED  BY <2>1, <2>2 DEF Entries, Distinct
<1>7. Entries(q) \ {q[i + 1]} \subseteq Entries(w)
  <2> SUFFICES ASSUME NEW j \in 1..Len(q), q[j] # q[i + 1] PROVE q[j] \in Entries(w)
    BY DEF Entries
  <2> DEFINE l == IF j <= i THEN j ELSE j - 1
  <2>1. j # i + 1  OBVIOUS
  <2>2. l \in 1..n /\ w[l] = q[j]  BY <1>1, <1>4, <2>1
  <2> QED  BY <2>2, <1>3 DEF Entries
<1> QED  BY <1>3, <1>5, <1>6, <1>7 DEF w

\* Putting the last entry in the place of an entry takes out that one.
LEMMA SwapOutHolds ==
  ASSUME NEW S, NEW q \in Seq(S), NEW i \in Nat, i < Len(q), Distinct(q)
  PROVE  /\ SwapOut(q, i) \in Seq(S)
         /\ Len(SwapOut(q, i)) = Len(q) - 1
         /\ Entries(SwapOut(q, i)) = Entries(q) \ {q[i + 1]}
         /\ Distinct(SwapOut(q, i))
<1> DEFINE w == SwapOut(q, i)
           n == Len(q) - 1
<1>1. Len(q) \in Nat /\ n \in Nat /\ \A j \in 1..Len(q) : q[j] \in S
  BY LenProperties, ElementOfSeq
<1>2. w \in [1..n -> S]
  BY <1>1 DEF SwapOut
<1>3. w \in Seq(S) /\ Len(w) = n  BY <1>1, <1>2, Built
<1>4. \A j \in 1..n : w[j] = IF j = i + 1 THEN q[Len(q)] ELSE q[j]
  BY DEF SwapOut
<1> HIDE DEF w
<1>5. Distinct(w)
  <2> SUFFICES ASSUME NEW j \in 1..n, NEW k \in 1..n, w[j] = w[k] PROVE j = k
    BY <1>3 DEF Distinct
  <2> DEFINE at(l) == IF l = i + 1 THEN Len(q) ELSE l
  <2>1. at(j) \in 1..Len(q) /\ at(k) \in 1..Len(q)  BY <1>1
  <2>2. q[at(j)] = q[at(k)]  BY <1>4
  <2>3. at(j) = at(k)  BY <2>1, <2>2 DEF Distinct
  <2> QED  BY <2>3
<1>6. Entries(w) \subseteq Entries(q) \ {q[i + 1]}
  <2> SUFFICES ASSUME NEW j \in 1..n PROVE w[j] \in Entries(q) \ {q[i + 1]}
    BY <1>3 DEF Entries
  <2> DEFINE l == IF j = i + 1 THEN Len(q) ELSE j
  <2>1. l \in 1..Len(q) /\ l # i + 1 /\ i + 1 \in 1..Len(q)  BY <1>1
  <2>2. w[j] = q[l]  BY <1>4
  <2> QED  BY <2>1, <2>2 DEF Entries, Distinct
<1>7. Entries(q) \ {q[i + 1]} \subseteq Entries(w)
  <2> SUFFICES ASSUME NEW j \in 1..Len(q), q[j] # q[i + 1] PROVE q[j] \in Entries(w)
    BY DEF Entries
  <2> DEFINE l == IF j = Len(q) THEN i + 1 ELSE j
  <2>1. j # i + 1  OBVIOUS
  <2>2. l \in 1..n /\ w[l] = q[j]  BY <1>1, <1>4, <2>1
  <2> QED  BY <2>2, <1>3 DEF Entries
<1> QED  BY <1>3, <1>5, <1>6, <1>7 DEF w

-----------------------------------------------------------------------------
(* The inductive invariant.  It is the conjunction of the properties, which *)
(* say where every thread is, and of what ties the control to them.         *)

Scheduling == pc \in {"poll", "scan", "switch"}

\* The control and the queues: RUNNING exists where it is used, the first
\* thread is the one that goes on after a wait, that wait ends only with a
\* thread that was awakened, and the program ends with empty queues.
Control ==
  /\ OnThread \/ Scheduling => rq_current < rq_size
  /\ pc \in {"start", "block", "rescan"} => rq_current = 0
  /\ Scheduling => status \in 1..3
  /\ pc = "rescan" /\ rq_size = 0 =>
       \E i \in 1..wq_size : i > next /\ waiting_queue[i] \in master
  /\ pc = "start" => waiting_queue = <<>>
  /\ pc = "block" => waiting_queue # <<>>
  /\ pc = "done" => ready_queue = <<>> /\ waiting_queue = <<>>

\* What threads find when they go on: one that will go on behind async_read
\* has input, and so has one that the scheduler is about to awaken; one that
\* was stopped by a signal goes on in thread_yield.
Inputs ==
  /\ pc \in {"scan", "rescan"} => \A t \in master : Readable(t)
  /\ \A t \in Entries(ready_queue) :
       env[t] = "read" => Readable(t) \/ (Scheduling /\ t = RUNNING)
  /\ pc \in {"tstp", "alrm"} \/ (Scheduling /\ status = 1) => env[RUNNING] = "yield"

Inv ==
  /\ TypeOK
  /\ NoThreadLost
  /\ readfds = Entries(waiting_queue)
  /\ AlarmGoesOn
  /\ Control
  /\ Inputs

\* In the states of the invariant RUNNING is a ready thread where it is used.
LEMMA RunningReady ==
  ASSUME Inv, OnThread \/ Scheduling
  PROVE  /\ RUNNING \in Entries(ready_queue)
         /\ RUNNING \in Thread
         /\ rq_current + 1 \in 1..rq_size
         /\ rq_size \in Nat
<1>1. ready_queue \in Seq(Thread) /\ rq_current \in Nat
  BY DEF Inv, TypeOK
<1>2. rq_size \in Nat
  BY <1>1, LenProperties
<1>3. rq_current + 1 \in 1..rq_size
  BY <1>1, <1>2 DEF Inv, Control
<1> QED
  BY <1>1, <1>2, <1>3, ElementOfSeq DEF Entries, RUNNING

\* The invariant holds at the start: init_threads has filled the ready queue.
LEMMA InvInit == Init => Inv
<1> SUFFICES ASSUME Init PROVE Inv  OBVIOUS
<1> USE DEF Init
<1>1. Entries(<<>>) = {} /\ Distinct(<<>>) /\ <<>> \in Seq(Thread) /\ Len(<<>>) = 0
  BY EmptySeq DEF Entries, Distinct
<1>2. Entries(Created) = Thread /\ Distinct(Created)
  BY CreatedAssumption, ElementOfSeq DEF Entries, Distinct
<1>3. TypeOK
  BY <1>1, CreatedAssumption, TimesliceAssumption DEF TypeOK
<1>4. NoThreadLost
  BY <1>1, <1>2 DEF NoThreadLost
<1>5. readfds = Entries(waiting_queue)
  BY <1>1
<1>6. AlarmGoesOn /\ Control
  BY DEF AlarmGoesOn, Control, OnThread, Scheduling
<1>7. Inputs
  BY <1>2 DEF Inputs, Scheduling
<1> QED  BY <1>3, <1>4, <1>5, <1>6, <1>7 DEF Inv

\* The calls of a thread preserve the invariant.
LEMMA CallsStep ==
  ASSUME Inv, AsyncRead \/ ThreadExit \/ ThreadYield
  PROVE  Inv'
<1>1. /\ pc = "thread" /\ OnThread
      /\ RUNNING \in Thread /\ RUNNING \in Entries(ready_queue)
  BY RunningReady DEF AsyncRead, ThreadExit, ThreadYield, OnThread
<1>2. UNCHANGED <<ready_queue, rq_current, waiting_queue, readfds, master, next, pending,
                  armed>>
  BY DEF AsyncRead, ThreadExit, ThreadYield, queues
<1>3. RUNNING' = RUNNING  BY <1>2 DEF RUNNING
<1>4. CASE AsyncRead
  <2>1. env' = [env EXCEPT ![RUNNING] = "read"] /\ status' = 2 /\ pc' = "poll" /\ fifo' = fifo
    BY <1>4 DEF AsyncRead
  <2>2. TypeOK'  BY <1>1, <1>2, <2>1 DEF TypeOK, Inv
  <2>3. {t \in Thread : env'[t] # "freed"} = {t \in Thread : env[t] # "freed"}
    BY <1>1, <2>1 DEF Inv, TypeOK, NoThreadLost
  <2>4. Inputs'
    BY <1>1, <1>2, <1>3, <2>1 DEF Inv, Inputs, TypeOK, Scheduling, Readable
  <2> QED
    BY <1>1, <1>2, <2>1, <2>2, <2>3, <2>4
    DEF Inv, NoThreadLost, AlarmGoesOn, Control, Scheduling, OnThread
<1>5. CASE ThreadExit
  <2>1. fifo' = [fifo EXCEPT ![RUNNING] = "gone"] /\ status' = 3 /\ pc' = "poll" /\ env' = env
    BY <1>5 DEF ThreadExit, queues
  <2>2. TypeOK'  BY <1>1, <1>2, <2>1 DEF TypeOK, Inv
  <2>3. Inputs'
    BY <1>1, <1>2, <1>3, <2>1 DEF Inv, Inputs, TypeOK, Scheduling, Readable
  <2> QED
    BY <1>1, <1>2, <2>1, <2>2, <2>3
    DEF Inv, NoThreadLost, AlarmGoesOn, Control, Scheduling, OnThread
<1>6. CASE ThreadYield
  <2>1. env' = [env EXCEPT ![RUNNING] = "yield"] /\ status' = status /\ pc' = "tstp"
    BY <1>6 DEF ThreadYield
  <2>2. fifo' \in [Thread -> {"unopened", "open", "data", "closed", "gone"}]
        /\ \A t \in Thread : t # RUNNING => fifo'[t] = fifo[t]
    BY <1>1, <1>6 DEF ThreadYield, Consume, Inv, TypeOK
  <2>3. TypeOK'  BY <1>1, <1>2, <2>1, <2>2 DEF TypeOK, Inv
  <2>4. {t \in Thread : env'[t] # "freed"} = {t \in Thread : env[t] # "freed"}
    BY <1>1, <2>1 DEF Inv, TypeOK, NoThreadLost
  <2>5. Entries(ready_queue) \subseteq Thread  BY DEF Inv, NoThreadLost
  <2>6. Inputs'
    BY <1>1, <1>2, <1>3, <2>1, <2>2, <2>5 DEF Inv, Inputs, TypeOK, Scheduling, Readable
  <2> QED
    BY <1>1, <1>2, <2>1, <2>3, <2>4, <2>6
    DEF Inv, NoThreadLost, AlarmGoesOn, Control, Scheduling, OnThread
<1> QED  BY <1>4, <1>5, <1>6

\* The windows of thread_yield, the start of the scheduler, its selects and the
\* ends of its loops leave the queues alone.
LEMMA ControlStep ==
  ASSUME Inv, CatchTSTP \/ CatchALRM \/ NoTSTP \/ NoALRM \/ Start \/ Poll \/ Block
              \/ EndScan \/ EndRescan \/ Rotate
  PROVE  Inv'
<1>1. UNCHANGED <<ready_queue, waiting_queue, readfds, env, fifo>>
  BY DEF CatchTSTP, CatchALRM, SigHandler, NoTSTP, NoALRM, Start, Poll, Block, EndScan,
         EndRescan, Rotate, queues
<1>2. ready_queue \in Seq(Thread) /\ waiting_queue \in Seq(Thread)
      /\ rq_size \in Nat /\ wq_size \in Nat /\ rq_current \in Nat
  BY LenProperties DEF Inv, TypeOK
<1>3. NoThreadLost' /\ readfds' = Entries(waiting_queue)'
  BY <1>1 DEF Inv, NoThreadLost
<1>4. (waiting_queue = <<>> <=> wq_size = 0) /\ (ready_queue = <<>> <=> rq_size = 0)
  BY <1>2, EmptySeq
<1>5. ASSUME UNCHANGED <<rq_current, master, next>>,
             CatchTSTP \/ CatchALRM \/ NoTSTP \/ NoALRM \/ Start \/ EndScan
      PROVE  Inv'
  <2> pending' \subseteq {"SIGTSTP", "SIGALRM"}
    BY <1>5 DEF Inv, TypeOK, CatchTSTP, CatchALRM, SigHandler, NoTSTP, NoALRM, Start, EndScan
  <2> armed' \in BOOLEAN
    <3>1. armed' = armed \/ armed' = (Timeslice > 0)
      BY <1>5, Zenon DEF CatchTSTP, CatchALRM, SigHandler, Rearmed, NoTSTP, NoALRM, Start, EndScan
    <3>2. armed \in BOOLEAN /\ (Timeslice > 0) \in BOOLEAN
      BY DEF Inv, TypeOK
    <3> QED  BY <3>1, <3>2, Zenon
  <2> status' \in 0..3
      /\ pc' \in {"start", "thread", "tstp", "alrm", "poll", "scan", "switch", "block",
                  "rescan", "done"}
    BY <1>5
    DEF Inv, TypeOK, CatchTSTP, CatchALRM, SigHandler, NoTSTP, NoALRM, Start, EndScan
  <2>1. TypeOK'
    BY <1>1, <1>5 DEF Inv, TypeOK
  <2>2. AlarmGoesOn'
    BY <1>5, TimesliceAssumption
    DEF Inv, AlarmGoesOn, CatchTSTP, CatchALRM, SigHandler, Rearmed, NoTSTP, NoALRM, Start, EndScan,
        TypeOK
  <2>3. Control'
    BY <1>1, <1>2, <1>4, <1>5
    DEF Inv, Control, OnThread, Scheduling, CatchTSTP, CatchALRM, SigHandler, NoTSTP, NoALRM,
        Start, EndScan
  <2>4. RUNNING' = RUNNING  BY <1>1, <1>5 DEF RUNNING
  <2>5. Inputs'
    BY <1>1, <1>5, <2>4
    DEF Inv, Inputs, Readable, Scheduling, CatchTSTP, CatchALRM, SigHandler, NoTSTP, NoALRM,
        Start, EndScan
  <2> QED  BY <1>3, <2>1, <2>2, <2>3, <2>5 DEF Inv
<1>6. ASSUME Poll \/ Block PROVE Inv'
  <2>1. master' = {t \in readfds : Readable(t)} /\ next' = 0
        /\ UNCHANGED <<rq_current, status, pending, armed>>
    BY <1>6 DEF Poll, Block, Selected, queues
  <2>2. TypeOK'
    BY <1>1, <1>2, <1>6, <2>1 DEF Inv, TypeOK, Poll, Block
  <2>3. AlarmGoesOn'
    BY <1>6, <2>1 DEF Inv, AlarmGoesOn, Poll, Block
  <2>4. Block => \E i \in 1..wq_size : i > 0 /\ waiting_queue[i] \in master'
    BY <1>2, <2>1 DEF Block, Inv, Entries
  <2>5. Control'
    BY <1>1, <1>2, <1>6, <2>1, <2>4 DEF Inv, Control, OnThread, Scheduling, Poll, Block
  <2>6. RUNNING' = RUNNING  BY <1>1, <2>1 DEF RUNNING
  <2>7. Inputs'
    BY <1>1, <1>6, <2>1, <2>6 DEF Inv, Inputs, Readable, Scheduling, Poll, Block
  <2> QED  BY <1>3, <2>2, <2>3, <2>5, <2>7 DEF Inv
<1>7. ASSUME EndRescan PROVE Inv'
  <2>1. rq_current' = 0 /\ pc' = "thread" /\ UNCHANGED <<master, status, next, pending, armed>>
        /\ pc = "rescan" /\ next = wq_size
    BY <1>7 DEF EndRescan
  <2>2. TypeOK'  BY <1>1, <2>1 DEF Inv, TypeOK
  <2>3. rq_size > 0  BY <1>2, <2>1 DEF Inv, Control
  <2>4. Control' /\ AlarmGoesOn'
    BY <1>1, <2>1, <2>3 DEF Inv, Control, AlarmGoesOn, OnThread, Scheduling
  <2>5. Inputs'
    BY <1>1, <2>1 DEF Inv, Inputs, Readable, Scheduling
  <2> QED  BY <1>3, <2>2, <2>4, <2>5 DEF Inv
<1>8. ASSUME Rotate PROVE Inv'
  <2>1. pc = "switch" /\ status = 1 /\ pc' = "thread" /\ Scheduling
        /\ UNCHANGED <<master, status, next, pending, armed>>
    BY <1>8 DEF Rotate, Scheduling
  <2>2. rq_current < rq_size  BY <2>1 DEF Inv, Control
  <2>3. rq_current' \in Nat /\ rq_current' < rq_size
    BY <1>2, <1>8, <2>2 DEF Rotate, Turn
  <2>4. TypeOK'  BY <1>1, <2>1, <2>3 DEF Inv, TypeOK
  <2>5. Control' /\ AlarmGoesOn'
    BY <1>1, <2>1, <2>3 DEF Inv, Control, AlarmGoesOn, OnThread, Scheduling
  <2>6. Inputs'
    BY <1>1, <2>1 DEF Inv, Inputs, Readable, Scheduling
  <2> QED  BY <1>3, <2>4, <2>5, <2>6 DEF Inv
<1>9. CatchTSTP \/ CatchALRM \/ NoTSTP \/ NoALRM \/ Start \/ EndScan
        => UNCHANGED <<rq_current, master, next>>
  BY DEF CatchTSTP, CatchALRM, SigHandler, NoTSTP, NoALRM, Start, EndScan, queues
<1> QED  BY <1>5, <1>6, <1>7, <1>8, <1>9

\* The loops over the waiting queue move threads that have input.
LEMMA WakeStep ==
  ASSUME Inv, Wake
  PROVE  Inv'
<1> DEFINE t == waiting_queue[next + 1]
<1>1. /\ pc \in {"scan", "rescan"} /\ next \in 0..wq_size /\ next < wq_size
      /\ UNCHANGED <<rq_current, master, env, pc, status, pending, armed, fifo>>
  BY DEF Wake, Awaken, Inv, TypeOK
<1>2. /\ ready_queue \in Seq(Thread) /\ waiting_queue \in Seq(Thread)
      /\ rq_size \in Nat /\ wq_size \in Nat /\ next \in Nat /\ next + 1 \in 1..wq_size
      /\ rq_current \in Nat
  BY <1>1, LenProperties DEF Inv, TypeOK
<1>3. t \in Thread /\ t \in Entries(waiting_queue) /\ t \notin Entries(ready_queue)
  <2>1. t \in Thread  BY <1>2, ElementOfSeq
  <2>2. t \in Entries(waiting_queue)  BY <1>2 DEF Entries
  <2> QED  BY <2>1, <2>2 DEF Inv, NoThreadLost
<1>4. CASE t \in master
  <2>1. /\ readfds' = readfds \ {t}
        /\ ready_queue' = Append(ready_queue, t)
        /\ waiting_queue' = Without(waiting_queue, next)
        /\ next' = next
    BY <1>4 DEF Wake, Awaken
  <2> HIDE DEF t
  <2>2. /\ ready_queue' \in Seq(Thread) /\ Len(ready_queue') = rq_size + 1
        /\ Entries(ready_queue') = Entries(ready_queue) \cup {t}
        /\ Distinct(ready_queue')
    BY <1>2, <1>3, <2>1, AppendHolds DEF Inv, NoThreadLost
  <2>3. /\ waiting_queue' \in Seq(Thread) /\ Len(waiting_queue') = wq_size - 1
        /\ Entries(waiting_queue') = Entries(waiting_queue) \ {t}
        /\ Distinct(waiting_queue')
    BY <1>1, <1>2, <2>1, WithoutHolds DEF Inv, NoThreadLost, t
  <2>4. TypeOK'
    BY <1>1, <1>2, <2>1, <2>2, <2>3 DEF Inv, TypeOK
  <2>5. NoThreadLost' /\ readfds' = Entries(waiting_queue')
    BY <1>1, <1>3, <2>1, <2>2, <2>3 DEF Inv, NoThreadLost
  <2>6. Control'
    BY <1>1, <1>2, <2>2 DEF Inv, Control, OnThread, Scheduling
  <2>7. Scheduling => RUNNING' = RUNNING
    BY <1>1, <1>2, <2>1, AppendProperties DEF RUNNING, Inv, Control
  <2>8. Inputs'
    BY <1>1, <1>4, <2>2, <2>7 DEF Inv, Inputs, Readable, Scheduling
  <2> QED  BY <1>1, <2>4, <2>5, <2>6, <2>8 DEF Inv, AlarmGoesOn
<1>5. CASE t \notin master
  <2>1. next' = next + 1 /\ UNCHANGED <<readfds, ready_queue, waiting_queue>>
    BY <1>5 DEF Wake, Awaken
  <2>2. TypeOK'  BY <1>1, <1>2, <2>1 DEF Inv, TypeOK
  <2>3. pc = "rescan" /\ rq_size = 0 =>
          \E i \in 1..wq_size : i > next + 1 /\ waiting_queue[i] \in master
    BY <1>2, <1>5 DEF Inv, Control
  <2>4. Control'
    BY <1>1, <1>2, <2>1, <2>3 DEF Inv, Control, OnThread, Scheduling
  <2>5. RUNNING' = RUNNING  BY <1>1, <2>1 DEF RUNNING
  <2>6. Inputs'  BY <1>1, <2>1, <2>5 DEF Inv, Inputs, Readable, Scheduling
  <2> QED  BY <1>1, <2>1, <2>2, <2>4, <2>6 DEF Inv, NoThreadLost, AlarmGoesOn
<1> QED  BY <1>4, <1>5

\* Taking RUNNING out of the ready queue leaves the others, and a thread to go
\* on with when there is one.
LEMMA RemoveHolds ==
  ASSUME Inv, Scheduling, Remove
  PROVE  /\ ready_queue' \in Seq(Thread) /\ Len(ready_queue') = rq_size - 1
         /\ Entries(ready_queue') = Entries(ready_queue) \ {RUNNING}
         /\ Distinct(ready_queue')
         /\ rq_current' \in Nat
         /\ rq_size > 1 => rq_current' < Len(ready_queue')
         /\ rq_size <= 1 => rq_current' = 0 /\ ready_queue' = <<>>
<1>1. ready_queue \in Seq(Thread) /\ rq_current \in Nat /\ rq_size \in Nat
      /\ rq_current < rq_size
  BY LenProperties DEF Inv, TypeOK, Control
<1>2. ready_queue' = SwapOut(ready_queue, rq_current)
      /\ rq_current' = IF rq_current = rq_size - 1 /\ rq_size > 1 THEN 0 ELSE rq_current
  BY DEF Remove
<1>3. /\ ready_queue' \in Seq(Thread) /\ Len(ready_queue') = rq_size - 1
      /\ Entries(ready_queue') = Entries(ready_queue) \ {RUNNING}
      /\ Distinct(ready_queue')
  BY <1>1, <1>2, SwapOutHolds DEF Inv, NoThreadLost, RUNNING
<1>4. rq_size <= 1 => ready_queue' = <<>>
  BY <1>1, <1>3, EmptySeq
<1> QED  BY <1>1, <1>2, <1>3, <1>4

\* The switch from a thread that ended or waits.
LEMMA SwitchStep ==
  ASSUME Inv, Exit \/ Wait
  PROVE  Inv'
<1>1. Scheduling /\ pc = "switch" /\ Remove /\ pc' = Resume
      /\ UNCHANGED <<master, status, next, pending, armed, fifo>>
  BY DEF Exit, Wait, Scheduling
<1>2. /\ RUNNING \in Entries(ready_queue) /\ RUNNING \in Thread
      /\ RUNNING \notin Entries(waiting_queue)
      /\ rq_size \in Nat /\ rq_size >= 1
  BY <1>1, RunningReady DEF Inv, NoThreadLost
<1>3. /\ ready_queue' \in Seq(Thread) /\ Len(ready_queue') = rq_size - 1
      /\ Entries(ready_queue') = Entries(ready_queue) \ {RUNNING}
      /\ Distinct(ready_queue')
      /\ rq_current' \in Nat
      /\ rq_size > 1 => rq_current' < Len(ready_queue')
      /\ rq_size <= 1 => rq_current' = 0 /\ ready_queue' = <<>>
  BY <1>1, RemoveHolds
<1>4. waiting_queue \in Seq(Thread) /\ wq_size \in Nat  BY LenProperties DEF Inv, TypeOK
<1>5. CASE Exit
  <2>1. env' = [env EXCEPT ![RUNNING] = "freed"] /\ UNCHANGED <<waiting_queue, readfds>>
    BY <1>5 DEF Exit
  <2>2. {t \in Thread : env'[t] # "freed"} = {t \in Thread : env[t] # "freed"} \ {RUNNING}
    BY <1>2, <2>1 DEF Inv, TypeOK
  <2>3. TypeOK'
    BY <1>1, <1>2, <1>3, <2>1 DEF Inv, TypeOK, Resume
  <2>4. NoThreadLost' /\ readfds' = Entries(waiting_queue)'
    BY <1>2, <1>3, <2>1, <2>2 DEF Inv, NoThreadLost
  <2>5. Control'
    BY <1>1, <1>2, <1>3, <2>1 DEF Control, Resume, OnThread, Scheduling
  <2>6. AlarmGoesOn'
    BY <1>1 DEF Inv, AlarmGoesOn
  <2>7. Inputs'
    BY <1>1, <1>2, <1>3, <2>1 DEF Inv, Inputs, Readable, Scheduling, Resume, NoThreadLost,
                                  TypeOK
  <2> QED  BY <2>3, <2>4, <2>5, <2>6, <2>7 DEF Inv
<1>6. CASE Wait
  <2>1. readfds' = readfds \cup {RUNNING} /\ waiting_queue' = Append(waiting_queue, RUNNING)
        /\ env' = env
    BY <1>6 DEF Wait
  <2>2. /\ waiting_queue' \in Seq(Thread) /\ Len(waiting_queue') = wq_size + 1
        /\ Entries(waiting_queue') = Entries(waiting_queue) \cup {RUNNING}
        /\ Distinct(waiting_queue')
    BY <1>2, <1>4, <2>1, AppendHolds DEF Inv, NoThreadLost
  <2>3. waiting_queue' # <<>>  BY <1>4, <2>2, EmptySeq
  <2>4. TypeOK'
    BY <1>1, <1>2, <1>3, <1>4, <2>1, <2>2 DEF Inv, TypeOK, Resume
  <2>5. NoThreadLost' /\ readfds' = Entries(waiting_queue)'
    BY <1>2, <1>3, <2>1, <2>2 DEF Inv, NoThreadLost
  <2>6. Control'
    BY <1>1, <1>2, <1>3, <2>3 DEF Control, Resume, OnThread, Scheduling
  <2>7. AlarmGoesOn'
    BY <1>1 DEF Inv, AlarmGoesOn
  <2>8. Inputs'
    BY <1>1, <1>2, <1>3, <2>1 DEF Inv, Inputs, Readable, Scheduling, Resume
  <2> QED  BY <2>4, <2>5, <2>6, <2>7, <2>8 DEF Inv
<1> QED  BY <1>5, <1>6

\* Timer, terminal and writers touch neither the queues nor the control, and
\* no input is taken away.
LEMMA WorldStep ==
  ASSUME Inv, World \/ UNCHANGED vars
  PROVE  Inv'
<1>1. UNCHANGED <<ready_queue, rq_current, waiting_queue, readfds, env, master, pc, status,
                  next>>
  BY DEF World, Alarm, Stop, Open, Send, Close, queues, vars
<1>2. \A t \in Thread : Readable(t) => Readable(t)'
  BY DEF World, Alarm, Stop, Open, Send, Close, vars, Readable, Inv, TypeOK
<1>3. fifo' \in [Thread -> {"unopened", "open", "data", "closed", "gone"}]
  BY ReaderAssumption DEF World, Alarm, Stop, Open, Send, Close, vars, Inv, TypeOK
<1>4. armed' \in BOOLEAN /\ pending' \subseteq {"SIGTSTP", "SIGALRM"}
  BY DEF World, Alarm, Stop, Open, Send, Close, vars, Inv, TypeOK
<1>5. TypeOK'  BY <1>1, <1>3, <1>4 DEF Inv, TypeOK
<1>6. (armed \/ "SIGALRM" \in pending) => (armed' \/ "SIGALRM" \in pending')
  BY DEF World, Alarm, Stop, Open, Send, Close, vars
<1>7. RUNNING' = RUNNING  BY <1>1 DEF RUNNING
<1>8. Inputs'
  BY <1>1, <1>2, <1>7 DEF Inv, Inputs, Scheduling, TypeOK, NoThreadLost
<1> QED
  BY <1>1, <1>5, <1>6, <1>8 DEF Inv, NoThreadLost, AlarmGoesOn, Control, OnThread, Scheduling

\* Every step of the program and of the world around it preserves the invariant.
LEMMA InvStep == Inv /\ [Next]_vars => Inv'
BY CallsStep, ControlStep, WakeStep, SwitchStep, WorldStep DEF Next, Run, Library

\* The invariant holds always.
LEMMA InvAlways == Spec => []Inv
BY InvInit, InvStep, PTL DEF Spec

-----------------------------------------------------------------------------
(* The theorems.                                                           *)

\* Type correctness.
THEOREM TypeCorrect == Spec => []TypeOK
<1>1. Inv => TypeOK  BY DEF Inv
<1> QED  BY <1>1, InvAlways, PTL

\* However threads, signals and input interleave, the two arrays hold every
\* thread that was not freed, once.
THEOREM ThreadsKept == Spec => []NoThreadLost
<1>1. Inv => NoThreadLost  BY DEF Inv
<1> QED  BY <1>1, InvAlways, PTL

\* RUNNING never reads beyond the ready queue.
THEOREM RunningAlways == Spec => []RunningExists
<1>1. Inv => RunningExists  BY DEF Inv, Control, RunningExists, OnThread, Scheduling
<1> QED  BY <1>1, InvAlways, PTL

\* The scheduler selects on what the waiting threads read, never waits for
\* nothing, and does not end before its threads.
THEOREM WaitsForThreads == Spec => []StopsOnlyRightly
<1>1. Inv => StopsOnlyRightly
  <2> SUFFICES ASSUME Inv PROVE StopsOnlyRightly
    OBVIOUS
  <2>1. ASSUME pc = "block" PROVE readfds # {}
    <3>1. waiting_queue \in Seq(Thread) /\ waiting_queue # <<>>
      BY <2>1 DEF Inv, TypeOK, Control
    <3>2. 1 \in 1..wq_size  BY <3>1, EmptySeq
    <3> QED  BY <3>2 DEF Inv, Entries
  <2>2. pc = "done" => \A t \in Thread : env[t] = "freed"
    BY EmptySeq DEF Inv, Control, NoThreadLost, Entries
  <2> QED  BY <2>1, <2>2 DEF Inv, StopsOnlyRightly
<1> QED  BY <1>1, InvAlways, PTL

\* No thread comes back from async_read to a read that fails for want of data.
THEOREM ReadsServed == Spec => []ReadsFindInput
<1>1. Inv => ReadsFindInput
  <2> SUFFICES ASSUME Inv, OnThread, env[RUNNING] = "read" PROVE Readable(RUNNING)
    BY DEF ReadsFindInput
  <2>1. RUNNING \in Entries(ready_queue)  BY RunningReady
  <2> QED  BY <2>1 DEF Inv, Inputs, OnThread, Scheduling
<1> QED  BY <1>1, InvAlways, PTL

\* The alarm that takes turns never gets lost.
THEOREM AlarmKept == Spec => []AlarmGoesOn
<1>1. Inv => AlarmGoesOn  BY DEF Inv
<1> QED  BY <1>1, InvAlways, PTL

-----------------------------------------------------------------------------
(* The library keeps the promise of ThreadLife.                            *)

\* A thread that waits will go on behind async_read.
WaitsToRead ==
  /\ \A t \in Entries(waiting_queue) : env[t] = "read"
  /\ Scheduling /\ status = 2 => env[RUNNING] = "read"

RInv == Inv /\ WaitsToRead

-----------------------------------------------------------------------------
(* What a thread's life is, by where the thread is.                        *)

\* RUNNING, when it is the thread that control or the scheduler is about.
Current(t) == (OnThread \/ Scheduling) /\ t = RUNNING

LEMMA Places ==
  ASSUME RInv, NEW t \in Thread
  PROVE  /\ t \in Entries(ready_queue) => t \notin Entries(waiting_queue) /\ env[t] # "freed"
         /\ t \in Entries(waiting_queue) => t \notin Entries(ready_queue) /\ env[t] = "read"
         /\ env[t] = "freed" \/ t \in Entries(ready_queue) \/ t \in Entries(waiting_queue)
         /\ Current(t) => t \in Entries(ready_queue)
         /\ Leaving(t) <=> Current(t) /\ Scheduling
         /\ ~(OnThread /\ Scheduling)
<1>1. Scheduling \/ OnThread => RUNNING \in Entries(ready_queue) /\ RUNNING \in Thread
  BY RunningReady DEF RInv
<1>2. /\ Entries(ready_queue) \cap Entries(waiting_queue) = {}
      /\ t \in Entries(ready_queue) \cup Entries(waiting_queue) <=> env[t] # "freed"
  BY DEF RInv, Inv, NoThreadLost
<1>. QED  BY <1>1, <1>2 DEF Leaving, Scheduling, OnThread, Current, RInv, WaitsToRead

\* Ended threads.
LEMMA LifeFreed ==
  ASSUME RInv, NEW t \in Thread, env[t] = "freed"
  PROVE  Life(t) = "ended" /\ ~fresh[t]
<1>1. t \notin Entries(waiting_queue) /\ ~Current(t)
  BY Places
<1>2. Life(t) = "ended"
  BY <1>1, Places DEF Life, Current, OnThread
<1>. QED  BY <1>2 DEF fresh

\* Threads in the waiting queue.
LEMMA LifeWaiting ==
  ASSUME RInv, NEW t \in Thread, t \in Entries(waiting_queue)
  PROVE  Life(t) = "waiting" /\ ~fresh[t]
<1>1. t \notin Entries(ready_queue) /\ ~Current(t) /\ env[t] # "freed"
  BY Places
<1>2. Life(t) = "waiting"
  BY <1>1, Places DEF Life, Current, OnThread
<1>. QED  BY <1>2 DEF fresh

\* RUNNING, on the way into the scheduler or in its own function.
LEMMA LifeCurrent ==
  ASSUME RInv, NEW t \in Thread, Current(t)
  PROVE  /\ OnThread => Life(t) = "running" /\ (fresh[t] <=> env[t] = "read")
         /\ Scheduling /\ status = 1 => Life(t) = "ready" /\ (fresh[t] <=> env[t] = "read")
         /\ Scheduling /\ status = 2 => Life(t) = "waiting" /\ ~fresh[t]
         /\ Scheduling /\ status = 3 => Life(t) = "ended" /\ ~fresh[t]
<1>1. t \notin Entries(waiting_queue) /\ env[t] # "freed" /\ (Leaving(t) <=> Scheduling) /\ t = RUNNING
  BY Places DEF Current
<1>2. OnThread => Life(t) = "running"
  BY <1>1, Places DEF Life
<1>3. Scheduling /\ status = 1 => Life(t) = "ready"
  BY <1>1, Places DEF Life
<1>4. Scheduling /\ status = 2 => Life(t) = "waiting"
  BY <1>1, Places DEF Life
<1>5. Scheduling /\ status = 3 => Life(t) = "ended"
  BY <1>1, Places DEF Life
<1>. QED  BY <1>2, <1>3, <1>4, <1>5 DEF fresh

\* The other threads of the ready queue.
LEMMA LifeReady ==
  ASSUME RInv, NEW t \in Thread, t \in Entries(ready_queue), ~Current(t)
  PROVE  Life(t) = "ready" /\ (fresh[t] <=> env[t] = "read")
<1>1. t \notin Entries(waiting_queue) /\ env[t] # "freed"
  BY Places
<1>2. ~Leaving(t) /\ ~(OnThread /\ t = RUNNING)
  BY Places DEF Current
<1>3. Life(t) = "ready"
  BY <1>1, <1>2 DEF Life
<1>. QED  BY <1>3 DEF fresh

\* The four cases together, as a formula that holds in every state.
Lives ==
  \A t \in Thread :
    /\ env[t] = "freed" => Life(t) = "ended" /\ ~fresh[t]
    /\ t \in Entries(waiting_queue) => Life(t) = "waiting" /\ ~fresh[t]
    /\ Current(t) =>
         /\ OnThread => Life(t) = "running" /\ (fresh[t] <=> env[t] = "read")
         /\ Scheduling /\ status = 1 => Life(t) = "ready" /\ (fresh[t] <=> env[t] = "read")
         /\ Scheduling /\ status = 2 => Life(t) = "waiting" /\ ~fresh[t]
         /\ Scheduling /\ status = 3 => Life(t) = "ended" /\ ~fresh[t]
    /\ t \in Entries(ready_queue) /\ ~Current(t) =>
         Life(t) = "ready" /\ (fresh[t] <=> env[t] = "read")

LEMMA LivesHold == RInv => Lives
BY LifeFreed, LifeWaiting, LifeCurrent, LifeReady DEF Lives

LEMMA LivesHoldNext == RInv' => Lives'
BY LivesHold, PTL

-----------------------------------------------------------------------------
(* The strengthened invariant.                                             *)

LEMMA RInvInit == Init => RInv
<1>. SUFFICES ASSUME Init PROVE WaitsToRead
  BY InvInit DEF RInv
<1>1. Entries(waiting_queue) = {}
  BY DEF Init, Entries
<1>. QED  BY <1>1 DEF Init, WaitsToRead, Scheduling

LEMMA RInvStep == RInv /\ [Next]_vars => RInv'
<1>. SUFFICES ASSUME RInv, [Next]_vars PROVE WaitsToRead'
  BY InvStep DEF RInv
<1>1. \A t \in Entries(waiting_queue) : t \in Thread /\ env[t] = "read" /\ (OnThread \/ Scheduling => t # RUNNING)
  <2>1. OnThread \/ Scheduling => RUNNING \notin Entries(waiting_queue)
    BY RunningReady DEF RInv, Inv, NoThreadLost
  <2>. QED  BY <2>1 DEF RInv, WaitsToRead, Inv, NoThreadLost
<1>2. env \in [Thread -> {"setup", "yield", "read", "freed"}]
  BY DEF RInv, Inv, TypeOK
<1>3. CASE AsyncRead \/ ThreadExit \/ ThreadYield
  <2>1. /\ UNCHANGED <<ready_queue, rq_current, waiting_queue>> /\ OnThread
        /\ \A t \in Thread : t # RUNNING => env'[t] = env[t]
    BY <1>2, <1>3 DEF AsyncRead, ThreadExit, ThreadYield, queues, OnThread
  <2>2. RUNNING' = RUNNING /\ RUNNING \in Thread
    BY <2>1, RunningReady DEF RUNNING, RInv
  <2>3. Scheduling' /\ status' = 2 => env'[RUNNING] = "read"
    BY <1>2, <1>3, <2>2 DEF AsyncRead, ThreadExit, ThreadYield, Scheduling
  <2>. QED  BY <1>1, <2>1, <2>2, <2>3 DEF WaitsToRead
<1>4. CASE CatchTSTP \/ CatchALRM \/ NoTSTP \/ NoALRM \/ Start \/ Poll \/ Block \/ EndScan \/ EndRescan
           \/ Rotate \/ World \/ UNCHANGED vars
  <2>1. UNCHANGED <<ready_queue, waiting_queue, env>>
    BY <1>4 DEF CatchTSTP, CatchALRM, SigHandler, NoTSTP, NoALRM, Start, Poll, Block, EndScan, EndRescan,
                Rotate, World, Alarm, Stop, Open, Send, Close, vars, queues
  <2>2. Scheduling' /\ status' = 2 => Scheduling /\ status = 2 /\ rq_current' = rq_current
    BY <1>4 DEF CatchTSTP, CatchALRM, SigHandler, NoTSTP, NoALRM, Start, Poll, Block, EndScan, EndRescan,
                Rotate, World, Alarm, Stop, Open, Send, Close, vars, queues, Scheduling
  <2>. QED  BY <2>1, <2>2 DEF RInv, WaitsToRead, RUNNING
<1>5. CASE Wake
  <2>1. /\ UNCHANGED <<rq_current, env, pc, status>> /\ next \in Nat /\ next < wq_size
        /\ waiting_queue \in Seq(Thread) /\ ready_queue \in Seq(Thread)
    BY <1>5 DEF Wake, RInv, Inv, TypeOK
  <2>2. Entries(waiting_queue') \subseteq Entries(waiting_queue)
    BY <1>5, <2>1, WithoutHolds DEF Wake, Awaken, RInv, Inv, NoThreadLost
  <2>3. Scheduling => RUNNING' = RUNNING
    <3>. SUFFICES ASSUME Scheduling PROVE RUNNING' = RUNNING
      OBVIOUS
    <3>1. rq_current + 1 \in 1..Len(ready_queue)
      BY RunningReady DEF RInv
    <3>2. ready_queue' = ready_queue \/ \E t \in Thread : ready_queue' = Append(ready_queue, t)
      <4>1. waiting_queue[next + 1] \in Thread
        BY <2>1, ElementOfSeq, LenProperties
      <4>. QED  BY <1>5, <4>1 DEF Wake, Awaken
    <3>. QED  BY <2>1, <3>1, <3>2, AppendProperties DEF RUNNING
  <2>. QED  BY <2>1, <2>2, <2>3 DEF RInv, WaitsToRead, Scheduling
<1>6. CASE Exit
  <2>1. /\ waiting_queue' = waiting_queue /\ Scheduling /\ ~Scheduling'
        /\ env' = [env EXCEPT ![RUNNING] = "freed"]
    BY <1>6 DEF Exit, Scheduling, Resume
  <2>. QED  BY <1>1, <1>2, <2>1 DEF WaitsToRead
<1>7. CASE Wait
  <2>1. /\ waiting_queue' = Append(waiting_queue, RUNNING) /\ Scheduling /\ ~Scheduling'
        /\ env' = env /\ status = 2
    BY <1>7 DEF Wait, Scheduling, Resume
  <2>2. RUNNING \in Thread /\ waiting_queue \in Seq(Thread)
    BY <2>1, RunningReady DEF RInv, Inv, TypeOK
  <2>3. Entries(waiting_queue') = Entries(waiting_queue) \cup {RUNNING}
    BY <2>1, <2>2, AppendHolds
  <2>. QED  BY <2>1, <2>3 DEF RInv, WaitsToRead
<1>. QED  BY <1>3, <1>4, <1>5, <1>6, <1>7 DEF Next, Run, Library

LEMMA ReadsFind ==
  ASSUME RInv, OnThread, env[RUNNING] = "read"
  PROVE  fifo[RUNNING] \in {"data", "closed"}
<1>1. RUNNING \in Entries(ready_queue)
  BY RunningReady DEF RInv
<1>. QED  BY <1>1 DEF RInv, Inv, Inputs, OnThread, Scheduling, Readable

-----------------------------------------------------------------------------
(* Steps.  In each, what is said of the lives before it comes from Lives,   *)
(* what is said of those after it from Lives'.                              *)

\* The step of one thread, or none.
LEMMA OneLife ==
  ASSUME NEW t \in Thread, NEW v, Life(t)' = v,
         \A u \in Thread : u # t => Life(u)' = Life(u)
  PROVE  life' = [life EXCEPT ![t] = v]
BY DEF life

LEMMA SameLives ==
  ASSUME \A u \in Thread : Life(u)' = Life(u)
  PROVE  life' = life
BY DEF life

LEMMA OneFresh ==
  ASSUME NEW t \in Thread, NEW v \in BOOLEAN, fresh'[t] <=> v,
         \A u \in Thread : u # t => (fresh'[u] <=> fresh[u])
  PROVE  fresh' = [fresh EXCEPT ![t] = v]
<1>1. \A u \in Thread : fresh[u] \in BOOLEAN /\ fresh'[u] \in BOOLEAN
  BY DEF fresh
<1>2. \A u \in Thread : fresh'[u] = [fresh EXCEPT ![t] = v][u]
  BY <1>1 DEF fresh
<1>. QED  BY <1>2 DEF fresh

LEMMA SameFresh ==
  ASSUME \A u \in Thread : fresh'[u] <=> fresh[u]
  PROVE  fresh' = fresh
<1>1. \A u \in Thread : fresh[u] \in BOOLEAN /\ fresh'[u] \in BOOLEAN
  BY DEF fresh
<1>2. \A u \in Thread : fresh'[u] = fresh[u]
  BY <1>1
<1>. QED  BY <1>2 DEF fresh

\* Where every thread is: freed, or in one of the queues, and there current or
\* not.
LEMMA SomePlace ==
  ASSUME RInv, NEW t \in Thread
  PROVE  /\ env[t] = "freed" \/ t \in Entries(waiting_queue) \/ t \in Entries(ready_queue)
         /\ t \in Entries(ready_queue) => env[t] # "freed" /\ t \notin Entries(waiting_queue)
BY DEF RInv, Inv, NoThreadLost

\* A step that leaves queues and control where they are changes no life.
LEMMA Stutters ==
  ASSUME UNCHANGED <<ready_queue, rq_current, waiting_queue, env>>, OnThread' <=> OnThread,
         Scheduling' <=> Scheduling, Scheduling => status' = status
  PROVE  UNCHANGED <<life, fresh>>
<1>1. RUNNING' = RUNNING
  BY DEF RUNNING
<1>2. ASSUME NEW t \in Thread PROVE Life(t)' = Life(t)
  BY <1>1 DEF Life, Leaving, Scheduling
<1>3. \A t \in Thread : fresh'[t] <=> fresh[t]
  BY <1>2 DEF fresh
<1>. QED  BY <1>2, <1>3, SameLives, SameFresh

\* Nobody runs while the control is not in a thread.
LEMMA NobodyRuns ==
  ASSUME RInv, ~OnThread
  PROVE  \A t \in Thread : life[t] # "running"
BY DEF life, Life

LEMMA ReadyRunning == RInv /\ OnThread => RUNNING \in Thread /\ RUNNING \in Entries(ready_queue)
BY RunningReady DEF RInv

LEMMA RunningCurrent == RInv /\ OnThread => RUNNING \in Thread /\ Current(RUNNING)
BY RunningReady DEF RInv, Current

LEMMA RunningCurrentNext == (RInv /\ OnThread => RUNNING \in Thread /\ Current(RUNNING))'
BY RunningCurrent, PTL

\* The scheduler jumps into a thread.
LEMMA RunStep ==
  ASSUME RInv, RInv', ~OnThread, OnThread', fifo' = fifo,
         Life(RUNNING') = "ready", fresh[RUNNING'] <=> env'[RUNNING'] = "read",
         \A u \in Thread : u # RUNNING' => Life(u)' = Life(u) /\ (fresh'[u] <=> fresh[u])
  PROVE  \E t \in Thread : LifeOf!Run(t)
<1>1. RUNNING' \in Thread /\ Current(RUNNING)'
  BY RunningCurrentNext
<1>2. Life(RUNNING)' = "running" /\ (fresh'[RUNNING'] <=> env'[RUNNING'] = "read")
  BY <1>1, LivesHoldNext DEF Lives
<1>3. life' = [life EXCEPT ![RUNNING'] = "running"]
  BY <1>1, <1>2, OneLife
<1>4. fresh' = fresh
  BY <1>2, SameFresh
<1>5. life[RUNNING'] = "ready"
  BY <1>1 DEF life
<1>. QED  BY <1>1, <1>3, <1>4, <1>5, NobodyRuns DEF LifeOf!Run

\* The calls of a thread.
LEMMA CallsRefine ==
  ASSUME RInv, RInv', AsyncRead \/ ThreadExit \/ ThreadYield
  PROVE  [LifeOf!Next]_(LifeOf!vars)
<1>0. OnThread /\ RUNNING \in Thread
  BY RunningReady DEF RInv, AsyncRead, ThreadExit, ThreadYield, OnThread
<1>. PICK t \in Thread : t = RUNNING
  BY <1>0
<1>1. /\ OnThread /\ t \in Thread /\ t \in Entries(ready_queue) /\ Current(t)
      /\ UNCHANGED <<ready_queue, rq_current, waiting_queue>> /\ RUNNING' = t
      /\ env \in [Thread -> {"setup", "yield", "read", "freed"}]
      /\ fifo \in [Thread -> {"unopened", "open", "data", "closed", "gone"}]
  <2>1. OnThread
    BY DEF AsyncRead, ThreadExit, ThreadYield, OnThread
  <2>2. UNCHANGED <<ready_queue, rq_current, waiting_queue>>
    BY DEF AsyncRead, ThreadExit, ThreadYield, queues
  <2>. QED  BY <2>1, <2>2, RunningReady DEF RInv, Inv, TypeOK, RUNNING, Current
<1>2. Life(t) = "running" /\ (fresh[t] <=> env[t] = "read") /\ life[t] = "running" /\ ~Scheduling
  BY <1>1, LivesHold DEF Lives, life, OnThread, Scheduling
<1>3. \A u \in Thread : u # t => env'[u] = env[u]
  BY <1>1 DEF AsyncRead, ThreadExit, ThreadYield, queues
<1>4. OnThread' \/ Scheduling'
  BY DEF AsyncRead, ThreadExit, ThreadYield, OnThread, Scheduling
<1>5. ASSUME NEW u \in Thread, u # t PROVE Life(u)' = Life(u) /\ (fresh'[u] <=> fresh[u])
  <2>1. ~Current(u) /\ ~Current(u)'
    BY <1>1, <1>5 DEF Current
  <2>. QED  BY <1>1, <1>3, <1>5, <2>1, LivesHold, LivesHoldNext, SomePlace DEF Lives
<1>6. Current(t)'
  BY <1>1, <1>4 DEF Current, OnThread, Scheduling
<1>7. CASE AsyncRead
  <2>1. t \in Reader /\ env[t] # "read" /\ Scheduling' /\ status' = 2 /\ fifo' = fifo
    BY <1>7 DEF AsyncRead, AtRead, Scheduling
  <2>2. Life(t)' = "waiting" /\ ~fresh'[t]
    BY <1>1, <1>6, <2>1, LivesHoldNext DEF Lives
  <2>3. life' = [life EXCEPT ![t] = "waiting"] /\ fresh' = fresh
    BY <1>1, <1>2, <1>5, <2>1, <2>2, OneLife, SameFresh
  <2>. QED  BY <1>1, <1>2, <2>1, <2>3 DEF LifeOf!Next, LifeOf!Wait
<1>8. CASE ThreadExit
  <2>1. (t \in Reader => env[t] = "read") /\ Scheduling' /\ status' = 3 /\ fifo' = [fifo EXCEPT ![t] = "gone"]
    BY <1>8 DEF ThreadExit, AtRead, Scheduling
  <2>2. Life(t)' = "ended" /\ ~fresh'[t]
    BY <1>1, <1>6, <2>1, LivesHoldNext DEF Lives
  <2>3. life' = [life EXCEPT ![t] = "ended"] /\ fresh' = [fresh EXCEPT ![t] = FALSE]
    BY <1>1, <1>5, <2>2, OneLife, OneFresh
  <2>. QED  BY <1>1, <1>2, <2>1, <2>3 DEF LifeOf!Next, LifeOf!End
<1>9. CASE ThreadYield
  <2>1. Consume(t) /\ env' = [env EXCEPT ![t] = "yield"] /\ OnThread' /\ (t \in Reader => env[t] = "read")
    BY <1>9 DEF ThreadYield, AtRead, OnThread
  <2>2. Life(t)' = "running" /\ ~fresh'[t]
    BY <1>1, <1>6, <2>1, LivesHoldNext DEF Lives
  <2>3. life' = life
    BY <1>1, <1>2, <1>5, <2>2, SameLives
  <2>4. CASE env[t] = "read"
    <3>1. fresh' = [fresh EXCEPT ![t] = FALSE]
      BY <1>1, <1>5, <2>2, OneFresh
    <3>2. fifo[t] \in {"data", "closed"}
      BY <1>1, <2>4, ReadsFind
    <3>3. \/ fifo[t] = "data" /\ \E rest \in {"data", "open", "closed"} : fifo' = [fifo EXCEPT ![t] = rest]
          \/ fifo[t] = "closed" /\ fifo' = fifo
      <4>1. fifo' = fifo => fifo' = [fifo EXCEPT ![t] = fifo[t]]
        BY <1>1
      <4>. QED  BY <2>1, <3>2, <4>1 DEF Consume
    <3>. QED  BY <1>1, <1>2, <2>3, <2>4, <3>1, <3>3 DEF LifeOf!Next, LifeOf!Read
  <2>5. CASE env[t] # "read"
    <3>1. fresh' = fresh
      BY <1>2, <1>5, <2>2, <2>5, SameFresh
    <3>2. fifo' = fifo
      BY <2>1, <2>5 DEF Consume
    <3>. QED  BY <2>3, <3>1, <3>2 DEF LifeOf!vars
  <2>. QED  BY <2>4, <2>5
<1>. QED  BY <1>7, <1>8, <1>9

\* A signal in a window of thread_yield.
LEMMA CatchRefines ==
  ASSUME RInv, RInv', CatchTSTP \/ CatchALRM
  PROVE  [LifeOf!Next]_(LifeOf!vars)
<1>1. /\ OnThread /\ ~Scheduling /\ Scheduling' /\ ~OnThread' /\ status' = 1
      /\ UNCHANGED <<ready_queue, rq_current, waiting_queue, env, fifo>>
  BY DEF CatchTSTP, CatchALRM, SigHandler, queues, OnThread, Scheduling
<1>2. RUNNING \in Thread /\ RUNNING' = RUNNING
  BY <1>1, RunningReady DEF RInv, RUNNING
<1>. PICK t \in Thread : t = RUNNING
  BY <1>2
<1>3. Current(t) /\ Current(t)'
  BY <1>1, <1>2 DEF Current
<1>4. /\ Life(t) = "running" /\ (fresh[t] <=> env[t] = "read") /\ life[t] = "running"
      /\ Life(t)' = "ready" /\ (fresh'[t] <=> env[t] = "read")
  BY <1>1, <1>3, LivesHold, LivesHoldNext DEF Lives, life
<1>5. ASSUME NEW u \in Thread, u # t PROVE Life(u)' = Life(u) /\ (fresh'[u] <=> fresh[u])
  <2>1. ~Current(u) /\ ~Current(u)'
    BY <1>2, <1>5 DEF Current
  <2>. QED  BY <1>1, <2>1, LivesHold, LivesHoldNext, SomePlace DEF Lives
<1>6. life' = [life EXCEPT ![t] = "ready"] /\ fresh' = fresh
  BY <1>4, <1>5, OneLife, SameFresh
<1>. QED  BY <1>1, <1>4, <1>6 DEF LifeOf!Next, LifeOf!Preempt

\* Control moves on in a thread or in the scheduler.
LEMMA ControlRefines ==
  ASSUME NoTSTP \/ NoALRM \/ Poll \/ Block \/ EndScan \/ Alarm \/ Stop \/ UNCHANGED vars
  PROVE  [LifeOf!Next]_(LifeOf!vars)
<1>1. /\ UNCHANGED <<ready_queue, rq_current, waiting_queue, env, fifo, status>>
      /\ (OnThread' <=> OnThread) /\ (Scheduling' <=> Scheduling)
  BY DEF NoTSTP, NoALRM, Poll, Block, EndScan, Alarm, Stop, vars, queues, OnThread, Scheduling
<1>. QED  BY <1>1, Stutters DEF LifeOf!vars

\* The scheduler goes to a thread, and keeps the queues.
LEMMA JumpRefines ==
  ASSUME RInv, RInv', Start \/ EndRescan \/ Rotate
  PROVE  [LifeOf!Next]_(LifeOf!vars)
<1>1. /\ ~OnThread /\ UNCHANGED <<ready_queue, waiting_queue, env, fifo, status>>
      /\ Scheduling => status = 1
      /\ ~Scheduling'
      /\ OnThread' \/ (~Scheduling /\ pc' = "done" /\ rq_current' = rq_current)
  BY DEF Start, EndRescan, Rotate, queues, OnThread, Scheduling
<1>2. CASE OnThread'
  <2>1. RUNNING' \in Thread /\ RUNNING' \in Entries(ready_queue)
    <3>1. (RInv /\ OnThread => RUNNING \in Thread /\ RUNNING \in Entries(ready_queue))'
      BY ReadyRunning, PTL
    <3>. QED  BY <1>1, <1>2, <3>1
  <2>2. ASSUME NEW u \in Thread, u \in Entries(ready_queue)
        PROVE  Life(u) = "ready" /\ (fresh[u] <=> env[u] = "read")
    <3>1. CASE Current(u)
      BY <1>1, <3>1, LivesHold DEF Lives, Current
    <3>2. CASE ~Current(u)
      BY <2>2, <3>2, LivesHold DEF Lives
    <3>. QED  BY <3>1, <3>2
  <2>3. Life(RUNNING') = "ready" /\ (fresh[RUNNING'] <=> env'[RUNNING'] = "read")
    BY <1>1, <2>1, <2>2
  <2>4. ASSUME NEW u \in Thread, u # RUNNING' PROVE Life(u)' = Life(u) /\ (fresh'[u] <=> fresh[u])
    <3>1. ~Current(u)'
      BY <2>4 DEF Current
    <3>. QED  BY <1>1, <2>2, <3>1, LivesHold, LivesHoldNext, SomePlace DEF Lives
  <2>. QED  BY <1>1, <1>2, <2>3, <2>4, RunStep DEF LifeOf!Next
<1>3. CASE ~OnThread'
  BY <1>1, <1>3, Stutters DEF LifeOf!vars
<1>. QED  BY <1>2, <1>3

\* The scheduler takes RUNNING out of the ready queue, and goes to another
\* thread if there is one.
LEMMA SwitchRefines ==
  ASSUME RInv, RInv', Exit \/ Wait
  PROVE  [LifeOf!Next]_(LifeOf!vars)
<1>1. /\ pc = "switch" /\ Scheduling /\ ~OnThread /\ Remove /\ fifo' = fifo
      /\ ~Scheduling'
      /\ RUNNING \in Thread /\ env \in [Thread -> {"setup", "yield", "read", "freed"}]
  BY RunningReady DEF Exit, Wait, Resume, OnThread, Scheduling, RInv, Inv, TypeOK
<1>. PICK t \in Thread : t = RUNNING
  BY <1>1
<1>2. Entries(ready_queue') = Entries(ready_queue) \ {t}
  BY <1>1, RemoveHolds DEF RInv
<1>3. Current(t) /\ \A u \in Thread : u # t => ~Current(u)
  BY <1>1 DEF Current
<1>4. /\ Exit => status = 3 /\ env' = [env EXCEPT ![t] = "freed"] /\ waiting_queue' = waiting_queue
      /\ Wait => status = 2 /\ env' = env
  BY DEF Exit, Wait
<1>5. Wait => Entries(waiting_queue') = Entries(waiting_queue) \cup {t}
  <2>1. waiting_queue \in Seq(Thread)
    BY DEF RInv, Inv, TypeOK
  <2>. QED  BY <2>1, AppendHolds DEF Wait
<1>6. Life(t)' = Life(t) /\ (fresh'[t] <=> fresh[t]) /\ t \notin Entries(ready_queue')
  <2>1. CASE Exit
    BY <1>1, <1>2, <1>3, <1>4, <2>1, LivesHold, LivesHoldNext DEF Lives
  <2>2. CASE Wait
    BY <1>1, <1>2, <1>3, <1>4, <1>5, <2>2, LivesHold, LivesHoldNext DEF Lives
  <2>. QED  BY <2>1, <2>2
<1>7. ASSUME NEW u \in Thread, u # t, ~Current(u)'
      PROVE  Life(u)' = Life(u) /\ (fresh'[u] <=> fresh[u])
  <2>1. /\ env'[u] = env[u] /\ (u \in Entries(ready_queue') <=> u \in Entries(ready_queue))
        /\ (u \in Entries(waiting_queue') <=> u \in Entries(waiting_queue))
    BY <1>1, <1>2, <1>4, <1>5, <1>7
  <2>. QED  BY <1>3, <1>7, <2>1, LivesHold, LivesHoldNext, SomePlace DEF Lives
<1>8. CASE OnThread'
  <2>1. RUNNING' \in Thread /\ RUNNING' \in Entries(ready_queue')
    <3>1. (RInv /\ OnThread => RUNNING \in Thread /\ RUNNING \in Entries(ready_queue))'
      BY ReadyRunning, PTL
    <3>. QED  BY <1>8, <3>1
  <2>2. RUNNING' # t /\ RUNNING' \in Entries(ready_queue) /\ env'[RUNNING'] = env[RUNNING']
    BY <1>1, <1>2, <1>4, <2>1
  <2>3. Life(RUNNING') = "ready" /\ (fresh[RUNNING'] <=> env'[RUNNING'] = "read")
    BY <1>3, <2>1, <2>2, LivesHold DEF Lives
  <2>4. ASSUME NEW u \in Thread, u # RUNNING' PROVE Life(u)' = Life(u) /\ (fresh'[u] <=> fresh[u])
    BY <1>6, <1>7, <2>4 DEF Current
  <2>. QED  BY <1>1, <1>8, <2>3, <2>4, RunStep DEF LifeOf!Next
<1>9. CASE ~OnThread'
  <2>1. \A u \in Thread : ~Current(u)'
    BY <1>1, <1>9 DEF Current
  <2>. QED  BY <1>1, <1>6, <1>7, <2>1, SameLives, SameFresh DEF LifeOf!vars
<1>. QED  BY <1>8, <1>9

\* The scheduler awakens a thread whose input has come, or passes it by.
LEMMA WakeRefines ==
  ASSUME RInv, RInv', Wake
  PROVE  [LifeOf!Next]_(LifeOf!vars)
<1>1. /\ UNCHANGED <<rq_current, master, env, pc, status, fifo>>
      /\ pc \in {"scan", "rescan"} /\ ~OnThread /\ (OnThread' <=> OnThread) /\ (Scheduling' <=> Scheduling)
      /\ next \in Nat /\ next < wq_size /\ waiting_queue \in Seq(Thread) /\ ready_queue \in Seq(Thread)
  BY DEF Wake, RInv, Inv, TypeOK, OnThread, Scheduling
<1>2. waiting_queue[next + 1] \in Thread /\ waiting_queue[next + 1] \in Entries(waiting_queue)
  <2>1. next + 1 \in 1..wq_size
    BY <1>1, LenProperties
  <2>. QED  BY <1>1, <2>1, ElementOfSeq DEF Entries
<1>. PICK t \in Thread : t = waiting_queue[next + 1]
  BY <1>2
<1>3. CASE t \in master
  <2>1. Entries(ready_queue') = Entries(ready_queue) \cup {t} /\ ready_queue' = Append(ready_queue, t)
    <3>1. ready_queue' = Append(ready_queue, t)
      BY <1>3 DEF Wake, Awaken
    <3>. QED  BY <1>1, <3>1, AppendHolds
  <2>2. Entries(waiting_queue') = Entries(waiting_queue) \ {t}
    BY <1>1, <1>3, WithoutHolds DEF Wake, Awaken, RInv, Inv, NoThreadLost
  <2>3. Scheduling => RUNNING' = RUNNING
    BY <1>1, <2>1, RunningReady, AppendProperties DEF RUNNING, RInv
  <2>4. ASSUME NEW u \in Thread PROVE Current(u)' <=> Current(u)
    BY <1>1, <2>3 DEF Current
  <2>5. env[t] = "read" /\ t \notin Entries(ready_queue) /\ ~Current(t)
    BY <1>2, Places
  <2>6. Life(t) = "waiting" /\ Life(t)' = "ready" /\ fresh'[t] /\ life[t] = "waiting"
    BY <1>1, <1>2, <2>1, <2>4, <2>5, LivesHold, LivesHoldNext DEF Lives, life
  <2>7. ASSUME NEW u \in Thread, u # t PROVE Life(u)' = Life(u) /\ (fresh'[u] <=> fresh[u])
    <3>1. /\ u \in Entries(ready_queue') <=> u \in Entries(ready_queue)
          /\ u \in Entries(waiting_queue') <=> u \in Entries(waiting_queue)
          /\ env'[u] = env[u] /\ status' = status
      BY <1>1, <2>1, <2>2, <2>7
    <3>2. CASE Current(u)
      <4>1. Scheduling /\ Scheduling' /\ status \in 1..3
        BY <1>1, <3>2 DEF Current, RInv, Inv, Control
      <4>. QED  BY <2>4, <3>1, <3>2, <4>1, LivesHold, LivesHoldNext DEF Lives
    <3>3. CASE ~Current(u)
      BY <2>4, <3>1, <3>3, LivesHold, LivesHoldNext, SomePlace DEF Lives
    <3>. QED  BY <3>2, <3>3
  <2>8. life' = [life EXCEPT ![t] = "ready"] /\ fresh' = [fresh EXCEPT ![t] = TRUE]
    <3>1. life' = [life EXCEPT ![t] = "ready"]
      BY <2>6, <2>7, OneLife
    <3>2. fresh' = [fresh EXCEPT ![t] = TRUE]
      BY <2>6, <2>7, OneFresh
    <3>. QED  BY <3>1, <3>2
  <2>9. fifo[t] \in {"data", "closed"}
    BY <1>1, <1>3 DEF RInv, Inv, Inputs, Readable
  <2>. QED  BY <1>1, <2>6, <2>8, <2>9 DEF LifeOf!Next, LifeOf!ComeBack, LifeOf!Readable
<1>4. CASE t \notin master
  BY <1>1, <1>4, Stutters DEF Wake, LifeOf!vars
<1>. QED  BY <1>3, <1>4

\* The writers of the FIFOs.
LEMMA WritersRefine ==
  ASSUME NEW t \in Reader, Open(t) \/ Send(t) \/ Close(t)
  PROVE  [LifeOf!Next]_(LifeOf!vars)
<1>1. UNCHANGED <<life, fresh>>
  BY Stutters DEF Open, Send, Close, queues, OnThread, Scheduling
<1>. QED  BY <1>1, ReaderAssumption DEF Open, Send, Close, LifeOf!Next, LifeOf!Write

\* At the start every thread is ready and has not asked for input.
LEMMA InitRefines == Init => LifeOf!Init
<1>. SUFFICES ASSUME Init PROVE LifeOf!Init
  OBVIOUS
<1>1. \A t \in Thread : ~Current(t) /\ t \in Entries(ready_queue) /\ env[t] = "setup"
  BY RInvInit DEF Init, Current, OnThread, Scheduling, RInv, Inv, NoThreadLost, Entries
<1>2. \A t \in Thread : Life(t) = "ready" /\ fresh[t] = FALSE
  BY <1>1, RInvInit, LivesHold DEF Lives, fresh
<1>. QED  BY <1>2 DEF LifeOf!Init, life, fresh, Init

\* Every step of the library, of its threads and of the world around them is a
\* step of ThreadLife or changes nothing there.
LEMMA StepRefines == RInv /\ RInv' /\ [Next]_vars => [LifeOf!Next]_(LifeOf!vars)
BY CallsRefine, CatchRefines, ControlRefines, JumpRefines, SwitchRefines, WakeRefines, WritersRefine
   DEF Next, Run, Library, World

-----------------------------------------------------------------------------
\* In every behaviour the queues, the jumps and the selects of the library, with
\* whatever signals and input come, bring about the lives that ThreadLife
\* promises the threads: one runs at a time, who waits comes back only with
\* input, reads once for each time, and who has ended never runs again.
THEOREM LibraryKeepsPromise == Spec => ImplementsLife
<1>1. Spec => []RInv
  BY RInvInit, RInvStep, PTL DEF Spec
<1>. QED  BY <1>1, InitRefines, StepRefines, PTL DEF Spec, ImplementsLife, LifeOf!Spec
=============================================================================
