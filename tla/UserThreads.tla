----------------------------- MODULE UserThreads ----------------------------
(***************************************************************************)
(* The user-level thread library of hw3: the scheduler of scheduler.c, the *)
(* macros thread_setup, thread_yield, thread_exit and async_read of        *)
(* threadtools.h, and the signals that main.c arms.                        *)
(*                                                                         *)
(* One stack of control runs everything: the scheduler jumps into a        *)
(* thread, and the thread, or the signal handler on its behalf, jumps back *)
(* with a status.  Both signals are blocked but for two windows inside     *)
(* thread_yield.  What runs beside the program is the kernel (its timer    *)
(* and its pending signals), whoever sends SIGTSTP, and the writers of the *)
(* threads' FIFOs.  A thread's descriptor is named by the thread.          *)
(***************************************************************************)
EXTENDS Integers, Sequences

CONSTANTS
  Thread,      \* the threads
  Reader,      \* those whose function calls async_read (max_subarray)
  Created,     \* the threads in the order in which they are created
  Timeslice    \* seconds between alarms; 0 switches the alarm off

ASSUME ReaderAssumption == Reader \subseteq Thread
ASSUME TimesliceAssumption == Timeslice \in Nat
ASSUME CreatedAssumption ==
  /\ Created \in Seq(Thread)
  /\ \A i, j \in 1..Len(Created) : Created[i] = Created[j] => i = j
  /\ \A t \in Thread : \E i \in 1..Len(Created) : Created[i] = t

VARIABLES
  ready_queue,    \* the first rq_size entries of the array
  rq_current,     \* index of the running thread in it, from 0
  waiting_queue,  \* the first wq_size entries of the array
  readfds,        \* descriptors the scheduler selects on
  master,         \* descriptors the last select found readable
  env,            \* where a jump to the thread's environment continues
  pc,             \* what the control is in
  status,         \* what setjmp(sched_buf) returned last
  next,           \* index of the scan over the waiting queue, from 0
  pending,        \* signals sent and not yet delivered
  armed,          \* the alarm is set
  fifo            \* what the thread's FIFO would give a reader

vars == <<ready_queue, rq_current, waiting_queue, readfds, master, env, pc, status,
          next, pending, armed, fifo>>
queues == <<ready_queue, rq_current, waiting_queue, readfds, env>>

rq_size == Len(ready_queue)
wq_size == Len(waiting_queue)
RUNNING == ready_queue[rq_current + 1]

\* select reports a descriptor with data, or whose writer has gone.
Readable(t) == fifo[t] \in {"data", "closed"}

-----------------------------------------------------------------------------
(* The calls a thread makes.                                               *)

\* Mutant: only the first read waits.
AtReadOnce == RUNNING \in Reader /\ env[RUNNING] = "setup"

\* Control is in RUNNING's function, at its next library call.  A thread that
\* reads waits for input first; the call after that, and every call of the
\* others, is thread_exit or thread_yield.
AtRead == RUNNING \in Reader /\ env[RUNNING] # "read"

\* async_read saves the environment and jumps to the scheduler.
AsyncRead ==
  /\ pc = "thread"
  /\ AtRead
  /\ env' = [env EXCEPT ![RUNNING] = "read"]
  /\ status' = 2
  /\ pc' = "poll"
  /\ UNCHANGED <<ready_queue, rq_current, waiting_queue, readfds, master, next,
                 pending, armed, fifo>>

\* The read behind the jump takes a line: more may follow, the FIFO may be
\* empty now, or its writer may have gone.  At the end of the stream, and on
\* an empty FIFO, nothing is read.
Consume(t) ==
  IF t \in Reader /\ fifo[t] = "data"
  THEN \E rest \in {"data", "open", "closed"} : fifo' = [fifo EXCEPT ![t] = rest]
  ELSE UNCHANGED fifo

\* thread_exit: the FIFO is unlinked and closed.
ThreadExit ==
  /\ pc = "thread"
  /\ ~AtRead
  /\ fifo' = [fifo EXCEPT ![RUNNING] = "gone"]
  /\ status' = 3
  /\ pc' = "poll"
  /\ UNCHANGED <<queues, master, next, pending, armed>>

\* thread_yield saves the environment and unblocks SIGTSTP.
ThreadYield ==
  /\ pc = "thread"
  /\ ~AtRead
  /\ Consume(RUNNING)
  /\ env' = [env EXCEPT ![RUNNING] = "yield"]
  /\ pc' = "tstp"
  /\ UNCHANGED <<ready_queue, rq_current, waiting_queue, readfds, master, status,
                 next, pending, armed>>

-----------------------------------------------------------------------------
(* The two windows of thread_yield.                                        *)

\* Mutant: the alarm is not set again.
RearmedOnce(signo) == armed

\* SIGALRM sets the alarm again.
Rearmed(signo) == IF signo = "SIGALRM" THEN Timeslice > 0 ELSE armed

\* sighandler: both signals are blocked and control jumps to the scheduler.
SigHandler(signo) ==
  /\ pending' = pending \ {signo}
  /\ armed' = Rearmed(signo)
  /\ status' = 1
  /\ pc' = "poll"
  /\ UNCHANGED <<queues, master, next, fifo>>

CatchTSTP == pc = "tstp" /\ "SIGTSTP" \in pending /\ SigHandler("SIGTSTP")

CatchALRM == pc = "alrm" /\ "SIGALRM" \in pending /\ SigHandler("SIGALRM")

\* No signal came: SIGTSTP is blocked and SIGALRM unblocked, then both are
\* blocked and the thread goes on.
NoTSTP ==
  /\ pc = "tstp"
  /\ "SIGTSTP" \notin pending
  /\ pc' = "alrm"
  /\ UNCHANGED <<queues, master, status, next, pending, armed, fifo>>

NoALRM ==
  /\ pc = "alrm"
  /\ "SIGALRM" \notin pending
  /\ pc' = "thread"
  /\ UNCHANGED <<queues, master, status, next, pending, armed, fifo>>

-----------------------------------------------------------------------------
(* The scheduler.                                                          *)

\* The first call of scheduler starts the oldest thread, if there is one.
Start ==
  /\ pc = "start"
  /\ pc' = IF rq_size = 0 THEN "done" ELSE "thread"
  /\ UNCHANGED <<queues, master, status, next, pending, armed, fifo>>

\* Mutant: what is selected on is taken for what is readable.
SelectedAll == readfds

\* Mutant: nothing is selected on while a thread is ready.
SelectedLate == IF pc = "block" THEN {t \in readfds : Readable(t)} ELSE {}

\* What select leaves in master.
Selected == {t \in readfds : Readable(t)}

\* The select that does not wait.
Poll ==
  /\ pc = "poll"
  /\ master' = Selected
  /\ pc' = IF master' = {} THEN "switch" ELSE "scan"
  /\ next' = 0
  /\ UNCHANGED <<queues, status, pending, armed, fifo>>

\* The select that waits until a thread can go on.
Block ==
  /\ pc = "block"
  /\ master' = Selected
  /\ master' # {}
  /\ pc' = "rescan"
  /\ next' = 0
  /\ UNCHANGED <<queues, status, pending, armed, fifo>>

\* The array without its entry i, from 0; the entries behind it move up.
Without(q, i) ==
  [j \in 1..(Len(q) - 1) |-> IF j <= i THEN q[j] ELSE q[j + 1]]

\* Mutant: the descriptor of an awakened thread stays in readfds.
AwakenSelected(t) ==
  /\ ready_queue' = Append(ready_queue, t)
  /\ waiting_queue' = Without(waiting_queue, next)
  /\ UNCHANGED <<readfds, next>>

\* Mutant: the loop steps on although the entries moved up.
AwakenSkipping(t) ==
  /\ readfds' = readfds \ {t}
  /\ ready_queue' = Append(ready_queue, t)
  /\ waiting_queue' = Without(waiting_queue, next)
  /\ next' = next + 1

\* Thread t, which the loop is at, becomes the last of the ready queue.
Awaken(t) ==
  /\ readfds' = readfds \ {t}
  /\ ready_queue' = Append(ready_queue, t)
  /\ waiting_queue' = Without(waiting_queue, next)
  /\ UNCHANGED next

\* One iteration of the loop over the waiting queue: a thread whose
\* descriptor is readable is awakened.
Wake ==
  /\ pc \in {"scan", "rescan"}
  /\ next < wq_size
  /\ IF waiting_queue[next + 1] \in master
     THEN Awaken(waiting_queue[next + 1])
     ELSE /\ next' = next + 1
          /\ UNCHANGED <<readfds, ready_queue, waiting_queue>>
  /\ UNCHANGED <<rq_current, master, env, pc, status, pending, armed, fifo>>

EndScan ==
  /\ pc = "scan"
  /\ next = wq_size
  /\ pc' = "switch"
  /\ UNCHANGED <<queues, master, status, next, pending, armed, fifo>>

\* After the select that waited the first of the awakened threads goes on.
EndRescan ==
  /\ pc = "rescan"
  /\ next = wq_size
  /\ rq_current' = 0
  /\ pc' = "thread"
  /\ UNCHANGED <<ready_queue, waiting_queue, readfds, master, env, status, next,
                 pending, armed, fifo>>

\* Mutant: the turn does not return to the first thread.
TurnOnward == IF rq_size <= 1 THEN rq_current ELSE rq_current + 1

\* Mutant: the turn returns to the first thread and does not leave it.
TurnBack == IF rq_size <= 1 \/ rq_current = rq_size - 1 THEN 0 ELSE rq_current

\* Whose turn is next.
Turn ==
  IF rq_size <= 1 THEN rq_current
  ELSE IF rq_current = rq_size - 1 THEN 0 ELSE rq_current + 1

\* Status 1, a signal came while the thread yielded: the next in turn goes on.
Rotate ==
  /\ pc = "switch"
  /\ status = 1
  /\ rq_current' = Turn
  /\ pc' = "thread"
  /\ UNCHANGED <<ready_queue, waiting_queue, readfds, master, env, status, next,
                 pending, armed, fifo>>

\* Mutant: the entry before the last takes the place.
SwapOutBefore(q, i) ==
  [j \in 1..(Len(q) - 1) |-> IF j = i + 1 THEN q[Len(q) - 1] ELSE q[j]]

\* The array without its entry i, from 0: the last entry takes its place.
SwapOut(q, i) ==
  [j \in 1..(Len(q) - 1) |-> IF j = i + 1 THEN q[Len(q)] ELSE q[j]]

\* RUNNING leaves the ready queue: the thread that takes its place goes on, or
\* the first one if RUNNING was the last.
Remove ==
  /\ ready_queue' = SwapOut(ready_queue, rq_current)
  /\ rq_current' = IF rq_current = rq_size - 1 /\ rq_size > 1 THEN 0 ELSE rq_current

\* Where control goes then.  When no thread is ready the scheduler waits, or
\* it returns when there is none left at all.
Resume ==
  IF rq_size > 1 THEN "thread" ELSE IF waiting_queue' = <<>> THEN "done" ELSE "block"

\* Status 3: the thread is freed.
Exit ==
  /\ pc = "switch"
  /\ status = 3
  /\ env' = [env EXCEPT ![RUNNING] = "freed"]
  /\ Remove
  /\ UNCHANGED <<waiting_queue, readfds>>
  /\ pc' = Resume
  /\ UNCHANGED <<master, status, next, pending, armed, fifo>>

\* Status 2: the thread moves to the waiting queue.
Wait ==
  /\ pc = "switch"
  /\ status = 2
  /\ readfds' = readfds \cup {RUNNING}
  /\ waiting_queue' = Append(waiting_queue, RUNNING)
  /\ Remove
  /\ pc' = Resume
  /\ UNCHANGED <<env, master, status, next, pending, armed, fifo>>

-----------------------------------------------------------------------------
(* The world around the program.                                           *)

\* The timer runs out.
Alarm ==
  /\ armed
  /\ armed' = FALSE
  /\ pending' = pending \cup {"SIGALRM"}
  /\ UNCHANGED <<queues, master, pc, status, next, fifo>>

\* Somebody types Ctrl-Z; a signal already pending is not counted twice.
Stop ==
  /\ pending' = pending \cup {"SIGTSTP"}
  /\ UNCHANGED <<queues, master, pc, status, next, armed, fifo>>

\* The one writer of a thread's FIFO opens it, writes, and at last closes it.
Open(t) ==
  /\ fifo[t] = "unopened"
  /\ fifo' = [fifo EXCEPT ![t] = "open"]
  /\ UNCHANGED <<queues, master, pc, status, next, pending, armed>>

Send(t) ==
  /\ fifo[t] = "open"
  /\ fifo' = [fifo EXCEPT ![t] = "data"]
  /\ UNCHANGED <<queues, master, pc, status, next, pending, armed>>

Close(t) ==
  /\ fifo[t] = "open"
  /\ fifo' = [fifo EXCEPT ![t] = "closed"]
  /\ UNCHANGED <<queues, master, pc, status, next, pending, armed>>

-----------------------------------------------------------------------------
Init ==
  /\ ready_queue = Created
  /\ rq_current = 0
  /\ waiting_queue = <<>>
  /\ readfds = {}
  /\ master = {}
  /\ env = [t \in Thread |-> "setup"]
  /\ pc = "start"
  /\ status = 0
  /\ next = 0
  /\ pending = {}
  /\ armed = (Timeslice > 0)
  /\ fifo = [t \in Thread |-> "unopened"]

\* The steps of the library: jumps, signals and the scheduler.
Library ==
  \/ AsyncRead \/ CatchTSTP \/ CatchALRM \/ NoTSTP \/ NoALRM
  \/ Start \/ Poll \/ Block \/ Wake \/ EndScan \/ EndRescan
  \/ Rotate \/ Exit \/ Wait

\* The control of the program.
Run == ThreadExit \/ ThreadYield \/ Library

World ==
  \/ Alarm \/ Stop
  \/ \E t \in Reader : Open(t) \/ Send(t) \/ Close(t)

Next == Run \/ World

Spec == Init /\ [][Next]_vars

\* The program runs on and the timer runs out; nobody has to send a signal or
\* to write to a FIFO.
FairSpec == Spec /\ WF_vars(Run) /\ WF_vars(Alarm)

-----------------------------------------------------------------------------
(* Properties.                                                             *)

Entries(q) == {q[i] : i \in 1..Len(q)}
Distinct(q) == \A i, j \in 1..Len(q) : q[i] = q[j] => i = j

\* A thread is on a processor, so to say: control is in its function.
OnThread == pc \in {"thread", "tstp", "alrm"}

\* Type invariant.
TypeOK ==
  /\ ready_queue \in Seq(Thread)
  /\ rq_current \in Nat
  /\ waiting_queue \in Seq(Thread)
  /\ readfds \subseteq Thread
  /\ master \subseteq Thread
  /\ env \in [Thread -> {"setup", "yield", "read", "freed"}]
  /\ pc \in {"start", "thread", "tstp", "alrm", "poll", "scan", "switch", "block",
             "rescan", "done"}
  /\ status \in 0..3
  /\ next \in 0..wq_size
  /\ pending \subseteq {"SIGTSTP", "SIGALRM"}
  /\ armed \in BOOLEAN
  /\ fifo \in [Thread -> {"unopened", "open", "data", "closed", "gone"}]

\* No thread is lost or queued twice: the two queues hold every thread that was
\* not freed, each of them once.
NoThreadLost ==
  /\ Distinct(ready_queue)
  /\ Distinct(waiting_queue)
  /\ Entries(ready_queue) \cap Entries(waiting_queue) = {}
  /\ Entries(ready_queue) \cup Entries(waiting_queue) = {t \in Thread : env[t] # "freed"}

\* RUNNING is a thread whenever it is used: in the thread, in the handler and
\* in the scheduler up to the switch.
RunningExists ==
  pc \in {"thread", "tstp", "alrm", "poll", "scan", "switch"} => rq_current < rq_size

\* The scheduler selects on the descriptors of the waiting threads and on no
\* others, it waits only for what can still come, and it returns only when all
\* threads have ended.
StopsOnlyRightly ==
  /\ readfds = Entries(waiting_queue)
  /\ pc = "block" => readfds # {}
  /\ pc = "done" => \A t \in Thread : env[t] = "freed"

\* A thread goes on behind async_read only when its read will not fail for
\* want of data.
ReadsFindInput ==
  OnThread /\ env[RUNNING] = "read" => Readable(RUNNING)

\* The alarm keeps coming while there are threads: it is set, or its signal is
\* pending, no matter how signals and switches interleave.
AlarmGoesOn ==
  Timeslice > 0 /\ pc # "done" => armed \/ "SIGALRM" \in pending

\* With a timeslice, every thread that is ready gets its turn.
ReadyRuns ==
  \A t \in Thread :
    t \in Entries(ready_queue) /\ t # RUNNING ~> OnThread /\ RUNNING = t

\* With a timeslice, a thread whose input has come goes on, although others
\* never wait.
InputWakes ==
  \A t \in Reader :
    t \in Entries(waiting_queue) /\ Readable(t) ~> OnThread /\ RUNNING = t

=============================================================================
