----------------------------- MODULE ThreadLife -----------------------------
(***************************************************************************)
(* What the thread library of hw3 promises its threads, without queues,    *)
(* jumps, signals and selects: one thread runs at a time; a thread that    *)
(* asks for input is set aside and comes back when a read will not fail    *)
(* for want of data; it reads once for each time it came back; a thread    *)
(* that has ended never runs again, and its FIFO is gone.                  *)
(***************************************************************************)
CONSTANTS
  Thread,    \* the threads
  Reader     \* those that read

VARIABLES
  life,      \* "ready", "running", "waiting" or "ended"
  fresh,     \* the thread came back and has not read since
  input      \* what its FIFO would give

vars == <<life, fresh, input>>

\* A read finds data, or the end of the stream.
Readable(t) == input[t] \in {"data", "closed"}

Init ==
  /\ life = [t \in Thread |-> "ready"]
  /\ fresh = [t \in Thread |-> FALSE]
  /\ input = [t \in Thread |-> "unopened"]

Run(t) ==
  /\ \A u \in Thread : life[u] # "running"
  /\ life[t] = "ready"
  /\ life' = [life EXCEPT ![t] = "running"]
  /\ UNCHANGED <<fresh, input>>

Preempt(t) ==
  /\ life[t] = "running"
  /\ life' = [life EXCEPT ![t] = "ready"]
  /\ UNCHANGED <<fresh, input>>

Wait(t) ==
  /\ t \in Reader
  /\ life[t] = "running"
  /\ ~fresh[t]
  /\ life' = [life EXCEPT ![t] = "waiting"]
  /\ UNCHANGED <<fresh, input>>

ComeBack(t) ==
  /\ life[t] = "waiting"
  /\ Readable(t)
  /\ life' = [life EXCEPT ![t] = "ready"]
  /\ fresh' = [fresh EXCEPT ![t] = TRUE]
  /\ UNCHANGED input

\* A line is taken, or the end of the stream is seen.
Read(t) ==
  /\ life[t] = "running"
  /\ fresh[t]
  /\ fresh' = [fresh EXCEPT ![t] = FALSE]
  /\ \/ input[t] = "data" /\ \E rest \in {"data", "open", "closed"} :
                                input' = [input EXCEPT ![t] = rest]
     \/ input[t] = "closed" /\ UNCHANGED input
  /\ UNCHANGED life

\* The thread ends, perhaps after a last read.
End(t) ==
  /\ life[t] = "running"
  /\ t \in Reader => fresh[t]
  /\ life' = [life EXCEPT ![t] = "ended"]
  /\ fresh' = [fresh EXCEPT ![t] = FALSE]
  /\ input' = [input EXCEPT ![t] = "gone"]

\* The writer's end of the FIFO.
Write(t) ==
  /\ \/ input[t] = "unopened" /\ input' = [input EXCEPT ![t] = "open"]
     \/ input[t] = "open" /\ \E i \in {"data", "closed"} :
                                input' = [input EXCEPT ![t] = i]
  /\ UNCHANGED <<life, fresh>>

Next ==
  \E t \in Thread :
    Run(t) \/ Preempt(t) \/ Wait(t) \/ ComeBack(t) \/ Read(t) \/ End(t) \/ Write(t)

Spec == Init /\ [][Next]_vars
=============================================================================
