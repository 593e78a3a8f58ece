--------------------------- MODULE ThreadsRefinement ------------------------
(***************************************************************************)
(* The thread library keeps the promise of ThreadLife.  The jump into the  *)
(* scheduler is the step at which a thread stops running; where it then    *)
(* belongs is what the jump's status says, although the queues follow only *)
(* at the end of the scheduler's pass.                                     *)
(***************************************************************************)
EXTENDS UserThreads

\* RUNNING has jumped to the scheduler, which has not acted on it.
Leaving(t) == pc \in {"poll", "scan", "switch"} /\ t = RUNNING

\* The life of a thread as queues, control and status tell it.
Life(t) ==
  CASE env[t] = "freed" \/ (Leaving(t) /\ status = 3) -> "ended"
    [] t \in Entries(waiting_queue) \/ (Leaving(t) /\ status = 2) -> "waiting"
    [] OnThread /\ t = RUNNING -> "running"
    [] OTHER -> "ready"

\* The variables of ThreadLife.
life == [t \in Thread |-> Life(t)]
fresh == [t \in Thread |-> env[t] = "read" /\ Life(t) \in {"ready", "running"}]

LifeOf == INSTANCE ThreadLife WITH input <- fifo

\* Every step of the library is a step of ThreadLife or changes nothing there:
\* no thread runs beside another, comes back from async_read without input,
\* reads without waiting, or runs after thread_exit.
ImplementsLife == LifeOf!Spec
=============================================================================
