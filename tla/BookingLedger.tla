---------------------------- MODULE BookingLedger ---------------------------
(***************************************************************************)
(* What the booking service of hw1 promises, whatever processes,           *)
(* connections and locks it is made of: every user has an account; people  *)
(* look at it together or one of them changes it alone; a change respects  *)
(* the limit and happens at once; and a session that is cut off in the     *)
(* middle of a change may leave any mixture of small numbers behind.       *)
(***************************************************************************)
EXTENDS Integers

CONSTANTS User, Session, Command, Limit

Item == 1..3
Balanced(b) == b[1] + b[2] + b[3] <= Limit

VARIABLES
  account,   \* for every user the three booking numbers
  readers,   \* for every user the sessions that are shown the account
  writers    \* for every user the sessions that may change it

vars == <<account, readers, writers>>

Init ==
  /\ account \in [User -> {b \in [Item -> 0..Limit] : Balanced(b)}]
  /\ readers = [u \in User |-> {}]
  /\ writers = [u \in User |-> {}]

Idle(x) == \A u \in User : x \notin readers[u] \cup writers[u]

Show(u, x) ==
  /\ Idle(x)
  /\ writers[u] = {}
  /\ readers' = [readers EXCEPT ![u] = @ \cup {x}]
  /\ UNCHANGED <<account, writers>>

Open(u, x) ==
  /\ Idle(x)
  /\ readers[u] = {}
  /\ writers[u] = {}
  /\ writers' = [writers EXCEPT ![u] = {x}]
  /\ UNCHANGED <<account, readers>>

\* A command is applied to what the account holds now: no booking is lost.
Change(u, x) ==
  /\ writers[u] = {x}
  /\ \E d \in Command :
       LET b == [i \in Item |-> account[u][i] + d[i]]
       IN  /\ b \in [Item -> 0..Limit]
           /\ Balanced(b)
           /\ account' = [account EXCEPT ![u] = b]
  /\ UNCHANGED <<readers, writers>>

\* Some sessions end.
Leave(X) ==
  /\ readers' = [u \in User |-> readers[u] \ X]
  /\ writers' = [u \in User |-> writers[u] \ X]

Close(X) == Leave(X) /\ UNCHANGED account

\* They are cut off: the change that x was about to make to u's account may
\* have taken effect in part.
Cut(u, x, X) ==
  /\ x \in X
  /\ writers[u] = {x}
  /\ \E b \in [Item -> 0..Limit] : account' = [account EXCEPT ![u] = b]
  /\ Leave(X)

Next ==
  \/ \E u \in User, x \in Session : Show(u, x) \/ Open(u, x) \/ Change(u, x)
  \/ \E X \in SUBSET Session :
       Close(X) \/ \E u \in User, x \in X : Cut(u, x, X)

Spec == Init /\ [][Next]_vars

=============================================================================
