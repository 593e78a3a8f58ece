-------------------------- MODULE BookingRefinement -------------------------
(* The processes of BookingServers keep the promise of BookingLedger.      *)
EXTENDS BookingServers

Session == Server \X Fd
Users(u, S) == {x \in S \X Fd : Holds(x[1], x[2], u)}

\* A booking counts from the moment the client is told so, before the first
\* of the three writes; a crash in between is what takes it back.
Account(u) ==
  IF \E x \in WriteServer \X Fd : Storing(x[1], x[2], u)
  THEN LET x == CHOOSE x \in WriteServer \X Fd : Storing(x[1], x[2], u)
       IN  requestP[x[1]][x[2]].Record
  ELSE record[u]

\* What the ledger's variables stand for.
account == [u \in User |-> Account(u)]
readers == [u \in User |-> Users(u, ReadServer)]
writers == [u \in User |-> Users(u, WriteServer)]

Ledger == INSTANCE BookingLedger

\* Every behaviour of the processes is one of the ledger: sessions that read
\* share an account, a session that writes has it alone, and a booking takes
\* effect at once or, if its process dies meanwhile, in part.
ImplementsLedger == Ledger!Spec

=============================================================================
