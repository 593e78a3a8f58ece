--------------------------- MODULE BookingServers ---------------------------
(***************************************************************************)
(* The booking service of hw1/server.c.  The source is compiled twice:     *)
(* with READ_SERVER it shows a user's bookings, with WRITE_SERVER it       *)
(* changes them.  Any number of processes of both kinds run on one file,   *)
(* bookingRecord, and each serves many connections from one select loop.   *)
(*                                                                         *)
(* A record of the file is protected twice: by a POSIX record lock, which  *)
(* belongs to a process and so never refuses the process that holds it,    *)
(* and by the arrays read_lock and write_lock, which each process keeps    *)
(* about its own connections.                                              *)
(*                                                                         *)
(* One action is one step of one process between two accesses to what the  *)
(* processes share (the file and its locks); the code between two such     *)
(* accesses runs in one action.  The lines a client sends are chosen where *)
(* handle_read reads them.                                                 *)
(***************************************************************************)
EXTENDS Integers, FiniteSets

CONSTANTS
  ReadServer,    \* processes compiled with READ_SERVER
  WriteServer,   \* processes compiled with WRITE_SERVER
  User,          \* the ids that have a record, 902001..902020 in the code
  NoUser,        \* requestP[fd].id of a slot that has not taken a lock
  MaxFd,         \* highest descriptor a process may open for a client
  TableSize,     \* per process, getdtablesize(): its own highest descriptor
  Command,       \* the booking commands clients send, after atoi
  InitialState,  \* what a record of the file may hold at the start
  Limit,         \* bookings a user may hold in total, 15 in the code
  IntMax         \* largest value of an int

Item == 1..3     \* OBJ_NUM; FOOD_INDEX, CONCERT_INDEX, ELECS_INDEX
Fd == 1..MaxFd
listen_fd == 0   \* below every client's descriptor, so it is visited first
Server == ReadServer \cup WriteServer
Table(s) == 1..TableSize[s]
Int32 == (-IntMax - 1)..IntMax

ASSUME ServerAssumption == ReadServer \cap WriteServer = {}
ASSUME UserAssumption == NoUser \notin User
ASSUME BoundAssumption ==
  /\ MaxFd \in Nat
  /\ TableSize \in [Server -> 0..MaxFd]
  /\ Limit \in Nat
  /\ IntMax \in Nat
  /\ Limit <= IntMax
ASSUME DataAssumption ==
  /\ Command \subseteq [Item -> Int32]
  /\ InitialState \subseteq [Item -> 0..Limit]
  /\ \A b \in InitialState : b[1] + b[2] + b[3] <= Limit

VARIABLES
  record,      \* the file: for every user the three booking numbers
  flock,       \* the kernel's record locks: for every user, what each process holds
  pc,          \* where a process is: in the scan of the ready descriptors,
               \* about to load a record, storing one, or not running
  readfds,     \* descriptors of this round of select not visited yet
  master,      \* descriptors of the connected clients
  requestP,    \* the request table
  read_lock,   \* per read server and user: how many connections show the record
  write_lock,  \* per write server and user: is a connection changing the record
  cur,         \* descriptor whose handler is between two shared accesses
  k,           \* items of the record already stored
  hungup,      \* connections on which the next read returns 0
  reset,       \* connections on which the next read fails
  damaged      \* history: users whose last store was cut off by a crash

shared == <<record, flock>>
process == <<pc, readfds, master, requestP, read_lock, write_lock, cur, k>>
vars == <<record, flock, pc, readfds, master, requestP, read_lock, write_lock,
          cur, k, hungup, reset, damaged>>

-----------------------------------------------------------------------------
(* Data.                                                                   *)

\* The sum of two ints; the build keeps the low bits when it does not fit.
Plus(a, b) ==
  IF a + b > IntMax THEN a + b - 2 * (IntMax + 1)
  ELSE IF a + b < -IntMax - 1 THEN a + b + 2 * (IntMax + 1)
  ELSE a + b

Total(b) == b[1] + b[2] + b[3]

WithinLimit(b) == Total(b) <= Limit /\ \A i \in Item : b[i] >= 0

\* What the second write computes from the cached record and the command.
NewTotal(b, d) == Plus(Plus(Plus(Plus(Plus(b[1], b[2]), b[3]), d[1]), d[2]), d[3])
NewState(b, d) == [i \in Item |-> Plus(b[i], d[i])]

\* Mutant: the limit is checked against what the command adds.
AcceptedByCommand(b, d) ==
  /\ Plus(Plus(d[1], d[2]), d[3]) <= Limit
  /\ \A i \in Item : Plus(b[i], d[i]) >= 0

\* The two checks on a well-formed command: over_items and less_items.
Accepted(b, d) ==
  /\ NewTotal(b, d) <= Limit
  /\ \A i \in Item : Plus(b[i], d[i]) >= 0

Request == [id : User \cup {NoUser}, wait : BOOLEAN, Record : [Item -> Int32]]
BlankRequest == [id |-> NoUser, wait |-> FALSE, Record |-> [i \in Item |-> 0]]

-----------------------------------------------------------------------------
(* POSIX record locks: F_SETLK on the 16 bytes of one user's record.       *)

CanLock(s, u, mode) ==
  \A p \in Server \ {s} :
    IF mode = "read" THEN flock[u][p] # "write" ELSE flock[u][p] = "none"

SetLock(s, u, mode) == flock' = [flock EXCEPT ![u][s] = mode]

-----------------------------------------------------------------------------
(* The select loop of one process.                                         *)

\* The for loop over the descriptors has reached f, which is ready.
Turn(s, f) ==
  /\ pc[s] = "scan"
  /\ f \in readfds[s]
  /\ \A g \in readfds[s] : f <= g

\* Some line came in on f: its peer neither left nor broke the connection.
Line(s, f) == f \notin hungup[s] \cup reset[s]

\* The loop goes on to the next descriptor.
Continue(s, f) == readfds' = [readfds EXCEPT ![s] = @ \ {f}]

\* connect_off, and the break behind every call of it: the rest of the round
\* is dropped.  (init_request leaves the old Record in the slot; no handler
\* reads it before the next load, so here it is blanked.)
ConnectOff(s, f) ==
  /\ master' = [master EXCEPT ![s] = @ \ {f}]
  /\ requestP' = [requestP EXCEPT ![s][f] = BlankRequest]
  /\ hungup' = [hungup EXCEPT ![s] = @ \ {f}]
  /\ reset' = [reset EXCEPT ![s] = @ \ {f}]
  /\ readfds' = [readfds EXCEPT ![s] = {}]

\* select returns the ready descriptors.  Connections whose peer is gone are
\* always among them; which others are is up to the clients.
Select(s) ==
  /\ pc[s] = "scan"
  /\ readfds[s] = {}
  /\ \E ready \in SUBSET (master[s] \cup {listen_fd}) \ {{}} :
       /\ hungup[s] \cup reset[s] \subseteq ready
       /\ readfds' = [readfds EXCEPT ![s] = ready]
  /\ UNCHANGED <<record, flock, pc, master, requestP, read_lock, write_lock,
                 cur, k, hungup, reset, damaged>>

\* accept returns the lowest free descriptor; the client is asked for its id.
AcceptConnection(s) ==
  /\ Turn(s, listen_fd)
  /\ \E f \in Table(s) \ master[s] :
       /\ \A g \in Table(s) \ master[s] : f <= g
       /\ master' = [master EXCEPT ![s] = @ \cup {f}]
  /\ Continue(s, listen_fd)
  /\ UNCHANGED <<record, flock, pc, requestP, read_lock, write_lock, cur, k,
                 hungup, reset, damaged>>

\* accept fails with EINTR, EAGAIN or ENFILE and the loop tries again later.
AcceptAgain(s) ==
  /\ Turn(s, listen_fd)
  /\ Continue(s, listen_fd)
  /\ UNCHANGED <<record, flock, pc, master, requestP, read_lock, write_lock,
                 cur, k, hungup, reset, damaged>>

\* read fails: the connection stays, and so does what it has locked.  The
\* error is reported once, the next read finds the end of the stream.
ReadFails(s, f) ==
  /\ Turn(s, f)
  /\ f \in reset[s]
  /\ reset' = [reset EXCEPT ![s] = @ \ {f}]
  /\ hungup' = [hungup EXCEPT ![s] = @ \cup {f}]
  /\ Continue(s, f)
  /\ UNCHANGED <<record, flock, pc, master, requestP, read_lock, write_lock,
                 cur, k, damaged>>

-----------------------------------------------------------------------------
(* The first line of a connection: the id.                                 *)

Identifying(s, f) == Turn(s, f) /\ f \in master[s] /\ ~requestP[s][f].wait

\* End of the stream, Ctrl-C, or a line that is not an id: the client is
\* turned away.
TurnAway(s, f) ==
  /\ Identifying(s, f)
  /\ f \notin reset[s]
  /\ ConnectOff(s, f)
  /\ UNCHANGED <<record, flock, pc, read_lock, write_lock, cur, k, damaged>>

\* Mutant: a process that trusts the kernel's lock alone, which never refuses
\* the process itself.
LockableByKernel(s, u) == CanLock(s, u, IF s \in ReadServer THEN "read" ELSE "write")

\* Could the process lock u's record for this connection?
Lockable(s, u) ==
  IF s \in ReadServer THEN CanLock(s, u, "read")
                      ELSE ~write_lock[s][u] /\ CanLock(s, u, "write")

\* Mutant: the "Locked." path of a read server uncounts a lock it never got.
FindLockedUncounting(s, f, u) ==
  /\ Identifying(s, f)
  /\ Line(s, f)
  /\ ~Lockable(s, u)
  /\ read_lock' = [read_lock EXCEPT ![s][u] = @ - 1]
  /\ ConnectOff(s, f)
  /\ UNCHANGED <<record, flock, pc, write_lock, cur, k, damaged>>

\* An id whose record is locked: "Locked." and the connection is closed.
FindLocked(s, f, u) ==
  /\ Identifying(s, f)
  /\ Line(s, f)
  /\ ~Lockable(s, u)
  /\ ConnectOff(s, f)
  /\ UNCHANGED <<record, flock, pc, read_lock, write_lock, cur, k, damaged>>

LockForReading(s, f, u) ==
  /\ s \in ReadServer
  /\ Identifying(s, f)
  /\ Line(s, f)
  /\ Lockable(s, u)
  /\ SetLock(s, u, "read")
  /\ read_lock' = [read_lock EXCEPT ![s][u] = @ + 1]
  /\ requestP' = [requestP EXCEPT ![s][f] = [@ EXCEPT !.id = u]]
  /\ pc' = [pc EXCEPT ![s] = "load"]
  /\ cur' = [cur EXCEPT ![s] = f]
  /\ UNCHANGED <<record, readfds, master, write_lock, k, hungup, reset, damaged>>

LockForWriting(s, f, u) ==
  /\ s \in WriteServer
  /\ Identifying(s, f)
  /\ Line(s, f)
  /\ Lockable(s, u)
  /\ SetLock(s, u, "write")
  /\ write_lock' = [write_lock EXCEPT ![s][u] = TRUE]
  /\ requestP' = [requestP EXCEPT ![s][f] = [@ EXCEPT !.id = u, !.wait = TRUE]]
  /\ pc' = [pc EXCEPT ![s] = "load"]
  /\ cur' = [cur EXCEPT ![s] = f]
  /\ UNCHANGED <<record, readfds, master, read_lock, k, hungup, reset, damaged>>

\* Mutant: the client is shown what its slot of the table held before.
LoadNothing(s) ==
  LET f == cur[s] IN
  /\ pc[s] = "load"
  /\ requestP' = [requestP EXCEPT ![s][f].wait = TRUE]
  /\ pc' = [pc EXCEPT ![s] = "scan"]
  /\ cur' = [cur EXCEPT ![s] = listen_fd]
  /\ Continue(s, f)
  /\ UNCHANGED <<record, flock, master, read_lock, write_lock, k, hungup, reset,
                 damaged>>

\* The record is read into the request and shown to the client.
LoadRecord(s) ==
  LET f == cur[s] IN
  /\ pc[s] = "load"
  /\ requestP' = [requestP EXCEPT ![s][f] =
                    [@ EXCEPT !.wait = TRUE, !.Record = record[requestP[s][f].id]]]
  /\ pc' = [pc EXCEPT ![s] = "scan"]
  /\ cur' = [cur EXCEPT ![s] = listen_fd]
  /\ Continue(s, f)
  /\ UNCHANGED <<record, flock, master, read_lock, write_lock, k, hungup, reset,
                 damaged>>

-----------------------------------------------------------------------------
(* The second line of a connection.                                        *)

Waiting(s, f) == Turn(s, f) /\ f \in master[s] /\ requestP[s][f].wait

\* A read server ignores every line but "Exit".
ReaderStays(s, f) ==
  /\ s \in ReadServer
  /\ Waiting(s, f)
  /\ Line(s, f)
  /\ Continue(s, f)
  /\ UNCHANGED <<record, flock, pc, master, requestP, read_lock, write_lock,
                 cur, k, hungup, reset, damaged>>

\* Mutant: every reader that leaves unlocks the record, not only the last.
ReaderLeavesUnlocking(s, f) ==
  LET u == requestP[s][f].id IN
  /\ s \in ReadServer
  /\ Waiting(s, f)
  /\ f \notin reset[s]
  /\ read_lock' = [read_lock EXCEPT ![s][u] = @ - 1]
  /\ SetLock(s, u, "none")
  /\ ConnectOff(s, f)
  /\ UNCHANGED <<record, pc, write_lock, cur, k, damaged>>

\* "Exit", Ctrl-C or the end of the stream: the last connection that shows
\* the record gives the process's lock back.
ReaderLeaves(s, f) ==
  LET u == requestP[s][f].id IN
  /\ s \in ReadServer
  /\ Waiting(s, f)
  /\ f \notin reset[s]
  /\ read_lock' = [read_lock EXCEPT ![s][u] = @ - 1]
  /\ IF read_lock[s][u] = 1 THEN SetLock(s, u, "none") ELSE UNCHANGED flock
  /\ ConnectOff(s, f)
  /\ UNCHANGED <<record, pc, write_lock, cur, k, damaged>>

\* What ends every write session: the record is unlocked, the client closed.
EndWrite(s, f) ==
  LET u == requestP[s][f].id IN
  /\ SetLock(s, u, "none")
  /\ write_lock' = [write_lock EXCEPT ![s][u] = FALSE]
  /\ ConnectOff(s, f)

\* Mutant: the end of the stream is taken for a failed read and skipped.
WriterLeavesOnLine(s, f) ==
  /\ s \in WriteServer
  /\ Waiting(s, f)
  /\ Line(s, f)
  /\ EndWrite(s, f)
  /\ UNCHANGED <<record, pc, read_lock, cur, k, damaged>>

\* End of the stream, Ctrl-C, a malformed command, or one that is over the
\* limit or below zero: nothing is stored.
WriterLeaves(s, f) ==
  /\ s \in WriteServer
  /\ Waiting(s, f)
  /\ f \notin reset[s]
  /\ EndWrite(s, f)
  /\ UNCHANGED <<record, pc, read_lock, cur, k, damaged>>

\* Mutant: the record is unlocked before it is stored.
BookUnlocked(s, f, d) ==
  /\ s \in WriteServer
  /\ Waiting(s, f)
  /\ Line(s, f)
  /\ Accepted(requestP[s][f].Record, d)
  /\ SetLock(s, requestP[s][f].id, "none")
  /\ requestP' = [requestP EXCEPT ![s][f] =
                    [@ EXCEPT !.Record = NewState(requestP[s][f].Record, d)]]
  /\ pc' = [pc EXCEPT ![s] = "store"]
  /\ cur' = [cur EXCEPT ![s] = f]
  /\ UNCHANGED <<record, readfds, master, read_lock, write_lock, k,
                 hungup, reset, damaged>>

\* An accepted command: the cached record is updated and the client is told
\* so before anything is stored.
Book(s, f, d) ==
  /\ s \in WriteServer
  /\ Waiting(s, f)
  /\ Line(s, f)
  /\ Accepted(requestP[s][f].Record, d)
  /\ requestP' = [requestP EXCEPT ![s][f] =
                    [@ EXCEPT !.Record = NewState(requestP[s][f].Record, d)]]
  /\ pc' = [pc EXCEPT ![s] = "store"]
  /\ cur' = [cur EXCEPT ![s] = f]
  /\ UNCHANGED <<record, flock, readfds, master, read_lock, write_lock, k,
                 hungup, reset, damaged>>

\* One write of the loop that stores the three numbers one by one.
StoreItem(s) ==
  LET req == requestP[s][cur[s]] IN
  /\ pc[s] = "store"
  /\ k[s] < 3
  /\ record' = [record EXCEPT ![req.id][k[s] + 1] = req.Record[k[s] + 1]]
  /\ k' = [k EXCEPT ![s] = @ + 1]
  /\ UNCHANGED <<flock, pc, readfds, master, requestP, read_lock, write_lock,
                 cur, hungup, reset, damaged>>

FinishStore(s) ==
  /\ pc[s] = "store"
  /\ k[s] = 3
  /\ EndWrite(s, cur[s])
  /\ damaged' = damaged \ {requestP[s][cur[s]].id}
  /\ pc' = [pc EXCEPT ![s] = "scan"]
  /\ cur' = [cur EXCEPT ![s] = listen_fd]
  /\ k' = [k EXCEPT ![s] = 0]
  /\ UNCHANGED <<record, read_lock>>

-----------------------------------------------------------------------------
(* The environment of the processes.                                       *)

Hangup(s, f) ==
  /\ f \in master[s]
  /\ Line(s, f)
  /\ hungup' = [hungup EXCEPT ![s] = @ \cup {f}]
  /\ UNCHANGED <<shared, process, reset, damaged>>

BreakConnection(s, f) ==
  /\ f \in master[s]
  /\ Line(s, f)
  /\ reset' = [reset EXCEPT ![s] = @ \cup {f}]
  /\ UNCHANGED <<shared, process, hungup, damaged>>

\* The process ends; the kernel closes its connections and drops its locks.
\* A record it was storing keeps the items already written.
Exit(s) ==
  /\ pc' = [pc EXCEPT ![s] = "down"]
  /\ readfds' = [readfds EXCEPT ![s] = {}]
  /\ master' = [master EXCEPT ![s] = {}]
  /\ requestP' = [requestP EXCEPT ![s] = [f \in Fd |-> BlankRequest]]
  /\ read_lock' = [read_lock EXCEPT ![s] = [u \in User |-> 0]]
  /\ write_lock' = [write_lock EXCEPT ![s] = [u \in User |-> FALSE]]
  /\ cur' = [cur EXCEPT ![s] = listen_fd]
  /\ k' = [k EXCEPT ![s] = 0]
  /\ hungup' = [hungup EXCEPT ![s] = {}]
  /\ reset' = [reset EXCEPT ![s] = {}]
  /\ flock' = [u \in User |-> [flock[u] EXCEPT ![s] = "none"]]
  /\ damaged' = IF pc[s] = "store" /\ k[s] \in 1..2
                THEN damaged \cup {requestP[s][cur[s]].id} ELSE damaged
  /\ UNCHANGED record

\* At any time: the process is killed, a write to a closed connection raises
\* SIGPIPE, or handle_read gets a chunk without a newline and calls ERR_EXIT.
Die(s) == pc[s] # "down" /\ Exit(s)

\* No descriptor is left for a new client: EMFILE is not among the errors the
\* loop retries, and ERR_EXIT ends the process.
AcceptFails(s) ==
  /\ Turn(s, listen_fd)
  /\ Table(s) \subseteq master[s]
  /\ Exit(s)

Restart(s) ==
  /\ pc[s] = "down"
  /\ pc' = [pc EXCEPT ![s] = "scan"]
  /\ UNCHANGED <<record, flock, readfds, master, requestP, read_lock, write_lock,
                 cur, k, hungup, reset, damaged>>

-----------------------------------------------------------------------------
Init ==
  /\ record \in [User -> InitialState]
  /\ flock = [u \in User |-> [s \in Server |-> "none"]]
  /\ pc = [s \in Server |-> "scan"]
  /\ readfds = [s \in Server |-> {}]
  /\ master = [s \in Server |-> {}]
  /\ requestP = [s \in Server |-> [f \in Fd |-> BlankRequest]]
  /\ read_lock = [s \in Server |-> [u \in User |-> 0]]
  /\ write_lock = [s \in Server |-> [u \in User |-> FALSE]]
  /\ cur = [s \in Server |-> listen_fd]
  /\ k = [s \in Server |-> 0]
  /\ hungup = [s \in Server |-> {}]
  /\ reset = [s \in Server |-> {}]
  /\ damaged = {}

\* The handler of descriptor f.
Handle(s, f) ==
  \/ ReadFails(s, f)
  \/ TurnAway(s, f)
  \/ \E u \in User :
       FindLocked(s, f, u) \/ LockForReading(s, f, u) \/ LockForWriting(s, f, u)
  \/ ReaderStays(s, f)
  \/ ReaderLeaves(s, f)
  \/ WriterLeaves(s, f)
  \/ \E d \in Command : Book(s, f, d)

\* What the process does in a round, once select has returned.
Serve(s) ==
  \/ AcceptConnection(s) \/ AcceptAgain(s) \/ AcceptFails(s)
  \/ \E f \in Fd : Handle(s, f)
  \/ LoadRecord(s) \/ StoreItem(s) \/ FinishStore(s)

Next ==
  \E s \in Server :
    \/ Select(s)
    \/ Serve(s)
    \/ \E f \in Fd : Hangup(s, f) \/ BreakConnection(s, f)
    \/ Die(s)
    \/ Restart(s)

Spec == Init /\ [][Next]_vars

\* A process that is not blocked in select keeps running, and select returns
\* when a connection's peer is gone.  Nothing makes a client send a line, and
\* nothing makes a process die or restart.
Fairness ==
  \A s \in Server :
    /\ WF_vars(Serve(s))
    /\ WF_vars(Select(s) /\ hungup[s] \cup reset[s] # {})

FairSpec == Spec /\ Fairness

-----------------------------------------------------------------------------
(* Properties.                                                             *)

\* Connection f of s has locked u's record.
Holds(s, f, u) == f \in master[s] /\ requestP[s][f].id = u

\* A booking for u is on its way to the file.
Storing(s, f, u) == pc[s] = "store" /\ cur[s] = f /\ Holds(s, f, u)

\* Type invariant: every variable keeps the shape it has in the code.
TypeOK ==
  /\ record \in [User -> [Item -> Int32]]
  /\ flock \in [User -> [Server -> {"none", "read", "write"}]]
  /\ pc \in [Server -> {"scan", "load", "store", "down"}]
  /\ readfds \in [Server -> SUBSET (Fd \cup {listen_fd})]
  /\ master \in [Server -> SUBSET Fd]
  /\ requestP \in [Server -> [Fd -> Request]]
  /\ read_lock \in [Server -> [User -> Nat]]
  /\ write_lock \in [Server -> [User -> BOOLEAN]]
  /\ cur \in [Server -> Fd \cup {listen_fd}]
  /\ k \in [Server -> 0..3]
  /\ hungup \in [Server -> SUBSET Fd]
  /\ reset \in [Server -> SUBSET Fd]
  /\ damaged \subseteq User

\* A process holds the kernel's lock on a record exactly as long as one of its
\* connections uses that record, in the mode of its kind: no lock is left
\* behind by a client that left, and none is given back while another
\* connection of the same process still relies on it.
LocksMatchConnections ==
  \A s \in Server, u \in User :
    flock[u][s] = IF \E f \in Fd : Holds(s, f, u)
                  THEN IF s \in ReadServer THEN "read" ELSE "write"
                  ELSE "none"

\* Whoever changes a record is alone with it, among the connections of all
\* processes.
WriterAlone ==
  \A w \in WriteServer, f \in Fd, s \in Server, g \in Fd, u \in User :
    Holds(w, f, u) /\ Holds(s, g, u) => s = w /\ g = f

\* What a connection was shown, and what a write server will compute the new
\* state from, is what the file holds until that connection stores or leaves.
ShownIsStored ==
  \A s \in Server, f \in Fd, u \in User :
    Holds(s, f, u) /\ (cur[s] = f => pc[s] = "scan")
      => requestP[s][f].Record = record[u]

\* A user never has more than Limit bookings nor less than none of an item,
\* but for a record that a dying process left half stored.
BookingsWithinLimit ==
  \A u \in User \ damaged :
    (\A s \in WriteServer, f \in Fd : ~Storing(s, f, u)) => WithinLimit(record[u])

\* What the message over_items says without exception: nobody books more than
\* Limit items in total.  It is broken by a process that dies while it stores.
NeverOverLimit ==
  \A u \in User :
    (\A s \in WriteServer, f \in Fd : ~Storing(s, f, u)) => Total(record[u]) <= Limit

\* A record changes only in the hands of a process that holds its write lock
\* while nobody else holds any.
OnlyTheLockHolderStores ==
  [][\A u \in User : record'[u] # record[u] =>
       \E w \in WriteServer : \A s \in Server :
         flock[u][s] = IF s = w THEN "write" ELSE "none"]_vars

\* A client that leaves gives back what it locked, unless new clients keep
\* coming in: connections with a lower descriptor are visited first, and each
\* one that closes ends the round.
LeavingUnlocks ==
  <>[][\A s \in Server : ~AcceptConnection(s)]_vars =>
    \A s \in Server, f \in Fd : (f \in hungup[s] \cup reset[s]) ~> (f \notin master[s])

=============================================================================
