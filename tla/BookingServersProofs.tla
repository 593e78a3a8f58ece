----------------------- MODULE BookingServersProofs -------------------------
(* Theorems about BookingServers, for every number of processes, users and *)
(* connections: its invariants, and that it implements BookingLedger as    *)
(* long as no sum overflows an int.                                        *)
EXTENDS BookingRefinement, FiniteSetTheorems, TLAPS

-----------------------------------------------------------------------------
(* The shape of the state.  TypeOK is not inductive: a read server's counter *)
(* stays above zero only because it counts connections, so Shape lets it be  *)
(* any integer and Counts, below, says what it counts.                       *)

Shape ==
  /\ record \in [User -> [Item -> Int32]]
  /\ flock \in [User -> [Server -> {"none", "read", "write"}]]
  /\ pc \in [Server -> {"scan", "load", "store", "down"}]
  /\ readfds \in [Server -> SUBSET (Fd \cup {listen_fd})]
  /\ master \in [Server -> SUBSET Fd]
  /\ requestP \in [Server -> [Fd -> Request]]
  /\ read_lock \in [Server -> [User -> Int]]
  /\ write_lock \in [Server -> [User -> BOOLEAN]]
  /\ cur \in [Server -> Fd \cup {listen_fd}]
  /\ k \in [Server -> 0..3]
  /\ hungup \in [Server -> SUBSET Fd]
  /\ reset \in [Server -> SUBSET Fd]
  /\ damaged \subseteq User

\* A slot that waits for a second line has locked a record, a slot that has
\* locked one waits for a second line or is about to load it, and an idle
\* descriptor's slot is blank.
Slots ==
  \A s \in Server, f \in Fd :
    /\ f \notin master[s] => requestP[s][f].id = NoUser
    /\ requestP[s][f].wait => requestP[s][f].id \in User
    /\ requestP[s][f].id \in User =>
         requestP[s][f].wait \/ (pc[s] = "load" /\ cur[s] = f)

\* Where a process is, and what it relies on there.
Phases ==
  \A s \in Server :
    /\ readfds[s] \subseteq master[s] \cup {listen_fd}
    /\ pc[s] \in {"scan", "down"} => cur[s] = listen_fd
    /\ pc[s] # "store" => k[s] = 0
    /\ pc[s] \in {"load", "store"} =>
         /\ cur[s] \in master[s]
         /\ requestP[s][cur[s]].id \in User
    /\ pc[s] = "store" => s \in WriteServer
    /\ pc[s] = "down" => master[s] = {}
    /\ s \in WriteServer => \A u \in User : read_lock[s][u] = 0

Basic == Shape /\ Slots /\ Phases

\* Sums and requests have their types.
LEMMA PlusTyped ==
  ASSUME NEW a \in Int32, NEW b \in Int32
  PROVE  Plus(a, b) \in Int32
BY BoundAssumption DEF Plus, Int32

\* An unused slot of the request table is a request.
LEMMA BlankTyped ==
  BlankRequest \in Request
<1>1. 0 \in Int32  BY BoundAssumption DEF Int32
<1> QED  BY <1>1 DEF BlankRequest, Request

\* The state the second write computes is a record.
LEMMA NewStateTyped ==
  ASSUME NEW b \in [Item -> Int32], NEW d \in [Item -> Int32]
  PROVE  NewState(b, d) \in [Item -> Int32]
BY PlusTyped DEF NewState

\* The shape of the state, the slots and the phases hold at the start.
LEMMA BasicInit == Init => Basic
<1> SUFFICES ASSUME Init PROVE Basic  OBVIOUS
<1>1. Shape
  <2>1. record \in [User -> [Item -> Int32]]
    BY DataAssumption, BoundAssumption DEF Init, Int32
  <2> QED  BY <2>1, BlankTyped DEF Init, Shape, Fd, listen_fd
<1>2. Slots  BY UserAssumption DEF Init, Slots, BlankRequest
<1>3. Phases  BY DEF Init, Phases
<1> QED  BY <1>1, <1>2, <1>3 DEF Basic

\* Every step of every process and of its environment keeps them.
LEMMA BasicStep == Basic /\ [Next]_vars => Basic'
<1> SUFFICES ASSUME Basic, [Next]_vars PROVE Basic'  OBVIOUS
<1> USE DEF Basic
<1>1. ASSUME NEW s \in Server, Select(s) PROVE Basic'
  BY <1>1 DEF Select, Shape, Slots, Phases
<1>2. ASSUME NEW s \in Server, AcceptConnection(s) PROVE Basic'
  <2>1. Shape'
    <3>1. \A f \in Table(s) : f \in Fd  BY BoundAssumption DEF Table, Fd
    <3>2. master' \in [Server -> SUBSET Fd]
      BY <1>2, <3>1 DEF AcceptConnection, Shape
    <3>3. readfds' \in [Server -> SUBSET (Fd \cup {listen_fd})]
      BY <1>2 DEF AcceptConnection, Continue, Shape
    <3> QED  BY <1>2, <3>2, <3>3 DEF AcceptConnection, Shape
  <2>2. Slots'  BY <1>2, BoundAssumption DEF AcceptConnection, Turn, Continue, Table, Fd, listen_fd, Shape, Slots, Phases
  <2>3. Phases'  BY <1>2, BoundAssumption DEF AcceptConnection, Turn, Continue, Table, Fd, listen_fd, Shape, Slots, Phases
  <2> QED  BY <2>1, <2>2, <2>3
<1>3. ASSUME NEW s \in Server, AcceptAgain(s) PROVE Basic'
  BY <1>3 DEF AcceptAgain, Turn, Continue, Shape, Slots, Phases
<1>4. ASSUME NEW s \in Server, Exit(s) PROVE Basic'
  <2>1. Shape'  BY <1>4, BlankTyped DEF Exit, BlankRequest, listen_fd, Shape, Phases
  <2>2. Slots'  BY <1>4, UserAssumption DEF Exit, BlankRequest, Shape, Slots
  <2>3. Phases'  BY <1>4, BlankTyped DEF Exit, BlankRequest, listen_fd, Shape, Slots, Phases
  <2> QED  BY <2>1, <2>2, <2>3
<1>5. ASSUME NEW s \in Server, NEW f \in Fd, ReadFails(s, f) PROVE Basic'
  BY <1>5 DEF ReadFails, Turn, Continue, Shape, Slots, Phases
<1>6. ASSUME NEW s \in Server, NEW f \in Fd, TurnAway(s, f) PROVE Basic'
  BY <1>6, BlankTyped, UserAssumption DEF TurnAway, Identifying, ConnectOff, BlankRequest, Turn, Shape, Slots, Phases
<1>7. ASSUME NEW s \in Server, NEW f \in Fd, NEW u \in User, FindLocked(s, f, u) PROVE Basic'
  BY <1>7, BlankTyped, UserAssumption DEF FindLocked, Identifying, ConnectOff, BlankRequest, Turn, Shape, Slots, Phases
<1>8. ASSUME NEW s \in Server, NEW f \in Fd, NEW u \in User, LockForReading(s, f, u) PROVE Basic'
  <2>1. Shape'
    <3>1. [requestP[s][f] EXCEPT !.id = u] \in Request
      <4>1. requestP[s][f] \in Request  BY DEF Shape
      <4> QED  BY <4>1 DEF Request
    <3>2. requestP' \in [Server -> [Fd -> Request]]
      BY <1>8, <3>1 DEF LockForReading, Shape
    <3>3. flock' \in [User -> [Server -> {"none", "read", "write"}]]
      BY <1>8 DEF LockForReading, SetLock, Shape
    <3>4. read_lock' \in [Server -> [User -> Int]]
      BY <1>8 DEF LockForReading, Shape
    <3> QED  BY <1>8, <3>2, <3>3, <3>4 DEF LockForReading, Shape
  <2>2. Slots'  BY <1>8, UserAssumption DEF LockForReading, Identifying, SetLock, Turn, Shape, Slots, Phases
  <2>3. \A t \in WriteServer : read_lock'[t] = read_lock[t]
    BY <1>8, ServerAssumption DEF LockForReading, Shape, Server
  <2>4. Phases'
    BY <1>8, <2>3, UserAssumption, ServerAssumption DEF LockForReading, Identifying, Turn, Shape, Slots, Phases
  <2> QED  BY <2>1, <2>2, <2>4
<1>9. ASSUME NEW s \in Server, NEW f \in Fd, NEW u \in User, LockForWriting(s, f, u) PROVE Basic'
  <2>1. Shape'
    <3>1. [requestP[s][f] EXCEPT !.id = u, !.wait = TRUE] \in Request
      <4>1. requestP[s][f] \in Request  BY DEF Shape
      <4> QED  BY <4>1 DEF Request
    <3>2. requestP' \in [Server -> [Fd -> Request]]
      BY <1>9, <3>1 DEF LockForWriting, Shape
    <3>3. flock' \in [User -> [Server -> {"none", "read", "write"}]]
      BY <1>9 DEF LockForWriting, SetLock, Shape
    <3> QED  BY <1>9, <3>2, <3>3 DEF LockForWriting, Shape
  <2>2. Slots'  BY <1>9, UserAssumption DEF LockForWriting, Identifying, SetLock, Turn, Shape, Slots, Phases
  <2>3. Phases'  BY <1>9, UserAssumption DEF LockForWriting, Identifying, SetLock, Turn, Shape, Slots, Phases
  <2> QED  BY <2>1, <2>2, <2>3
<1>10. ASSUME NEW s \in Server, LoadRecord(s) PROVE Basic'
  <2>1. Shape'
    <3> DEFINE f == cur[s]
    <3>1. f \in Fd /\ requestP[s][f].id \in User
      BY <1>10 DEF LoadRecord, Shape, Phases
    <3>2. [requestP[s][f] EXCEPT !.wait = TRUE,
                                 !.Record = record[requestP[s][f].id]] \in Request
      <4>1. requestP[s][f] \in Request  BY <3>1 DEF Shape
      <4>2. record[requestP[s][f].id] \in [Item -> Int32]  BY <3>1 DEF Shape
      <4> QED  BY <4>1, <4>2 DEF Request
    <3>3. requestP' \in [Server -> [Fd -> Request]]
      BY <1>10, <3>1, <3>2 DEF LoadRecord, Shape
    <3> QED  BY <1>10, <3>3 DEF LoadRecord, Continue, Shape
  <2>2. Slots'  BY <1>10, UserAssumption DEF LoadRecord, Continue, Shape, Slots, Phases
  <2>3. Phases'  BY <1>10, UserAssumption DEF LoadRecord, Continue, Shape, Slots, Phases
  <2> QED  BY <2>1, <2>2, <2>3
<1>11. ASSUME NEW s \in Server, NEW f \in Fd, ReaderStays(s, f) PROVE Basic'
  BY <1>11 DEF ReaderStays, Continue, Waiting, Turn, Shape, Slots, Phases
<1>12. ASSUME NEW s \in Server, NEW f \in Fd, ReaderLeaves(s, f) PROVE Basic'
  <2>1. Shape'
    <3> DEFINE u == requestP[s][f].id
    <3>1. u \in User  BY <1>12 DEF ReaderLeaves, Waiting, Slots
    <3>2. flock' \in [User -> [Server -> {"none", "read", "write"}]]
      <4>1. flock' = flock \/ flock' = [flock EXCEPT ![u][s] = "none"]
        BY <1>12 DEF ReaderLeaves, SetLock
      <4>2. flock \in [User -> [Server -> {"none", "read", "write"}]]  BY DEF Shape
      <4>3. [flock EXCEPT ![u][s] = "none"]
              \in [User -> [Server -> {"none", "read", "write"}]]
        BY <4>2, <3>1
      <4> QED  BY <4>1, <4>2, <4>3
    <3>3. read_lock' \in [Server -> [User -> Int]]
      BY <1>12, <3>1 DEF ReaderLeaves, Shape
    <3>4. requestP' \in [Server -> [Fd -> Request]]
      BY <1>12, BlankTyped DEF ReaderLeaves, ConnectOff, Shape
    <3> QED  BY <1>12, <3>2, <3>3, <3>4 DEF ReaderLeaves, ConnectOff, Shape
  <2>2. Slots'  BY <1>12, BlankTyped, UserAssumption DEF ReaderLeaves, SetLock, ConnectOff, BlankRequest, Waiting, Turn, Shape, Slots, Phases
  <2>3. \A t \in WriteServer : read_lock'[t] = read_lock[t]
    BY <1>12, ServerAssumption DEF ReaderLeaves, Shape, Server
  <2>4. Phases'
    BY <1>12, <2>3, UserAssumption DEF ReaderLeaves, ConnectOff, BlankRequest, Waiting, Turn, Shape, Slots, Phases
  <2> QED  BY <2>1, <2>2, <2>4
<1>13. ASSUME NEW s \in Server, NEW f \in Fd, WriterLeaves(s, f) PROVE Basic'
  <2>1. Shape'  BY <1>13, BlankTyped, UserAssumption DEF WriterLeaves, EndWrite, SetLock, ConnectOff, BlankRequest, Waiting, Turn, Shape, Phases
  <2>2. Slots'  BY <1>13, BlankTyped, UserAssumption DEF WriterLeaves, EndWrite, SetLock, ConnectOff, BlankRequest, Waiting, Turn, Shape, Slots, Phases
  <2>3. Phases'  BY <1>13, BlankTyped, UserAssumption DEF WriterLeaves, EndWrite, SetLock, ConnectOff, BlankRequest, Waiting, Turn, Shape, Slots, Phases
  <2> QED  BY <2>1, <2>2, <2>3
<1>14. ASSUME NEW s \in Server, NEW f \in Fd, NEW d \in Command, Book(s, f, d) PROVE Basic'
  <2>1. Shape'
    <3> DEFINE req == requestP[s][f]
    <3>0. req \in Request  BY DEF Shape
    <3>1. NewState(req.Record, d) \in [Item -> Int32]
      <4>1. req.Record \in [Item -> Int32]  BY <3>0 DEF Request
      <4>2. d \in [Item -> Int32]  BY DataAssumption
      <4> QED  BY <4>1, <4>2, NewStateTyped
    <3>2. [req EXCEPT !.Record = NewState(req.Record, d)] \in Request
      BY <3>0, <3>1 DEF Request
    <3>3. requestP' \in [Server -> [Fd -> Request]]
      <4> DEFINE r == [req EXCEPT !.Record = NewState(req.Record, d)]
      <4>1. requestP' = [requestP EXCEPT ![s][f] = r]  BY <1>14 DEF Book
      <4>2. r \in Request  BY <3>2
      <4> HIDE DEF r
      <4> QED  BY <4>1, <4>2 DEF Shape
    <3> QED  BY <1>14, <3>3 DEF Book, Shape
  <2>2. Slots'  BY <1>14, UserAssumption, NewStateTyped, DataAssumption DEF Book, Waiting, Turn, Shape, Slots, Phases
  <2>3. Phases'  BY <1>14, UserAssumption, NewStateTyped, DataAssumption DEF Book, Waiting, Turn, Shape, Slots, Phases
  <2> QED  BY <2>1, <2>2, <2>3
<1>15. ASSUME NEW s \in Server, StoreItem(s) PROVE Basic'
  <2> DEFINE req == requestP[s][cur[s]]
  <2>1. Shape'
    <3>1. req \in Request /\ req.id \in User /\ k[s] + 1 \in Item
      <4>1. cur[s] \in Fd /\ req.id \in User
        BY <1>15 DEF StoreItem, Shape, Phases
      <4>2. req \in Request  BY <4>1 DEF Shape
      <4>3. k[s] \in 0..3  BY DEF Shape
      <4> QED  BY <1>15, <4>1, <4>2, <4>3 DEF StoreItem, Item
    <3>2. req.Record[k[s] + 1] \in Int32  BY <3>1 DEF Request
    <3>3. record' \in [User -> [Item -> Int32]]
      BY <1>15, <3>1, <3>2 DEF StoreItem, Shape
    <3>4. k' \in [Server -> 0..3]
      <4>1. k \in [Server -> 0..3]  BY DEF Shape
      <4>2. k[s] < 3 /\ k' = [k EXCEPT ![s] = k[s] + 1]  BY <1>15 DEF StoreItem
      <4>3. k[s] + 1 \in 0..3  BY <4>1, <4>2
      <4> QED  BY <4>1, <4>2, <4>3
    <3> QED  BY <1>15, <3>3, <3>4 DEF StoreItem, Shape
  <2>2. Slots'  BY <1>15 DEF StoreItem, Item, Shape, Slots, Phases
  <2>3. Phases'  BY <1>15 DEF StoreItem, Item, Shape, Slots, Phases
  <2> QED  BY <2>1, <2>2, <2>3
<1>16. ASSUME NEW s \in Server, FinishStore(s) PROVE Basic'
  BY <1>16, BlankTyped, UserAssumption DEF FinishStore, EndWrite, SetLock, ConnectOff, BlankRequest, Shape, Slots, Phases
<1>17. ASSUME NEW s \in Server, NEW f \in Fd, Hangup(s, f) \/ BreakConnection(s, f) PROVE Basic'
  <2>1. Shape'
    <3>1. CASE Hangup(s, f)  BY <3>1 DEF Hangup, shared, process, Shape
    <3>2. CASE BreakConnection(s, f)  BY <3>2 DEF BreakConnection, shared, process, Shape
    <3> QED  BY <1>17, <3>1, <3>2
  <2>2. Slots'  BY <1>17 DEF Hangup, BreakConnection, shared, process, Shape, Slots, Phases
  <2>3. Phases'  BY <1>17 DEF Hangup, BreakConnection, shared, process, Shape, Slots, Phases
  <2> QED  BY <2>1, <2>2, <2>3
<1>18. ASSUME NEW s \in Server, Restart(s) PROVE Basic'
  BY <1>18 DEF Restart, Shape, Slots, Phases
<1>19. CASE UNCHANGED vars
  BY <1>19 DEF vars, Shape, Slots, Phases
<1> QED
  BY <1>1, <1>2, <1>3, <1>4, <1>5, <1>6, <1>7, <1>8, <1>9, <1>10, <1>11, <1>12, <1>13,
     <1>14, <1>15, <1>16, <1>17, <1>18, <1>19
  DEF Next, Serve, Handle, Die, AcceptFails

-----------------------------------------------------------------------------
(* The locks.                                                              *)

\* The connections of s that use u's record, whether or not still connected.
Holders(s, u) == {f \in Fd : requestP[s][f].id = u}

\* A read server's counter is the number of its connections that use the
\* record; a write server's mark says that one does, and only one; the kernel's
\* locks follow; and a write lock excludes every other lock.
Counts ==
  \A s \in ReadServer, u \in User : read_lock[s][u] = Cardinality(Holders(s, u))

Marks ==
  \A s \in WriteServer, u \in User :
    /\ write_lock[s][u] <=> Holders(s, u) # {}
    /\ \A f, g \in Holders(s, u) : f = g

Flocks ==
  \A s \in Server, u \in User :
    flock[u][s] = IF Holders(s, u) # {}
                  THEN IF s \in ReadServer THEN "read" ELSE "write"
                  ELSE "none"

Exclusive ==
  \A u \in User, w \in Server, s \in Server :
    flock[u][w] = "write" /\ s # w => flock[u][s] = "none"

Locks == Counts /\ Marks /\ Flocks /\ Exclusive

\* Only finitely many connections use a record.
LEMMA HoldersFinite ==
  ASSUME NEW s \in Server, NEW u \in User
  PROVE  IsFiniteSet(Holders(s, u))
<1>1. IsFiniteSet(Fd)  BY BoundAssumption, FS_Interval DEF Fd
<1> QED  BY <1>1, FS_Subset DEF Holders

\* In terms of the properties' operator: a slot that names a user is connected.
LEMMA HoldsIsId ==
  ASSUME Basic, NEW s \in Server, NEW f \in Fd, NEW u \in User
  PROVE  Holds(s, f, u) <=> f \in Holders(s, u)
BY UserAssumption DEF Basic, Slots, Holds, Holders

\* At the start nothing is locked.
LEMMA LocksInit == Init => Locks
<1> SUFFICES ASSUME Init PROVE Locks  OBVIOUS
<1>1. \A s \in Server, u \in User : Holders(s, u) = {}
  BY UserAssumption DEF Init, BlankRequest, Holders
<1>2. Counts  BY <1>1, FS_EmptySet DEF Init, Counts, Server
<1>3. Marks  BY <1>1 DEF Init, Marks, Server
<1>4. Flocks  BY <1>1 DEF Init, Flocks
<1>5. Exclusive  BY DEF Init, Exclusive
<1> QED  BY <1>2, <1>3, <1>4, <1>5 DEF Locks

\* Most steps touch no lock and leave the users of the slots alone.
LEMMA LocksKept ==
  ASSUME Locks, UNCHANGED <<flock, read_lock, write_lock>>,
         \A s \in Server, f \in Fd : requestP'[s][f].id = requestP[s][f].id
  PROVE  Locks'
<1>1. \A s \in Server, u \in User : Holders(s, u)' = Holders(s, u)
  BY DEF Holders
<1>2. Counts'  BY <1>1 DEF Locks, Counts, Server
<1>3. Marks'  BY <1>1 DEF Locks, Marks, Server
<1>4. Flocks'  BY <1>1 DEF Locks, Flocks
<1>5. Exclusive'  BY DEF Locks, Exclusive
<1> QED  BY <1>2, <1>3, <1>4, <1>5 DEF Locks

\* A slot gets a user, or loses it, and the process's lock on the record and
\* its own count or mark follow: what the locking and unlocking actions share.
SlotGets(s, f, u) ==
  /\ requestP[s][f].id = NoUser
  /\ \A t \in Server, g \in Fd :
       requestP'[t][g].id = IF t = s /\ g = f THEN u ELSE requestP[t][g].id

SlotLoses(s, f, u) ==
  /\ requestP[s][f].id = u
  /\ \A t \in Server, g \in Fd :
       requestP'[t][g].id = IF t = s /\ g = f THEN NoUser ELSE requestP[t][g].id

\* One more connection uses u's record, all else is as before.
LEMMA HoldersGet ==
  ASSUME NEW s \in Server, NEW f \in Fd, NEW u \in User, SlotGets(s, f, u)
  PROVE  /\ f \notin Holders(s, u)
         /\ Holders(s, u)' = Holders(s, u) \cup {f}
         /\ \A t \in Server, v \in User :
              t # s \/ v # u => Holders(t, v)' = Holders(t, v)
BY UserAssumption DEF SlotGets, Holders

\* One connection less uses u's record, all else is as before.
LEMMA HoldersLose ==
  ASSUME NEW s \in Server, NEW f \in Fd, NEW u \in User, SlotLoses(s, f, u)
  PROVE  /\ f \in Holders(s, u)
         /\ Holders(s, u)' = Holders(s, u) \ {f}
         /\ \A t \in Server, v \in User :
              t # s \/ v # u => Holders(t, v)' = Holders(t, v)
BY UserAssumption DEF SlotLoses, Holders

\* A read server that locks a record counts one connection more.
LEMMA LocksForReading ==
  ASSUME Shape, Locks, NEW s \in ReadServer, NEW f \in Fd, NEW u \in User,
         SlotGets(s, f, u), CanLock(s, u, "read"), SetLock(s, u, "read"),
         read_lock' = [read_lock EXCEPT ![s][u] = @ + 1], UNCHANGED write_lock
  PROVE  Locks'
<1>0. s \in Server /\ s \notin WriteServer  BY ServerAssumption DEF Server
<1> USE <1>0
<1>1. /\ f \notin Holders(s, u)
      /\ Holders(s, u)' = Holders(s, u) \cup {f}
      /\ \A t \in Server, v \in User : t # s \/ v # u => Holders(t, v)' = Holders(t, v)
  BY HoldersGet
<1>2. Counts'
  <2> SUFFICES ASSUME NEW t \in ReadServer, NEW v \in User
               PROVE  read_lock'[t][v] = Cardinality(Holders(t, v)')
    BY DEF Counts
  <2>1. t \in Server  BY DEF Server
  <2>2. CASE t = s /\ v = u
    <3>1. Cardinality(Holders(s, u) \cup {f}) = Cardinality(Holders(s, u)) + 1
      BY <1>1, HoldersFinite, FS_AddElement
    <3>2. read_lock'[s][u] = read_lock[s][u] + 1  BY DEF Shape
    <3> QED  BY <2>2, <3>1, <3>2, <1>1 DEF Locks, Counts
  <2>3. CASE t # s \/ v # u
    <3>1. read_lock'[t][v] = read_lock[t][v]  BY <2>1, <2>3 DEF Shape
    <3> QED  BY <2>1, <2>3, <3>1, <1>1 DEF Locks, Counts
  <2> QED  BY <2>2, <2>3
<1>3. Marks'  BY <1>1 DEF Locks, Marks, Server
<1>4. \A t \in Server, v \in User :
        flock'[v][t] = IF t = s /\ v = u THEN "read" ELSE flock[v][t]
  BY DEF SetLock, Shape
<1>5. Flocks'  BY <1>1, <1>4 DEF Locks, Flocks
<1>6. Exclusive'  BY <1>4 DEF Locks, Exclusive, CanLock
<1> QED  BY <1>2, <1>3, <1>5, <1>6 DEF Locks

\* A write server that locks a record marks it, and is alone with it.
LEMMA LocksForWriting ==
  ASSUME Shape, Locks, NEW s \in WriteServer, NEW f \in Fd, NEW u \in User,
         SlotGets(s, f, u), ~write_lock[s][u], CanLock(s, u, "write"),
         SetLock(s, u, "write"),
         write_lock' = [write_lock EXCEPT ![s][u] = TRUE], UNCHANGED read_lock
  PROVE  Locks'
<1>0. s \in Server /\ s \notin ReadServer  BY ServerAssumption DEF Server
<1> USE <1>0
<1>1. /\ f \notin Holders(s, u)
      /\ Holders(s, u)' = Holders(s, u) \cup {f}
      /\ \A t \in Server, v \in User : t # s \/ v # u => Holders(t, v)' = Holders(t, v)
  BY HoldersGet
<1>2. Counts'  BY <1>1 DEF Locks, Counts, Server
<1>3. Marks'
  <2>1. Holders(s, u)' = {f}  BY <1>1 DEF Locks, Marks
  <2>2. \A t \in WriteServer, v \in User :
          write_lock'[t][v] = IF t = s /\ v = u THEN TRUE ELSE write_lock[t][v]
    BY DEF Shape, Server
  <2> SUFFICES ASSUME NEW t \in WriteServer, NEW v \in User
               PROVE  /\ write_lock'[t][v] <=> Holders(t, v)' # {}
                      /\ \A h, g \in Holders(t, v)' : h = g
    BY DEF Marks
  <2>0. t \in Server  BY DEF Server
  <2>3. CASE t = s /\ v = u  BY <2>1, <2>2, <2>3
  <2>4. CASE t # s \/ v # u
    <3>0. ~(t = s /\ v = u)  BY <2>4
    <3>1. write_lock'[t][v] = write_lock[t][v]  BY <2>2, <3>0
    <3> QED  BY <3>1, <2>0, <2>4, <1>1 DEF Locks, Marks
  <2> QED  BY <2>3, <2>4
<1>4. \A t \in Server, v \in User :
        flock'[v][t] = IF t = s /\ v = u THEN "write" ELSE flock[v][t]
  BY DEF SetLock, Shape
<1>5. Flocks'  BY <1>1, <1>4 DEF Locks, Flocks
<1>6. Exclusive'  BY <1>4 DEF Locks, Exclusive, CanLock
<1> QED  BY <1>2, <1>3, <1>5, <1>6 DEF Locks

\* A read server unlocks a record exactly when its counter falls to zero.
LEMMA LocksAfterReader ==
  ASSUME Shape, Locks, NEW s \in ReadServer, NEW f \in Fd, NEW u \in User,
         SlotLoses(s, f, u),
         IF read_lock[s][u] = 1 THEN SetLock(s, u, "none") ELSE UNCHANGED flock,
         read_lock' = [read_lock EXCEPT ![s][u] = @ - 1], UNCHANGED write_lock
  PROVE  Locks'
<1>0. s \in Server /\ s \notin WriteServer  BY ServerAssumption DEF Server
<1> USE <1>0
<1>1. /\ f \in Holders(s, u)
      /\ Holders(s, u)' = Holders(s, u) \ {f}
      /\ \A t \in Server, v \in User : t # s \/ v # u => Holders(t, v)' = Holders(t, v)
  BY HoldersLose
<1>2. /\ Cardinality(Holders(s, u)) \in Nat
      /\ Cardinality(Holders(s, u) \ {f}) = Cardinality(Holders(s, u)) - 1
      /\ IsFiniteSet(Holders(s, u) \ {f})
  BY <1>1, HoldersFinite, FS_RemoveElement, FS_CardinalityType
<1>3. Counts'
  <2> SUFFICES ASSUME NEW t \in ReadServer, NEW v \in User
               PROVE  read_lock'[t][v] = Cardinality(Holders(t, v)')
    BY DEF Counts
  <2>1. t \in Server  BY DEF Server
  <2>2. CASE t = s /\ v = u
    <3>1. read_lock'[s][u] = read_lock[s][u] - 1  BY DEF Shape
    <3> QED  BY <2>2, <3>1, <1>1, <1>2 DEF Locks, Counts
  <2>3. CASE t # s \/ v # u
    <3>1. read_lock'[t][v] = read_lock[t][v]  BY <2>1, <2>3 DEF Shape
    <3> QED  BY <2>1, <2>3, <3>1, <1>1 DEF Locks, Counts
  <2> QED  BY <2>2, <2>3
<1>4. Marks'  BY <1>1 DEF Locks, Marks, Server
<1>5. (read_lock[s][u] = 1) <=> (Holders(s, u)' = {})
  <2>1. Cardinality(Holders(s, u)') = 0 <=> Holders(s, u)' = {}
    BY <1>1, <1>2, FS_EmptySet
  <2> QED  BY <2>1, <1>1, <1>2 DEF Locks, Counts
<1>6. \A t \in Server, v \in User :
        flock'[v][t] = IF t = s /\ v = u /\ Holders(s, u)' = {}
                       THEN "none" ELSE flock[v][t]
  BY <1>5 DEF SetLock, Shape
<1>7. Flocks'  BY <1>1, <1>6 DEF Locks, Flocks
<1>8. Exclusive'  BY <1>6 DEF Locks, Exclusive
<1> QED  BY <1>3, <1>4, <1>7, <1>8 DEF Locks

\* A write server that ends a session unlocks and unmarks the record.
LEMMA LocksAfterWriter ==
  ASSUME Shape, Locks, NEW s \in WriteServer, NEW f \in Fd, NEW u \in User,
         SlotLoses(s, f, u), SetLock(s, u, "none"),
         write_lock' = [write_lock EXCEPT ![s][u] = FALSE], UNCHANGED read_lock
  PROVE  Locks'
<1>0. s \in Server /\ s \notin ReadServer  BY ServerAssumption DEF Server
<1> USE <1>0
<1>1. /\ f \in Holders(s, u)
      /\ Holders(s, u)' = Holders(s, u) \ {f}
      /\ \A t \in Server, v \in User : t # s \/ v # u => Holders(t, v)' = Holders(t, v)
  BY HoldersLose
<1>2. Counts'  BY <1>1 DEF Locks, Counts, Server
<1>3. Holders(s, u)' = {}  BY <1>1 DEF Locks, Marks
<1>4. Marks'
  <2>1. \A t \in WriteServer, v \in User :
          write_lock'[t][v] = IF t = s /\ v = u THEN FALSE ELSE write_lock[t][v]
    BY DEF Shape, Server
  <2> SUFFICES ASSUME NEW t \in WriteServer, NEW v \in User
               PROVE  /\ write_lock'[t][v] <=> Holders(t, v)' # {}
                      /\ \A h, g \in Holders(t, v)' : h = g
    BY DEF Marks
  <2>0. t \in Server  BY DEF Server
  <2>3. CASE t = s /\ v = u  BY <2>1, <2>3, <1>3
  <2>4. CASE t # s \/ v # u
    <3>0. ~(t = s /\ v = u)  BY <2>4
    <3>1. write_lock'[t][v] = write_lock[t][v]  BY <2>1, <3>0
    <3> QED  BY <3>1, <2>0, <2>4, <1>1 DEF Locks, Marks
  <2> QED  BY <2>3, <2>4
<1>5. \A t \in Server, v \in User :
        flock'[v][t] = IF t = s /\ v = u THEN "none" ELSE flock[v][t]
  BY DEF SetLock, Shape
<1>6. Flocks'  BY <1>1, <1>3, <1>5 DEF Locks, Flocks
<1>7. Exclusive'  BY <1>5 DEF Locks, Exclusive
<1> QED  BY <1>2, <1>4, <1>6, <1>7 DEF Locks

\* A process that ends leaves no lock, and the others' locks in place.
LEMMA LocksAfterExit ==
  ASSUME Shape, Locks, NEW s \in Server, Exit(s)
  PROVE  Locks'
<1>1. \A t \in Server, u \in User :
        Holders(t, u)' = IF t = s THEN {} ELSE Holders(t, u)
  BY UserAssumption DEF Exit, Holders, BlankRequest, Shape
<1>2. Counts'
  <2>1. \A t \in Server, u \in User :
          read_lock'[t][u] = IF t = s THEN 0 ELSE read_lock[t][u]
    BY DEF Exit, Shape
  <2> SUFFICES ASSUME NEW t \in ReadServer, NEW u \in User
               PROVE  read_lock'[t][u] = Cardinality(Holders(t, u)')
    BY DEF Counts
  <2>2. t \in Server  BY DEF Server
  <2>3. CASE t = s  BY <2>1, <2>2, <2>3, <1>1, FS_EmptySet
  <2>4. CASE t # s  BY <2>1, <2>2, <2>4, <1>1 DEF Locks, Counts
  <2> QED  BY <2>3, <2>4
<1>3. Marks'
  <2>1. \A t \in Server, u \in User :
          write_lock'[t][u] = IF t = s THEN FALSE ELSE write_lock[t][u]
    BY DEF Exit, Shape
  <2> SUFFICES ASSUME NEW t \in WriteServer, NEW v \in User
               PROVE  /\ write_lock'[t][v] <=> Holders(t, v)' # {}
                      /\ \A h, g \in Holders(t, v)' : h = g
    BY DEF Marks
  <2>0. t \in Server  BY DEF Server
  <2>3. CASE t = s  BY <2>0, <2>1, <2>3, <1>1
  <2>4. CASE t # s
    <3>1. write_lock'[t][v] = write_lock[t][v]  BY <2>0, <2>1, <2>4
    <3> QED  BY <3>1, <2>0, <2>4, <1>1 DEF Locks, Marks
  <2> QED  BY <2>3, <2>4
<1>4. \A t \in Server, u \in User :
        flock'[u][t] = IF t = s THEN "none" ELSE flock[u][t]
  BY DEF Exit, Shape
<1>5. Flocks'  BY <1>1, <1>4 DEF Locks, Flocks
<1>6. Exclusive'  BY <1>4 DEF Locks, Exclusive
<1> QED  BY <1>2, <1>3, <1>5, <1>6 DEF Locks

\* Every step keeps counters, marks and kernel locks in agreement.
LEMMA LocksStep == Basic /\ Locks /\ [Next]_vars => Locks'
<1> SUFFICES ASSUME Basic, Locks, [Next]_vars PROVE Locks'  OBVIOUS
<1> DEFINE SameIds == \A t \in Server, g \in Fd : requestP'[t][g].id = requestP[t][g].id
<1>1. ASSUME NEW s \in Server, Select(s) PROVE Locks'
  BY <1>1, LocksKept DEF Select
<1>2. ASSUME NEW s \in Server, AcceptConnection(s) PROVE Locks'
  BY <1>2, LocksKept DEF AcceptConnection
<1>3. ASSUME NEW s \in Server, AcceptAgain(s) PROVE Locks'
  BY <1>3, LocksKept DEF AcceptAgain
<1>4. ASSUME NEW s \in Server, Exit(s) PROVE Locks'
  BY <1>4, LocksAfterExit DEF Basic
<1>5. ASSUME NEW s \in Server, NEW f \in Fd, ReadFails(s, f) PROVE Locks'
  BY <1>5, LocksKept DEF ReadFails
<1>6. ASSUME NEW s \in Server, NEW f \in Fd, Identifying(s, f), ConnectOff(s, f),
             UNCHANGED <<flock, read_lock, write_lock>>
      PROVE Locks'
  <2>1. requestP[s][f].id = NoUser
    BY <1>6 DEF Identifying, Turn, Basic, Slots, Shape, Request
  <2>2. SameIds  BY <1>6, <2>1 DEF ConnectOff, BlankRequest, Basic, Shape
  <2> QED  BY <1>6, <2>2, LocksKept
<1>7. ASSUME NEW s \in Server, NEW f \in Fd, TurnAway(s, f) PROVE Locks'
  BY <1>6, <1>7 DEF TurnAway
<1>8. ASSUME NEW s \in Server, NEW f \in Fd, NEW u \in User, FindLocked(s, f, u) PROVE Locks'
  BY <1>6, <1>8 DEF FindLocked
<1>9. ASSUME NEW s \in Server, NEW f \in Fd, NEW u \in User, LockForReading(s, f, u)
      PROVE Locks'
  <2>1. SlotGets(s, f, u)
    BY <1>9 DEF LockForReading, SlotGets, Identifying, Turn, Basic, Slots, Shape, Request
  <2> QED  BY <1>9, <2>1, LocksForReading DEF LockForReading, Lockable, Basic
<1>10. ASSUME NEW s \in Server, NEW f \in Fd, NEW u \in User, LockForWriting(s, f, u)
       PROVE Locks'
  <2>1. SlotGets(s, f, u)
    BY <1>10 DEF LockForWriting, SlotGets, Identifying, Turn, Basic, Slots, Shape, Request
  <2>2. s \notin ReadServer  BY <1>10, ServerAssumption DEF LockForWriting
  <2> QED  BY <1>10, <2>1, <2>2, LocksForWriting DEF LockForWriting, Lockable, Basic
<1>11. ASSUME NEW s \in Server, LoadRecord(s) PROVE Locks'
  <2>1. SameIds
    <3>1. cur[s] \in Fd  BY <1>11 DEF LoadRecord, Basic, Phases, Shape
    <3> QED  BY <1>11, <3>1 DEF LoadRecord, Basic, Shape, Request
  <2> QED  BY <1>11, <2>1, LocksKept DEF LoadRecord
<1>12. ASSUME NEW s \in Server, NEW f \in Fd, ReaderStays(s, f) PROVE Locks'
  BY <1>12, LocksKept DEF ReaderStays
<1>13. ASSUME NEW s \in Server, NEW f \in Fd, ConnectOff(s, f), requestP[s][f].id \in User
       PROVE SlotLoses(s, f, requestP[s][f].id)
  BY <1>13 DEF ConnectOff, SlotLoses, BlankRequest, Basic, Shape
<1>14. ASSUME NEW s \in Server, NEW f \in Fd, ReaderLeaves(s, f) PROVE Locks'
  <2> DEFINE u == requestP[s][f].id
  <2>1. u \in User  BY <1>14 DEF ReaderLeaves, Waiting, Basic, Slots
  <2>2. SlotLoses(s, f, u)  BY <1>13, <1>14, <2>1 DEF ReaderLeaves
  <2>3. /\ s \in ReadServer
        /\ IF read_lock[s][u] = 1 THEN SetLock(s, u, "none") ELSE UNCHANGED flock
        /\ read_lock' = [read_lock EXCEPT ![s][u] = @ - 1]
        /\ UNCHANGED write_lock
    BY <1>14 DEF ReaderLeaves
  <2> HIDE DEF u
  <2> QED  BY <2>1, <2>2, <2>3, LocksAfterReader DEF Basic
<1>15. ASSUME NEW s \in WriteServer, NEW f \in Fd, EndWrite(s, f),
              requestP[s][f].id \in User, UNCHANGED read_lock
       PROVE Locks'
  <2> DEFINE u == requestP[s][f].id
  <2>1. SlotLoses(s, f, u)  BY <1>13, <1>15 DEF EndWrite, Server
  <2>2. /\ SetLock(s, u, "none")
        /\ write_lock' = [write_lock EXCEPT ![s][u] = FALSE]
    BY <1>15 DEF EndWrite
  <2>3. u \in User  BY <1>15
  <2> HIDE DEF u
  <2> QED  BY <1>15, <2>1, <2>2, <2>3, LocksAfterWriter DEF Basic
<1>16. ASSUME NEW s \in Server, NEW f \in Fd, WriterLeaves(s, f) PROVE Locks'
  BY <1>15, <1>16 DEF WriterLeaves, Waiting, Basic, Slots
<1>17. ASSUME NEW s \in Server, NEW f \in Fd, NEW d \in Command, Book(s, f, d) PROVE Locks'
  <2>1. SameIds  BY <1>17 DEF Book, Basic, Shape, Request
  <2> QED  BY <1>17, <2>1, LocksKept DEF Book
<1>18. ASSUME NEW s \in Server, StoreItem(s) PROVE Locks'
  BY <1>18, LocksKept DEF StoreItem
<1>19. ASSUME NEW s \in Server, FinishStore(s) PROVE Locks'
  <2>1. /\ s \in WriteServer
        /\ cur[s] \in Fd
        /\ requestP[s][cur[s]].id \in User
    BY <1>19 DEF FinishStore, Basic, Phases, Shape
  <2> QED  BY <1>15, <1>19, <2>1 DEF FinishStore
<1>20. ASSUME NEW s \in Server, NEW f \in Fd, Hangup(s, f) \/ BreakConnection(s, f)
       PROVE Locks'
  BY <1>20, LocksKept DEF Hangup, BreakConnection, shared, process
<1>21. ASSUME NEW s \in Server, Restart(s) PROVE Locks'
  BY <1>21, LocksKept DEF Restart
<1>22. CASE UNCHANGED vars
  BY <1>22, LocksKept DEF vars
<1> QED
  BY <1>1, <1>2, <1>3, <1>4, <1>5, <1>7, <1>8, <1>9, <1>10, <1>11, <1>12, <1>14, <1>16,
     <1>17, <1>18, <1>19, <1>20, <1>21, <1>22
  DEF Next, Serve, Handle, Die, AcceptFails

\* Both invariants hold in every reachable state.
LEMMA BasicAndLocks == Spec => [](Basic /\ Locks)
<1>1. Init => Basic /\ Locks  BY BasicInit, LocksInit
<1>2. (Basic /\ Locks) /\ [Next]_vars => (Basic /\ Locks)'  BY BasicStep, LocksStep
<1> QED  BY <1>1, <1>2, PTL DEF Spec

\* The type invariant holds: a read server never counts below zero.
THEOREM TypeCorrect == Spec => []TypeOK
<1>1. Basic /\ Locks => TypeOK
  <2> SUFFICES ASSUME Basic, Locks PROVE TypeOK  OBVIOUS
  <2>1. ASSUME NEW s \in Server, NEW u \in User PROVE read_lock[s][u] \in Nat
    <3>1. CASE s \in ReadServer
      BY <3>1, HoldersFinite, FS_CardinalityType DEF Locks, Counts
    <3>2. CASE s \in WriteServer  BY <3>2 DEF Basic, Phases
    <3> QED  BY <3>1, <3>2 DEF Server
  <2>2. read_lock \in [Server -> [User -> Nat]]  BY <2>1 DEF Basic, Shape
  <2> QED  BY <2>2 DEF Basic, Shape, TypeOK
<1> QED  BY <1>1, BasicAndLocks, PTL

\* However clients come, go, hang up or break off and processes die, every
\* process holds exactly the kernel locks that its connections use.
THEOREM LocksMatch == Spec => []LocksMatchConnections
<1>1. Basic /\ Locks => LocksMatchConnections
  <2> SUFFICES ASSUME Basic, Locks, NEW s \in Server, NEW u \in User
               PROVE  flock[u][s] = IF \E f \in Fd : Holds(s, f, u)
                                    THEN IF s \in ReadServer THEN "read" ELSE "write"
                                    ELSE "none"
    BY DEF LocksMatchConnections
  <2>1. (\E f \in Fd : Holds(s, f, u)) <=> Holders(s, u) # {}
    BY HoldsIsId DEF Holders
  <2> QED  BY <2>1 DEF Locks, Flocks
<1> QED  BY <1>1, BasicAndLocks, PTL

\* Two connections that use one record, in one process or in two, do not
\* include a writer.
LEMMA Alone ==
  ASSUME Basic, Locks, NEW w \in WriteServer, NEW s \in Server, NEW u \in User,
         NEW f \in Holders(w, u), NEW g \in Holders(s, u)
  PROVE  s = w /\ g = f
<1>1. w \in Server /\ w \notin ReadServer  BY ServerAssumption DEF Server
<1>2. flock[u][w] = "write" /\ flock[u][s] # "none"  BY <1>1 DEF Locks, Flocks
<1>3. s = w  BY <1>1, <1>2 DEF Locks, Exclusive
<1> QED  BY <1>3 DEF Locks, Marks

\* A connection that may change a record is the only one using it.
THEOREM WritersAreAlone == Spec => []WriterAlone
<1>1. Basic /\ Locks => WriterAlone
  BY HoldsIsId, Alone DEF WriterAlone, Server
<1> QED  BY <1>1, BasicAndLocks, PTL

\* Only the sole holder of a record's write lock ever changes the record.
THEOREM StoresAreLocked == Spec => OnlyTheLockHolderStores
<1> DEFINE Stores ==
      \A u \in User : record'[u] # record[u] =>
        \E w \in WriteServer : \A s \in Server :
          flock[u][s] = IF s = w THEN "write" ELSE "none"
<1>1. Basic /\ Locks /\ [Next]_vars => [Stores]_vars
  <2> SUFFICES ASSUME Basic, Locks, Next PROVE Stores
    BY DEF vars
  <2>1. ASSUME NEW s \in Server, StoreItem(s) PROVE Stores
    <3> DEFINE v == requestP[s][cur[s]].id
    <3>1. s \in WriteServer /\ cur[s] \in Fd /\ v \in User
      BY <2>1 DEF StoreItem, Basic, Phases, Shape
    <3>2. \A u \in User : record'[u] # record[u] => u = v
      BY <2>1 DEF StoreItem, Basic, Shape
    <3>3. flock[v][s] = "write"
      BY <3>1, ServerAssumption DEF Locks, Flocks, Holders
    <3>4. \A t \in Server : flock[v][t] = IF t = s THEN "write" ELSE "none"
      BY <3>1, <3>3 DEF Locks, Exclusive
    <3> QED  BY <3>1, <3>2, <3>4
  <2>2. ASSUME UNCHANGED record PROVE Stores
    BY <2>2
  <2>3. (\E s \in Server : StoreItem(s)) \/ UNCHANGED record
    <3>1. ASSUME NEW s \in Server, NEW f \in Fd, Handle(s, f) PROVE UNCHANGED record
      BY <3>1 DEF Handle, ReadFails, TurnAway, FindLocked, LockForReading, LockForWriting,
                  ReaderStays, ReaderLeaves, WriterLeaves, Book
    <3>2. ASSUME NEW s \in Server, Serve(s) PROVE StoreItem(s) \/ UNCHANGED record
      BY <3>1, <3>2 DEF Serve, AcceptConnection, AcceptAgain, AcceptFails, Exit,
                        LoadRecord, FinishStore
    <3>3. ASSUME NEW s \in Server, NEW f \in Fd, Hangup(s, f) \/ BreakConnection(s, f)
          PROVE  UNCHANGED record
      BY <3>3 DEF Hangup, BreakConnection, shared
    <3>4. ASSUME NEW s \in Server, Select(s) \/ Die(s) \/ Restart(s)
          PROVE  UNCHANGED record
      BY <3>4 DEF Select, Die, Exit, Restart
    <3> QED  BY <3>2, <3>3, <3>4 DEF Next
  <2> QED  BY <2>1, <2>2, <2>3
<1> QED  BY <1>1, BasicAndLocks, PTL DEF Spec, OnlyTheLockHolderStores

-----------------------------------------------------------------------------
(* What the connections are shown.                                         *)

\* A connection outside its handler has the record's present value cached.
Shown ==
  \A s \in Server, u \in User : \A f \in Holders(s, u) :
    (cur[s] = f => pc[s] = "scan") => requestP[s][f].Record = record[u]

\* The listening descriptor is none of the clients'.
LEMMA ListenIsNoClient == listen_fd \notin Fd
BY BoundAssumption DEF listen_fd, Fd

\* At the start nobody was shown anything.
LEMMA ShownInit == Init => Shown
BY UserAssumption DEF Init, Shown, Holders, BlankRequest

\* No step changes a record that another connection was shown.
LEMMA ShownStep == Basic /\ Locks /\ Shown /\ [Next]_vars => Shown'
<1> SUFFICES ASSUME Basic, Locks, Shown, [Next]_vars PROVE Shown'  OBVIOUS
<1>0. ASSUME UNCHANGED <<record, pc, requestP, cur>> PROVE Shown'
  BY <1>0 DEF Shown, Holders
<1>1. ASSUME NEW s \in Server, Select(s) PROVE Shown'
  BY <1>0, <1>1 DEF Select
<1>2. ASSUME NEW s \in Server, AcceptConnection(s) \/ AcceptAgain(s) PROVE Shown'
  BY <1>0, <1>2 DEF AcceptConnection, AcceptAgain
<1>3. ASSUME NEW s \in Server, Exit(s) PROVE Shown'
  <2>1. ASSUME NEW t \in Server, NEW f \in Fd, NEW u \in User, requestP'[t][f].id = u
        PROVE  t # s /\ requestP'[t] = requestP[t] /\ cur'[t] = cur[t] /\ pc'[t] = pc[t]
    BY <1>3, <2>1, UserAssumption DEF Exit, BlankRequest, Basic, Shape
  <2>2. UNCHANGED record  BY <1>3 DEF Exit
  <2> QED  BY <2>1, <2>2 DEF Shown, Holders
<1>4. ASSUME NEW s \in Server, NEW f \in Fd, ReadFails(s, f) \/ ReaderStays(s, f)
      PROVE Shown'
  BY <1>0, <1>4 DEF ReadFails, ReaderStays
<1>5. ASSUME NEW s \in Server, NEW f \in Fd, ConnectOff(s, f),
             UNCHANGED <<record, pc, cur>>
      PROVE Shown'
  <2>1. \A t \in Server, g \in Fd :
          requestP'[t][g] = IF t = s /\ g = f THEN BlankRequest ELSE requestP[t][g]
    BY <1>5 DEF ConnectOff, Basic, Shape
  <2> QED  BY <1>5, <2>1, UserAssumption DEF Shown, Holders, BlankRequest
<1>6. ASSUME NEW s \in Server, NEW f \in Fd, NEW u \in User,
             FindLocked(s, f, u) PROVE Shown'
  BY <1>5, <1>6 DEF FindLocked
<1>7. ASSUME NEW s \in Server, NEW f \in Fd, TurnAway(s, f) PROVE Shown'
  BY <1>5, <1>7 DEF TurnAway
<1>8. ASSUME NEW s \in Server, NEW f \in Fd, cur' = [cur EXCEPT ![s] = f],
             pc[s] = "scan", pc'[s] # "scan", UNCHANGED record,
             \A t \in Server : t # s => pc'[t] = pc[t],
             \A t \in Server, g \in Fd :
               t # s \/ g # f => requestP'[t][g] = requestP[t][g]
      PROVE Shown'
  <2> SUFFICES ASSUME NEW t \in Server, NEW u \in User, NEW g \in Fd,
                      requestP'[t][g].id = u, cur'[t] = g => pc'[t] = "scan"
               PROVE  requestP'[t][g].Record = record[u]
    BY <1>8 DEF Shown, Holders
  <2>1. cur'[s] = f /\ \A r \in Server : r # s => cur'[r] = cur[r]
    BY <1>8 DEF Basic, Shape
  <2>2. t # s \/ g # f  BY <1>8, <2>1
  <2>3. requestP'[t][g] = requestP[t][g]  BY <1>8, <2>2
  <2>4. cur[t] = g => pc[t] = "scan"
    BY <1>8, <2>1, <2>2
  <2> QED  BY <2>3, <2>4 DEF Shown, Holders
<1>9. ASSUME NEW s \in Server, NEW f \in Fd, NEW u \in User,
             LockForReading(s, f, u) PROVE Shown'
  BY <1>8, <1>9 DEF LockForReading, Identifying, Turn, Basic, Shape
<1>10. ASSUME NEW s \in Server, NEW f \in Fd, NEW u \in User,
              LockForWriting(s, f, u) PROVE Shown'
  BY <1>8, <1>10 DEF LockForWriting, Identifying, Turn, Basic, Shape
<1>11. ASSUME NEW s \in Server, NEW f \in Fd, NEW d \in Command, Book(s, f, d)
       PROVE Shown'
  BY <1>8, <1>11 DEF Book, Waiting, Turn, Basic, Shape
<1>12. ASSUME NEW s \in Server, LoadRecord(s) PROVE Shown'
  <2> SUFFICES ASSUME NEW t \in Server, NEW u \in User, NEW g \in Fd,
                      requestP'[t][g].id = u, cur'[t] = g => pc'[t] = "scan"
               PROVE  requestP'[t][g].Record = record[u]
    BY <1>12 DEF LoadRecord, Shown, Holders
  <2>1. cur[s] \in Fd  BY <1>12 DEF LoadRecord, Basic, Phases, Shape
  <2>2. requestP[s][cur[s]] \in Request  BY <2>1 DEF Basic, Shape
  <2>3. CASE t = s /\ g = cur[s]
    BY <1>12, <2>1, <2>2, <2>3 DEF LoadRecord, Basic, Shape, Request
  <2>4. CASE t # s \/ g # cur[s]
    <3>1. requestP'[t][g] = requestP[t][g]
      BY <1>12, <2>1, <2>4 DEF LoadRecord, Basic, Shape
    <3>2. cur[t] = g => pc[t] = "scan"
      BY <1>12, <2>4 DEF LoadRecord, Basic, Shape
    <3> QED  BY <3>1, <3>2 DEF Shown, Holders
  <2> QED  BY <2>3, <2>4
<1>13. ASSUME NEW s \in Server, NEW f \in Fd, ReaderLeaves(s, f) \/ WriterLeaves(s, f)
       PROVE Shown'
  BY <1>5, <1>13 DEF ReaderLeaves, WriterLeaves, EndWrite
<1>14. ASSUME NEW s \in Server, StoreItem(s) PROVE Shown'
  <2> DEFINE v == requestP[s][cur[s]].id
  <2>1. s \in WriteServer /\ cur[s] \in Fd /\ v \in User
    BY <1>14 DEF StoreItem, Basic, Phases, Shape
  <2>2. cur[s] \in Holders(s, v)  BY <2>1 DEF Holders
  <2> SUFFICES ASSUME NEW t \in Server, NEW u \in User, NEW g \in Holders(t, u),
                      cur[t] = g => pc[t] = "scan"
               PROVE  requestP[t][g].Record = record'[u]
    BY <1>14 DEF StoreItem, Shown, Holders
  <2>3. requestP[t][g].Record = record[u]  BY DEF Shown
  <2>4. u # v
    <3> SUFFICES ASSUME u = v PROVE FALSE  OBVIOUS
    <3>1. t = s /\ g = cur[s]  BY <2>1, <2>2, Alone
    <3> QED  BY <1>14, <3>1 DEF StoreItem
  <2>5. record'[u] = record[u]  BY <1>14, <2>4 DEF StoreItem, Basic, Shape
  <2> QED  BY <2>3, <2>5
<1>15. ASSUME NEW s \in Server, FinishStore(s) PROVE Shown'
  <2> DEFINE f == cur[s]
  <2>1. f \in Fd  BY <1>15 DEF FinishStore, Basic, Phases, Shape
  <2>2. \A t \in Server, g \in Fd :
          requestP'[t][g] = IF t = s /\ g = f THEN BlankRequest ELSE requestP[t][g]
    BY <1>15 DEF FinishStore, EndWrite, ConnectOff, Basic, Shape
  <2> SUFFICES ASSUME NEW t \in Server, NEW u \in User, NEW g \in Fd,
                      requestP'[t][g].id = u, cur'[t] = g => pc'[t] = "scan"
               PROVE  requestP'[t][g].Record = record[u]
    BY <1>15 DEF FinishStore, Shown, Holders
  <2>3. t # s \/ g # f  BY <2>2, UserAssumption DEF BlankRequest
  <2>4. requestP'[t][g] = requestP[t][g]  BY <2>2, <2>3
  <2>5. cur[t] = g => pc[t] = "scan"
    BY <1>15, <2>3 DEF FinishStore, Basic, Shape
  <2> QED  BY <2>4, <2>5 DEF Shown, Holders
<1>16. ASSUME NEW s \in Server, NEW f \in Fd, Hangup(s, f) \/ BreakConnection(s, f)
       PROVE Shown'
  BY <1>0, <1>16 DEF Hangup, BreakConnection, shared, process
<1>17. ASSUME NEW s \in Server, Restart(s) PROVE Shown'
  <2>1. \A t \in Server, g \in Fd : cur[t] = g => pc[t] \in {"load", "store"}
    BY ListenIsNoClient DEF Basic, Phases, Shape
  <2>2. \A t \in Server : pc[t] \in {"load", "store"} => pc'[t] = pc[t]
    BY <1>17 DEF Restart, Basic, Shape
  <2> QED  BY <1>17, <2>1, <2>2 DEF Restart, Shown, Holders
<1>18. CASE UNCHANGED vars
  BY <1>0, <1>18 DEF vars
<1> QED
  BY <1>1, <1>2, <1>3, <1>4, <1>6, <1>7, <1>9, <1>10, <1>11, <1>12, <1>13, <1>14, <1>15,
     <1>16, <1>17, <1>18
  DEF Next, Serve, Handle, Die, AcceptFails

\* What a connection was shown stays what the file holds, until it stores.
THEOREM ShownStaysStored == Spec => []ShownIsStored
<1>1. Basic /\ Locks /\ Shown => ShownIsStored
  BY HoldsIsId DEF Shown, ShownIsStored
<1>2. Init => Shown  BY ShownInit
<1> QED  BY <1>1, <1>2, ShownStep, BasicAndLocks, PTL DEF Spec

-----------------------------------------------------------------------------
(* The limit.                                                              *)

\* No sum the second write computes leaves the range of an int.
NoOverflow ==
  /\ 3 * Limit <= IntMax
  /\ \A d \in Command, i \in Item :
       3 * (Limit + d[i]) <= IntMax /\ 3 * d[i] >= -IntMax

Small(b) == \A i \in Item : b[i] \in 0..Limit

Order(s) == requestP[s][cur[s]]
Writes(s, u) == pc[s] = "store" /\ Order(s).id = u

SmallItems == \A u \in User : Small(record[u])

\* The items already written are the booking's, and the booking is within the
\* limit.
Progress ==
  \A s \in Server : pc[s] = "store" =>
    /\ WithinLimit(Order(s).Record) /\ Small(Order(s).Record)
    /\ \A i \in Item : i <= k[s] => record[Order(s).id][i] = Order(s).Record[i]

\* A record that no crash damaged and no process has begun to write is sound.
Sound ==
  \A u \in User \ damaged :
    (\A s \in Server : Writes(s, u) => k[s] = 0) => WithinLimit(record[u])

InLimit == SmallItems /\ Progress /\ Sound

\* A command that passes the two checks leads to a record within the limit.
LEMMA AcceptedIsSmall ==
  ASSUME NoOverflow, NEW b \in [Item -> Int32], Small(b), NEW d \in Command, Accepted(b, d)
  PROVE  WithinLimit(NewState(b, d)) /\ Small(NewState(b, d))
<1> DEFINE n == NewState(b, d)
<1>1. d \in [Item -> Int32] /\ Limit \in Nat /\ IntMax \in Nat
  BY DataAssumption, BoundAssumption
<1>2. /\ d[1] \in Int /\ d[2] \in Int /\ d[3] \in Int
      /\ b[1] \in 0..Limit /\ b[2] \in 0..Limit /\ b[3] \in 0..Limit
  BY <1>1, BoundAssumption DEF Small, Item, Int32
<1>3. /\ 3 * (Limit + d[1]) <= IntMax /\ 3 * d[1] >= -IntMax
      /\ 3 * (Limit + d[2]) <= IntMax /\ 3 * d[2] >= -IntMax
      /\ 3 * (Limit + d[3]) <= IntMax /\ 3 * d[3] >= -IntMax
      /\ 3 * Limit <= IntMax
  BY DEF NoOverflow, Item
<1>4. /\ Plus(b[1], d[1]) = b[1] + d[1]
      /\ Plus(b[2], d[2]) = b[2] + d[2]
      /\ Plus(b[3], d[3]) = b[3] + d[3]
  BY <1>1, <1>2, <1>3 DEF Plus
<1>5. NewTotal(b, d) = b[1] + b[2] + b[3] + d[1] + d[2] + d[3]
  <2>1. Plus(b[1], b[2]) = b[1] + b[2]  BY <1>1, <1>2, <1>3 DEF Plus
  <2>2. Plus(b[1] + b[2], b[3]) = b[1] + b[2] + b[3]  BY <1>1, <1>2, <1>3 DEF Plus
  <2>3. Plus(b[1] + b[2] + b[3], d[1]) = b[1] + b[2] + b[3] + d[1]
    BY <1>1, <1>2, <1>3 DEF Plus
  <2>4. Plus(b[1] + b[2] + b[3] + d[1], d[2]) = b[1] + b[2] + b[3] + d[1] + d[2]
    BY <1>1, <1>2, <1>3 DEF Plus
  <2>5. Plus(b[1] + b[2] + b[3] + d[1] + d[2], d[3])
          = b[1] + b[2] + b[3] + d[1] + d[2] + d[3]
    BY <1>1, <1>2, <1>3 DEF Plus
  <2> QED  BY <2>1, <2>2, <2>3, <2>4, <2>5 DEF NewTotal
<1>6. /\ n[1] = b[1] + d[1] /\ n[2] = b[2] + d[2] /\ n[3] = b[3] + d[3]
      /\ n[1] >= 0 /\ n[2] >= 0 /\ n[3] >= 0
  BY <1>4 DEF NewState, Item, Accepted
<1>7. n[1] + n[2] + n[3] <= Limit  BY <1>1, <1>2, <1>5, <1>6 DEF Accepted
<1> HIDE DEF n
<1>8. \A i \in Item : n[i] >= 0 /\ n[i] \in 0..Limit
  BY <1>1, <1>2, <1>6, <1>7 DEF Item
<1> QED  BY <1>7, <1>8 DEF WithinLimit, Total, Small, n

\* The file holds records within the limit at the start.
LEMMA InLimitInit == Init => InLimit
<1> SUFFICES ASSUME Init PROVE InLimit  OBVIOUS
<1>1. SmallItems  BY DataAssumption DEF Init, SmallItems, Small
<1>2. Progress  BY DEF Init, Progress
<1>3. Sound
  <2> SUFFICES ASSUME NEW u \in User PROVE WithinLimit(record[u])  BY DEF Sound
  <2>1. record[u] \in InitialState  BY DEF Init
  <2> QED  BY <2>1, DataAssumption, BoundAssumption DEF WithinLimit, Total, Item
<1> QED  BY <1>1, <1>2, <1>3 DEF InLimit

\* Most steps change no record and leave what is being stored alone.
LEMMA InLimitKept ==
  ASSUME InLimit, UNCHANGED <<record, damaged>>,
         \A s \in Server : /\ pc'[s] = "store" <=> pc[s] = "store"
                           /\ pc[s] = "store" => Order(s)' = Order(s) /\ k'[s] = k[s]
  PROVE  InLimit'
<1>1. SmallItems'  BY DEF InLimit, SmallItems
<1>2. Progress'  BY DEF InLimit, Progress
<1>3. \A s \in Server, u \in User : Writes(s, u)' <=> Writes(s, u)  BY DEF Writes
<1>4. Sound'  BY <1>3 DEF InLimit, Sound, Writes
<1> QED  BY <1>1, <1>2, <1>4 DEF InLimit

\* The step of one process that is not storing, before or after.
LEMMA InLimitElsewhere ==
  ASSUME InLimit, UNCHANGED <<record, damaged>>, NEW s \in Server,
         pc[s] # "store", pc'[s] # "store",
         \A t \in Server : t # s =>
            pc'[t] = pc[t] /\ cur'[t] = cur[t] /\ k'[t] = k[t] /\ requestP'[t] = requestP[t]
  PROVE  InLimit'
BY InLimitKept DEF Order

\* Every step, a crash in the middle of a store included, keeps the limit.
LEMMA InLimitStep ==
  NoOverflow /\ Basic /\ Locks /\ Shown /\ InLimit /\ [Next]_vars => InLimit'
<1> SUFFICES ASSUME NoOverflow, Basic, Locks, Shown, InLimit, [Next]_vars PROVE InLimit'
  OBVIOUS
<1>0. ASSUME UNCHANGED <<record, pc, requestP, cur, k, damaged>> PROVE InLimit'
  BY <1>0, InLimitKept DEF Order
<1>1. ASSUME NEW s \in Server, Select(s) PROVE InLimit'
  BY <1>0, <1>1 DEF Select
<1>2. ASSUME NEW s \in Server, AcceptConnection(s) \/ AcceptAgain(s) PROVE InLimit'
  BY <1>0, <1>2 DEF AcceptConnection, AcceptAgain
<1>3. ASSUME NEW s \in Server, NEW f \in Fd, ReadFails(s, f) \/ ReaderStays(s, f)
      PROVE InLimit'
  BY <1>0, <1>3 DEF ReadFails, ReaderStays
<1>4. ASSUME NEW s \in Server, NEW f \in Fd, NEW u \in User, FindLocked(s, f, u)
      PROVE InLimit'
  <2>1. pc[s] = "scan" /\ ConnectOff(s, f) /\ UNCHANGED <<record, pc, cur, k, damaged>>
    BY <1>4 DEF FindLocked, Identifying, Turn
  <2>2. \A t \in Server : t # s => requestP'[t] = requestP[t]
    BY <2>1 DEF ConnectOff, Basic, Shape
  <2> QED  BY <2>1, <2>2, InLimitElsewhere
<1>5. ASSUME NEW s \in Server, NEW f \in Fd, TurnAway(s, f) \/ ReaderLeaves(s, f) \/ WriterLeaves(s, f)
      PROVE InLimit'
  <2>1. pc[s] = "scan" /\ ConnectOff(s, f) /\ UNCHANGED <<record, pc, cur, k, damaged>>
    BY <1>5 DEF TurnAway, ReaderLeaves, WriterLeaves, EndWrite, Identifying, Waiting, Turn
  <2>2. \A t \in Server : t # s => requestP'[t] = requestP[t]
    BY <2>1 DEF ConnectOff, Basic, Shape
  <2> QED  BY <2>1, <2>2, InLimitElsewhere
<1>6. ASSUME NEW s \in Server, NEW f \in Fd, NEW u \in User,
             LockForReading(s, f, u) \/ LockForWriting(s, f, u)
      PROVE InLimit'
  <2>1. pc[s] = "scan" /\ UNCHANGED <<record, k, damaged>>
    BY <1>6 DEF LockForReading, LockForWriting, Identifying, Turn
  <2>2. pc'[s] = "load" /\ \A t \in Server : t # s =>
          pc'[t] = pc[t] /\ cur'[t] = cur[t] /\ requestP'[t] = requestP[t]
    BY <1>6 DEF LockForReading, LockForWriting, Basic, Shape
  <2> QED  BY <2>1, <2>2, InLimitElsewhere
<1>7. ASSUME NEW s \in Server, LoadRecord(s) PROVE InLimit'
  <2>1. pc[s] = "load" /\ UNCHANGED <<record, k, damaged>>
    BY <1>7 DEF LoadRecord
  <2>2. pc'[s] = "scan" /\ \A t \in Server : t # s =>
          pc'[t] = pc[t] /\ cur'[t] = cur[t] /\ requestP'[t] = requestP[t]
    BY <1>7 DEF LoadRecord, Basic, Shape
  <2> QED  BY <2>1, <2>2, InLimitElsewhere
<1>8. ASSUME NEW s \in Server, Restart(s) PROVE InLimit'
  <2>1. pc[s] = "down" /\ UNCHANGED <<record, k, damaged, cur, requestP>>
    BY <1>8 DEF Restart
  <2>2. pc'[s] = "scan" /\ \A t \in Server : t # s => pc'[t] = pc[t]
    BY <1>8 DEF Restart, Basic, Shape
  <2> QED  BY <2>1, <2>2, InLimitElsewhere
<1>9. ASSUME NEW s \in Server, NEW f \in Fd, Hangup(s, f) \/ BreakConnection(s, f)
      PROVE InLimit'
  BY <1>0, <1>9 DEF Hangup, BreakConnection, shared, process
<1>10. ASSUME NEW s \in Server, NEW f \in Fd, NEW d \in Command, Book(s, f, d)
       PROVE InLimit'
  <2> DEFINE u == requestP[s][f].id
             b == requestP[s][f].Record
  <2>1. u \in User /\ f \in Holders(s, u) /\ pc[s] = "scan" /\ Accepted(b, d)
    BY <1>10 DEF Book, Waiting, Turn, Basic, Slots, Holders
  <2>2. requestP[s][f] \in Request /\ b \in [Item -> Int32]
    BY DEF Basic, Shape, Request
  <2>3. b = record[u]
    BY <2>1, ListenIsNoClient DEF Shown
  <2>4. Small(b)  BY <2>1, <2>3 DEF InLimit, SmallItems
  <2>5. WithinLimit(NewState(b, d)) /\ Small(NewState(b, d))
    BY <2>1, <2>2, <2>4, AcceptedIsSmall
  <2>6. /\ k[s] = 0
        /\ pc'[s] = "store" /\ cur'[s] = f
        /\ requestP'[s][f].Record = NewState(b, d)
    BY <1>10, <2>1, <2>2 DEF Book, Basic, Shape, Phases, Request
  <2>7. \A t \in Server : t # s =>
          pc'[t] = pc[t] /\ cur'[t] = cur[t] /\ requestP'[t] = requestP[t]
    BY <1>10 DEF Book, Basic, Shape
  <2>8. UNCHANGED <<record, k, damaged>>  BY <1>10 DEF Book
  <2>9. SmallItems'  BY <2>8 DEF InLimit, SmallItems
  <2>10. Progress'
    <3> SUFFICES ASSUME NEW t \in Server, pc'[t] = "store"
                 PROVE  /\ WithinLimit(Order(t)'.Record) /\ Small(Order(t)'.Record)
                        /\ \A i \in Item : i <= k'[t] =>
                             record'[Order(t)'.id][i] = Order(t)'.Record[i]
      BY DEF Progress
    <3>1. CASE t = s  BY <2>5, <2>6, <2>8, <3>1 DEF Order, Item
    <3>2. CASE t # s  BY <2>7, <2>8, <3>2 DEF InLimit, Progress, Order
    <3> QED  BY <3>1, <3>2
  <2>11. Sound'
    <3> SUFFICES ASSUME NEW v \in User \ damaged,
                        \A t \in Server : Writes(t, v)' => k[t] = 0
                 PROVE  WithinLimit(record[v])
      BY <2>8 DEF Sound
    <3>1. ASSUME NEW t \in Server, Writes(t, v) PROVE k[t] = 0
      BY <2>1, <2>7, <3>1 DEF Writes, Order
    <3> QED  BY <3>1 DEF InLimit, Sound
  <2> QED  BY <2>9, <2>10, <2>11 DEF InLimit
<1>11. ASSUME NEW s \in Server, StoreItem(s) PROVE InLimit'
  <2> DEFINE u == Order(s).id
             j == k[s] + 1
  <2>1. /\ s \in WriteServer /\ cur[s] \in Fd /\ u \in User /\ cur[s] \in Holders(s, u)
        /\ pc[s] = "store"
    BY <1>11 DEF StoreItem, Basic, Phases, Shape, Order, Holders
  <2>2. j \in Item /\ k[s] \in 0..3
    <3>1. k[s] \in 0..3 /\ k[s] < 3  BY <1>11 DEF StoreItem, Basic, Shape
    <3> QED  BY <3>1 DEF Item
  <2>3. UNCHANGED <<pc, cur, requestP, damaged>> /\ \A t \in Server : Order(t)' = Order(t)
    BY <1>11 DEF StoreItem, Order
  <2>4. \A v \in User, i \in Item : record'[v][i] =
          IF v = u /\ i = j THEN Order(s).Record[j] ELSE record[v][i]
    BY <1>11, <2>1, <2>2 DEF StoreItem, Basic, Shape, Order
  <2>5. \A v \in User : v # u => record'[v] = record[v]
    BY <1>11 DEF StoreItem, Basic, Shape, Order
  <2>6. k'[s] = j /\ \A t \in Server : t # s => k'[t] = k[t]
    BY <1>11 DEF StoreItem, Basic, Shape
  <2>7. Small(Order(s).Record)  BY <2>1 DEF InLimit, Progress
  <2>8. SmallItems'
    BY <2>2, <2>4, <2>7 DEF InLimit, SmallItems, Small
  <2>9. Progress'
    <3> SUFFICES ASSUME NEW t \in Server, pc[t] = "store"
                 PROVE  /\ WithinLimit(Order(t).Record) /\ Small(Order(t).Record)
                        /\ \A i \in Item : i <= k'[t] =>
                             record'[Order(t).id][i] = Order(t).Record[i]
      BY <2>3 DEF Progress
    <3>1. CASE t = s
      <4>1. ASSUME NEW i \in Item, i <= k'[s] PROVE record'[u][i] = Order(s).Record[i]
        <5>1. CASE i = j  BY <2>1, <2>4, <5>1
        <5>2. CASE i # j
          <6>1. i <= k[s]  BY <2>2, <2>6, <4>1, <5>2 DEF Item
          <6> QED  BY <2>1, <2>4, <5>2, <6>1 DEF InLimit, Progress
        <5> QED  BY <5>1, <5>2
      <4> QED  BY <3>1, <4>1 DEF InLimit, Progress
    <3>2. CASE t # s
      <4>1. t \in WriteServer /\ Order(t).id \in User /\ cur[t] \in Holders(t, Order(t).id)
        BY DEF Basic, Phases, Shape, Order, Holders
      <4>2. Order(t).id # u  BY <2>1, <3>2, <4>1, Alone
      <4> QED  BY <2>5, <2>6, <3>2, <4>1, <4>2 DEF InLimit, Progress
    <3> QED  BY <3>1, <3>2
  <2>10. Sound'
    <3> SUFFICES ASSUME NEW v \in User \ damaged,
                        \A t \in Server : Writes(t, v) => k'[t] = 0
                 PROVE  WithinLimit(record'[v])
      BY <2>3 DEF Sound, Writes
    <3>1. v # u  BY <2>1, <2>2, <2>6 DEF Writes
    <3>2. ASSUME NEW t \in Server, Writes(t, v) PROVE k[t] = 0
      <4>1. t # s  BY <3>1, <3>2 DEF Writes
      <4> QED  BY <2>6, <3>2, <4>1
    <3>3. WithinLimit(record[v])  BY <3>2 DEF InLimit, Sound
    <3> QED  BY <2>5, <3>1, <3>3
  <2> QED  BY <2>8, <2>9, <2>10 DEF InLimit
<1>12. ASSUME NEW s \in Server, UNCHANGED record, pc'[s] # "store",
              \A t \in Server : t # s =>
                pc'[t] = pc[t] /\ cur'[t] = cur[t] /\ k'[t] = k[t] /\ requestP'[t] = requestP[t],
              pc[s] = "store" =>
                /\ damaged \subseteq damaged' \cup {Order(s).id}
                /\ Order(s).id \notin damaged' =>
                     \/ k[s] = 3
                     \/ k[s] = 0 /\ Order(s).id \notin damaged,
              pc[s] # "store" => damaged' = damaged
       PROVE InLimit'
  <2>1. SmallItems'  BY <1>12 DEF InLimit, SmallItems
  <2>2. Progress'
    BY <1>12 DEF InLimit, Progress, Order
  <2>3. Sound'
    <3> SUFFICES ASSUME NEW v \in User, v \notin damaged',
                        \A t \in Server : Writes(t, v)' => k'[t] = 0
                 PROVE  WithinLimit(record[v])
      BY <1>12 DEF Sound
    <3>1. ASSUME NEW t \in Server, t # s, Writes(t, v) PROVE k[t] = 0
      BY <1>12, <3>1 DEF Writes, Order
    <3>2. CASE Writes(s, v) /\ k[s] = 3
      <4>1. \A i \in Item : record[v][i] = Order(s).Record[i]
        BY <3>2 DEF InLimit, Progress, Writes, Item
      <4> QED  BY <3>2, <4>1 DEF InLimit, Progress, Writes, WithinLimit, Total, Item
    <3>3. CASE Writes(s, v) /\ k[s] # 3
      <4>1. v \notin damaged /\ k[s] = 0  BY <1>12, <3>3 DEF Writes
      <4> QED  BY <3>1, <4>1 DEF InLimit, Sound
    <3>4. CASE ~Writes(s, v)
      <4>1. v \notin damaged  BY <1>12, <3>4 DEF Writes
      <4> QED  BY <3>1, <3>4, <4>1 DEF InLimit, Sound
    <3> QED  BY <3>2, <3>3, <3>4
  <2> QED  BY <2>1, <2>2, <2>3 DEF InLimit
<1>13. ASSUME NEW s \in Server, FinishStore(s) PROVE InLimit'
  <2>1. pc'[s] = "scan" /\ \A t \in Server : t # s =>
          pc'[t] = pc[t] /\ cur'[t] = cur[t] /\ k'[t] = k[t] /\ requestP'[t] = requestP[t]
    BY <1>13 DEF FinishStore, EndWrite, ConnectOff, Basic, Shape
  <2>2. UNCHANGED record /\ pc[s] = "store" /\ k[s] = 3 /\ damaged' = damaged \ {Order(s).id}
    BY <1>13 DEF FinishStore, Order
  <2> QED  BY <1>12, <2>1, <2>2
<1>14. ASSUME NEW s \in Server, Exit(s) PROVE InLimit'
  <2>1. pc'[s] = "down" /\ \A t \in Server : t # s =>
          pc'[t] = pc[t] /\ cur'[t] = cur[t] /\ k'[t] = k[t] /\ requestP'[t] = requestP[t]
    BY <1>14 DEF Exit, Basic, Shape
  <2>2. UNCHANGED record /\ damaged' = IF pc[s] = "store" /\ k[s] \in 1..2
                                       THEN damaged \cup {Order(s).id} ELSE damaged
    BY <1>14 DEF Exit, Order
  <2>3. k[s] \in 0..3  BY DEF Basic, Shape
  <2> QED  BY <1>12, <2>1, <2>2, <2>3
<1>15. CASE UNCHANGED vars
  BY <1>0, <1>15 DEF vars
<1> QED
  BY <1>1, <1>2, <1>3, <1>4, <1>5, <1>6, <1>7, <1>8, <1>9, <1>10, <1>11, <1>13, <1>14, <1>15
  DEF Next, Serve, Handle, Die, AcceptFails

\* As long as no sum overflows an int, nobody ever has more bookings than the
\* limit, or less than none of an item, except in a record that a process
\* left half stored.
THEOREM LimitHolds == NoOverflow /\ Spec => []BookingsWithinLimit
<1> SUFFICES ASSUME NoOverflow PROVE Spec => []BookingsWithinLimit  OBVIOUS
<1>1. Basic /\ InLimit => BookingsWithinLimit
  <2> SUFFICES ASSUME Basic, InLimit, NEW u \in User \ damaged,
                      \A s \in WriteServer, f \in Fd : ~Storing(s, f, u)
               PROVE  WithinLimit(record[u])
    BY DEF BookingsWithinLimit
  <2>1. ASSUME NEW s \in Server, Writes(s, u) PROVE FALSE
    <3>1. s \in WriteServer /\ cur[s] \in master[s] /\ cur[s] \in Fd
      BY <2>1 DEF Writes, Basic, Phases, Shape
    <3>2. Storing(s, cur[s], u)
      BY <2>1, <3>1 DEF Writes, Order, Storing, Holds
    <3> QED  BY <3>1, <3>2
  <2> QED  BY <2>1 DEF InLimit, Sound
<1>2. Init => Shown /\ InLimit  BY ShownInit, InLimitInit
<1>3. Basic /\ Locks /\ (Shown /\ InLimit) /\ [Next]_vars => (Shown /\ InLimit)'
  BY ShownStep, InLimitStep
<1> QED  BY <1>1, <1>2, <1>3, BasicAndLocks, PTL DEF Spec

-----------------------------------------------------------------------------
(* The refinement.                                                         *)

\* The invariants so far together: which connections hold a
\* lock, what they were shown, and how far a booking has been stored.
Keeps == Basic /\ Locks /\ Shown /\ InLimit

-----------------------------------------------------------------------------
(* What the ledger's variables are, in terms of the slots.                 *)

\* The account of a user is what is being stored for them, or what is stored.
AccountsAre ==
  \A u \in User :
    /\ \A s \in Server : Writes(s, u) => account[u] = Order(s).Record
    /\ (\A s \in Server : ~Writes(s, u)) => account[u] = record[u]

\* The sessions of a user are the connections whose slots name the user.
SessionsAre ==
  \A u \in User, s \in Server, f \in Fd :
    /\ <<s, f>> \in readers[u] <=> s \in ReadServer /\ requestP[s][f].id = u
    /\ <<s, f>> \in writers[u] <=> s \in WriteServer /\ requestP[s][f].id = u

\* Only sessions read or write.
LEMMA SessionsTyped ==
  ASSUME NEW u \in User
  PROVE  readers[u] \subseteq Session /\ writers[u] \subseteq Session
BY DEF readers, writers, Users, Session, Server

\* At most one process stores for a user.
LEMMA OneStores ==
  ASSUME Basic, Locks, NEW u \in User, NEW s \in Server, Writes(s, u)
  PROVE  /\ s \in WriteServer /\ cur[s] \in Fd /\ cur[s] \in Holders(s, u)
         /\ Storing(s, cur[s], u)
         /\ \A t \in Server, f \in Fd : Storing(t, f, u) => t = s /\ f = cur[s]
<1>1. s \in WriteServer /\ cur[s] \in Fd /\ cur[s] \in master[s] /\ cur[s] \in Holders(s, u)
  BY DEF Writes, Order, Basic, Phases, Shape, Holders
<1>2. Storing(s, cur[s], u)
  BY <1>1 DEF Writes, Storing, Holds, Holders
<1>3. ASSUME NEW t \in Server, NEW f \in Fd, Storing(t, f, u) PROVE t = s /\ f = cur[s]
  <2>1. f \in Holders(t, u)
    BY <1>3, HoldsIsId DEF Storing
  <2>. QED  BY <1>1, <2>1, Alone
<1>. QED  BY <1>1, <1>2, <1>3

LEMMA Accounts == Keeps => AccountsAre
<1>. SUFFICES ASSUME Keeps, NEW u \in User
              PROVE  /\ \A s \in Server : Writes(s, u) => account[u] = Order(s).Record
                     /\ (\A s \in Server : ~Writes(s, u)) => account[u] = record[u]
  BY DEF AccountsAre
<1>1. account[u] = Account(u)
  BY DEF account
<1>2. ASSUME NEW s \in Server, Writes(s, u) PROVE Account(u) = Order(s).Record
  <2>1. /\ s \in WriteServer /\ cur[s] \in Fd /\ Storing(s, cur[s], u)
        /\ \A t \in Server, f \in Fd : Storing(t, f, u) => t = s /\ f = cur[s]
    BY <1>2, OneStores DEF Keeps
  <2>. DEFINE x == CHOOSE x \in WriteServer \X Fd : Storing(x[1], x[2], u)
  <2>2. <<s, cur[s]>> \in WriteServer \X Fd /\ Storing(<<s, cur[s]>>[1], <<s, cur[s]>>[2], u)
    BY <2>1
  <2>3. x \in WriteServer \X Fd /\ Storing(x[1], x[2], u)
    BY <2>2
  <2>4. x[1] \in Server /\ x[2] \in Fd
    BY <2>3 DEF Server
  <2>5. x[1] = s /\ x[2] = cur[s]
    BY <2>1, <2>3, <2>4
  <2>6. Account(u) = requestP[x[1]][x[2]].Record
    BY <2>2 DEF Account
  <2>. QED  BY <2>5, <2>6 DEF Order
<1>3. ASSUME \A s \in Server : ~Writes(s, u) PROVE Account(u) = record[u]
  <2>1. ASSUME NEW s \in Server, NEW f \in Fd PROVE ~Storing(s, f, u)
    BY <1>3 DEF Storing, Holds, Writes, Order
  <2>2. \A x \in WriteServer \X Fd : x[1] \in Server /\ x[2] \in Fd
    BY DEF Server
  <2>. QED  BY <2>1, <2>2 DEF Account
<1>. QED  BY <1>1, <1>2, <1>3

LEMMA Sessions == Keeps => SessionsAre
<1>. SUFFICES ASSUME Keeps, NEW u \in User, NEW s \in Server, NEW f \in Fd
              PROVE  /\ <<s, f>> \in readers[u] <=> s \in ReadServer /\ requestP[s][f].id = u
                     /\ <<s, f>> \in writers[u] <=> s \in WriteServer /\ requestP[s][f].id = u
  BY DEF SessionsAre
<1>1. Holds(s, f, u) <=> requestP[s][f].id = u
  BY HoldsIsId DEF Keeps, Holders
<1>2. /\ <<s, f>> \in readers[u] <=> s \in ReadServer /\ Holds(s, f, u)
      /\ <<s, f>> \in writers[u] <=> s \in WriteServer /\ Holds(s, f, u)
  BY DEF readers, writers, Users
<1>. QED  BY <1>1, <1>2

\* The same in the next state.
LEMMA AccountsNext == Keeps' => AccountsAre'
BY Accounts, PTL

LEMMA SessionsNext == Keeps' => SessionsAre'
BY Sessions, PTL

-----------------------------------------------------------------------------
(* What a step does to the ledger's variables.                             *)

\* No record changes, and what is being stored stays the same.
LEMMA AccountsKept ==
  ASSUME Keeps, Keeps', UNCHANGED record,
         \A s \in Server : /\ pc'[s] = "store" <=> pc[s] = "store"
                           /\ pc[s] = "store" => Order(s)' = Order(s)
  PROVE  UNCHANGED account
<1>1. ASSUME NEW u \in User PROVE account'[u] = account[u]
  <2>1. \A s \in Server : Writes(s, u)' <=> Writes(s, u)
    BY DEF Writes
  <2>2. CASE \E s \in Server : Writes(s, u)
    <3>1. PICK s \in Server : Writes(s, u)
      BY <2>2
    <3>2. Order(s)' = Order(s)
      BY <3>1 DEF Writes
    <3>. QED  BY <2>1, <3>1, <3>2, Accounts, AccountsNext DEF AccountsAre
  <2>3. CASE \A s \in Server : ~Writes(s, u)
    BY <2>1, <2>3, Accounts, AccountsNext DEF AccountsAre
  <2>. QED  BY <2>2, <2>3
<1>. QED  BY <1>1 DEF account

\* The next value of the sessions, connection by connection.
LEMMA SessionsBecome ==
  ASSUME Keeps', NEW R \in [User -> SUBSET Session], NEW W \in [User -> SUBSET Session],
         \A u \in User, s \in Server, f \in Fd :
           /\ <<s, f>> \in R[u] <=> s \in ReadServer /\ requestP'[s][f].id = u
           /\ <<s, f>> \in W[u] <=> s \in WriteServer /\ requestP'[s][f].id = u
  PROVE  readers' = R /\ writers' = W
<1>1. ASSUME NEW u \in User PROVE readers'[u] = R[u] /\ writers'[u] = W[u]
  <2>1. readers'[u] \subseteq Session /\ writers'[u] \subseteq Session
    BY DEF readers, writers, Users, Session, Server
  <2>2. \A x \in Session : x[1] \in Server /\ x[2] \in Fd /\ x = <<x[1], x[2]>>
    BY DEF Session
  <2>3. ASSUME NEW s \in Server, NEW f \in Fd
        PROVE  /\ <<s, f>> \in readers'[u] <=> <<s, f>> \in R[u]
               /\ <<s, f>> \in writers'[u] <=> <<s, f>> \in W[u]
    <3>1. /\ <<s, f>> \in readers'[u] <=> s \in ReadServer /\ requestP'[s][f].id = u
          /\ <<s, f>> \in writers'[u] <=> s \in WriteServer /\ requestP'[s][f].id = u
      BY SessionsNext DEF SessionsAre
    <3>2. /\ <<s, f>> \in R[u] <=> s \in ReadServer /\ requestP'[s][f].id = u
          /\ <<s, f>> \in W[u] <=> s \in WriteServer /\ requestP'[s][f].id = u
      OBVIOUS
    <3>. QED  BY <3>1, <3>2
  <2>4. \A x \in Session : /\ x \in readers'[u] <=> x \in R[u]
                           /\ x \in writers'[u] <=> x \in W[u]
    BY <2>2, <2>3
  <2>5. R[u] \subseteq Session /\ W[u] \subseteq Session
    OBVIOUS
  <2>. QED  BY <2>1, <2>4, <2>5
<1>2. readers' = [u \in User |-> readers'[u]] /\ writers' = [u \in User |-> writers'[u]]
  BY DEF readers, writers
<1>. QED  BY <1>1, <1>2

\* The sessions are functions on the users.
LEMMA SessionsFunctions ==
  readers \in [User -> SUBSET Session] /\ writers \in [User -> SUBSET Session]
BY DEF readers, writers, Users, Session, Server

\* No slot gets or loses a user.
LEMMA SessionsKept ==
  ASSUME Keeps, Keeps',
         \A s \in Server, f \in Fd : requestP'[s][f].id = requestP[s][f].id
  PROVE  UNCHANGED <<readers, writers>>
BY SessionsBecome, SessionsFunctions, Sessions DEF SessionsAre

\* A slot gets a user.
LEMMA SessionStarts ==
  ASSUME Keeps, Keeps', NEW s \in Server, NEW f \in Fd, NEW u \in User, SlotGets(s, f, u)
  PROVE  /\ Ledger!Idle(<<s, f>>)
         /\ s \in ReadServer => /\ readers' = [readers EXCEPT ![u] = @ \cup {<<s, f>>}]
                                /\ UNCHANGED writers
         /\ s \in WriteServer => /\ writers' = [writers EXCEPT ![u] = @ \cup {<<s, f>>}]
                                 /\ UNCHANGED readers
<1>1. \A v \in User : <<s, f>> \notin readers[v] \cup writers[v]
  BY Sessions, UserAssumption DEF SessionsAre, SlotGets
<1>2. \A t \in Server, g \in Fd :
        requestP'[t][g].id = IF t = s /\ g = f THEN u ELSE requestP[t][g].id
  BY DEF SlotGets
<1>3. <<s, f>> \in Session
  BY DEF Session
<1>4. CASE s \in ReadServer
  <2>. DEFINE R == [readers EXCEPT ![u] = @ \cup {<<s, f>>}]
  <2>1. R \in [User -> SUBSET Session]
    BY <1>3, SessionsFunctions
  <2>2. s \notin WriteServer
    BY <1>4, ServerAssumption
  <2>3. ASSUME NEW v \in User, NEW t \in Server, NEW g \in Fd
        PROVE  /\ <<t, g>> \in R[v] <=> t \in ReadServer /\ requestP'[t][g].id = v
               /\ <<t, g>> \in writers[v] <=> t \in WriteServer /\ requestP'[t][g].id = v
    <3>1. CASE t = s /\ g = f
      BY <1>1, <1>2, <1>4, <2>2, <3>1, SessionsFunctions
    <3>2. CASE t # s \/ g # f
      BY <1>2, <3>2, SessionsFunctions, Sessions DEF SessionsAre
    <3>. QED  BY <3>1, <3>2
  <2>. HIDE DEF R
  <2>4. readers' = R /\ writers' = writers
    BY <2>1, <2>3, SessionsBecome, SessionsFunctions
  <2>. QED  BY <1>1, <2>2, <2>4 DEF R, Ledger!Idle
<1>5. CASE s \in WriteServer
  <2>. DEFINE W == [writers EXCEPT ![u] = @ \cup {<<s, f>>}]
  <2>1. W \in [User -> SUBSET Session]
    BY <1>3, SessionsFunctions
  <2>2. s \notin ReadServer
    BY <1>5, ServerAssumption
  <2>3. ASSUME NEW v \in User, NEW t \in Server, NEW g \in Fd
        PROVE  /\ <<t, g>> \in readers[v] <=> t \in ReadServer /\ requestP'[t][g].id = v
               /\ <<t, g>> \in W[v] <=> t \in WriteServer /\ requestP'[t][g].id = v
    <3>1. CASE t = s /\ g = f
      BY <1>1, <1>2, <1>5, <2>2, <3>1, SessionsFunctions
    <3>2. CASE t # s \/ g # f
      BY <1>2, <3>2, SessionsFunctions, Sessions DEF SessionsAre
    <3>. QED  BY <3>1, <3>2
  <2>. HIDE DEF W
  <2>4. readers' = readers /\ writers' = W
    BY <2>1, <2>3, SessionsBecome, SessionsFunctions
  <2>. QED  BY <1>1, <2>2, <2>4 DEF W, Ledger!Idle
<1>. QED  BY <1>4, <1>5 DEF Server

\* Some slots are blanked.
LEMMA SessionsEnd ==
  ASSUME Keeps, Keeps', NEW X \in SUBSET Session,
         \A s \in Server, f \in Fd :
           requestP'[s][f].id = IF <<s, f>> \in X THEN NoUser ELSE requestP[s][f].id
  PROVE  Ledger!Leave(X)
<1>. DEFINE R == [u \in User |-> readers[u] \ X]
            W == [u \in User |-> writers[u] \ X]
<1>1. R \in [User -> SUBSET Session] /\ W \in [User -> SUBSET Session]
  BY SessionsFunctions
<1>2. ASSUME NEW u \in User, NEW s \in Server, NEW f \in Fd
      PROVE  /\ <<s, f>> \in R[u] <=> s \in ReadServer /\ requestP'[s][f].id = u
             /\ <<s, f>> \in W[u] <=> s \in WriteServer /\ requestP'[s][f].id = u
  BY UserAssumption, Sessions DEF SessionsAre
<1>. HIDE DEF R, W
<1>3. readers' = R /\ writers' = W
  BY <1>1, <1>2, SessionsBecome
<1>. QED  BY <1>3 DEF R, W, Ledger!Leave

-----------------------------------------------------------------------------
(* The steps.                                                              *)

\* Nothing of the ledger changes.
LEMMA Stutters ==
  ASSUME Keeps, Keeps', UNCHANGED record,
         \A s \in Server, f \in Fd : requestP'[s][f].id = requestP[s][f].id,
         \A s \in Server : /\ pc'[s] = "store" <=> pc[s] = "store"
                           /\ pc[s] = "store" => Order(s)' = Order(s)
  PROVE  UNCHANGED Ledger!vars
BY AccountsKept, SessionsKept DEF Ledger!vars

\* Sessions that end without having stored anything, or with all stored.
LEMMA Closes ==
  ASSUME NEW X \in SUBSET Session, Ledger!Leave(X), UNCHANGED account
  PROVE  Ledger!Next
BY DEF Ledger!Next, Ledger!Close

\* select, accept, failed reads, ignored lines, and what the clients do.
LEMMA LoopRefines ==
  ASSUME Keeps, Keeps', NEW s \in Server,
         \/ Select(s) \/ AcceptConnection(s) \/ AcceptAgain(s) \/ Restart(s)
         \/ \E f \in Fd : \/ ReadFails(s, f) \/ ReaderStays(s, f)
                          \/ Hangup(s, f) \/ BreakConnection(s, f)
  PROVE  UNCHANGED Ledger!vars
<1>1. UNCHANGED <<record, requestP, cur>>
  BY DEF Select, AcceptConnection, AcceptAgain, Restart, ReadFails, ReaderStays, Hangup,
         BreakConnection, shared, process
<1>2. \A t \in Server : pc'[t] = "store" <=> pc[t] = "store"
  <2>1. CASE Restart(s)
    BY <2>1 DEF Restart, Keeps, Basic, Shape
  <2>2. CASE UNCHANGED pc
    BY <2>2
  <2>. QED  BY <2>1, <2>2 DEF Select, AcceptConnection, AcceptAgain, ReadFails, ReaderStays,
                              Hangup, BreakConnection, process
<1>. QED  BY <1>1, <1>2, Stutters DEF Order

\* A client that is turned away had no session.
LEMMA TurningAwayRefines ==
  ASSUME Keeps, Keeps', NEW s \in Server, NEW f \in Fd,
         TurnAway(s, f) \/ \E u \in User : FindLocked(s, f, u)
  PROVE  UNCHANGED Ledger!vars
<1>1. /\ Identifying(s, f) /\ ConnectOff(s, f) /\ UNCHANGED <<record, pc, cur>>
  BY DEF TurnAway, FindLocked
<1>2. pc[s] = "scan" /\ requestP[s][f].id = NoUser
  <2>1. pc[s] = "scan" /\ ~requestP[s][f].wait
    BY <1>1 DEF Identifying, Turn
  <2>2. requestP[s][f].id \in User \cup {NoUser}
    BY DEF Keeps, Basic, Shape, Request
  <2>. QED  BY <2>1, <2>2 DEF Keeps, Basic, Slots
<1>3. \A t \in Server, g \in Fd :
        requestP'[t][g] = IF t = s /\ g = f THEN BlankRequest ELSE requestP[t][g]
  BY <1>1 DEF ConnectOff, Keeps, Basic, Shape
<1>4. \A t \in Server, g \in Fd : requestP'[t][g].id = requestP[t][g].id
  BY <1>2, <1>3 DEF BlankRequest
<1>5. ASSUME NEW t \in Server, pc[t] = "store" PROVE Order(t)' = Order(t)
  BY <1>1, <1>2, <1>3, <1>5 DEF Order, Keeps, Basic, Phases, Shape
<1>. QED  BY <1>1, <1>4, <1>5, Stutters

\* A lock that is granted starts a session of its kind, of someone who had none.
LEMMA LockingRefines ==
  ASSUME Keeps, Keeps', NEW s \in Server, NEW f \in Fd, NEW u \in User,
         LockForReading(s, f, u) \/ LockForWriting(s, f, u)
  PROVE  Ledger!Next
<1>1. /\ Identifying(s, f) /\ Lockable(s, u) /\ UNCHANGED record
      /\ pc' = [pc EXCEPT ![s] = "load"] /\ cur' = [cur EXCEPT ![s] = f]
  BY DEF LockForReading, LockForWriting
<1>2. pc[s] = "scan" /\ requestP[s][f].id = NoUser
  <2>1. pc[s] = "scan" /\ ~requestP[s][f].wait
    BY <1>1 DEF Identifying, Turn
  <2>2. requestP[s][f].id \in User \cup {NoUser}
    BY DEF Keeps, Basic, Shape, Request
  <2>. QED  BY <2>1, <2>2 DEF Keeps, Basic, Slots
<1>3. SlotGets(s, f, u)
  <2>1. requestP[s][f] \in Request
    BY DEF Keeps, Basic, Shape
  <2>2. \E r : r.id = u /\ requestP' = [requestP EXCEPT ![s][f] = r]
    <3>. DEFINE q == [requestP[s][f] EXCEPT !.id = u]
                r == [requestP[s][f] EXCEPT !.id = u, !.wait = TRUE]
    <3>1. q.id = u /\ r.id = u
      BY <2>1 DEF Request
    <3>2. \/ requestP' = [requestP EXCEPT ![s][f] = q]
          \/ requestP' = [requestP EXCEPT ![s][f] = r]
      BY DEF LockForReading, LockForWriting
    <3>. HIDE DEF q, r
    <3>. QED  BY <3>1, <3>2
  <2>3. PICK r : r.id = u /\ requestP' = [requestP EXCEPT ![s][f] = r]
    BY <2>2
  <2>4. requestP'[s][f].id = u
    BY <2>3 DEF Keeps, Basic, Shape
  <2>5. \A t \in Server, g \in Fd : t # s \/ g # f => requestP'[t][g] = requestP[t][g]
    BY <2>3 DEF Keeps, Basic, Shape
  <2>. QED  BY <1>2, <2>4, <2>5 DEF SlotGets
<1>4. UNCHANGED account
  <2>1. \A t \in Server : t # s => /\ pc'[t] = pc[t] /\ cur'[t] = cur[t]
                                   /\ requestP'[t] = requestP[t]
    BY <1>1 DEF LockForReading, LockForWriting, Keeps, Basic, Shape
  <2>2. pc'[s] = "load"
    BY <1>1 DEF Keeps, Basic, Shape
  <2>. QED  BY <1>1, <1>2, <2>1, <2>2, AccountsKept DEF Order
<1>5. \A t \in Server, g \in Fd :
        requestP[t][g].id = u => g \in Holders(t, u) /\ flock[u][t] = IF t \in ReadServer THEN "read" ELSE "write"
  BY DEF Holders, Keeps, Locks, Flocks
<1>6. CASE s \in ReadServer
  <2>1. ASSUME NEW t \in Server, NEW g \in Fd, t \in WriteServer PROVE requestP[t][g].id # u
    <3>1. t # s /\ t \notin ReadServer
      BY <1>6, <2>1, ServerAssumption
    <3>2. flock[u][t] # "write"
      BY <1>1, <1>6, <3>1 DEF Lockable, CanLock
    <3>. QED  BY <1>5, <3>1, <3>2
  <2>2. writers[u] = {}
    <3>1. \A t \in Server, g \in Fd : <<t, g>> \notin writers[u]
      <4>1. SessionsAre
        BY Sessions
      <4>2. \A t \in Server, g \in Fd :
              <<t, g>> \in writers[u] => t \in WriteServer /\ requestP[t][g].id = u
        BY <4>1 DEF SessionsAre
      <4>. QED  BY <2>1, <4>2
    <3>. QED  BY <3>1, SessionsTyped DEF Session
  <2>3. Ledger!Show(u, <<s, f>>)
    BY <1>3, <1>4, <1>6, <2>2, SessionStarts DEF Ledger!Show
  <2>. QED  BY <2>3 DEF Ledger!Next, Session
<1>7. CASE s \in WriteServer
  <2>0. s \notin ReadServer
    BY <1>7, ServerAssumption
  <2>1. ASSUME NEW t \in Server, NEW g \in Fd PROVE requestP[t][g].id # u
    <3>1. CASE t = s
      BY <1>1, <1>5, <1>7, <2>0, <3>1 DEF Lockable, Keeps, Locks, Marks
    <3>2. CASE t # s
      <4>1. flock[u][t] = "none"
        BY <1>1, <2>0, <3>2 DEF Lockable, CanLock
      <4>. QED  BY <1>5, <4>1
    <3>. QED  BY <3>1, <3>2
  <2>2. writers[u] = {} /\ readers[u] = {}
    <3>1. \A t \in Server, g \in Fd : <<t, g>> \notin writers[u] /\ <<t, g>> \notin readers[u]
      <4>1. SessionsAre
        BY Sessions
      <4>2. \A t \in Server, g \in Fd :
              <<t, g>> \in writers[u] \/ <<t, g>> \in readers[u] => requestP[t][g].id = u
        BY <4>1 DEF SessionsAre
      <4>. QED  BY <2>1, <4>2
    <3>. QED  BY <3>1, SessionsTyped DEF Session
  <2>3. writers' = [writers EXCEPT ![u] = {<<s, f>>}]
    <3>1. writers' = [writers EXCEPT ![u] = @ \cup {<<s, f>>}]
      BY <1>3, <1>7, SessionStarts
    <3>2. writers[u] \cup {<<s, f>>} = {<<s, f>>}
      BY <2>2
    <3>. QED  BY <3>1, <3>2
  <2>4. Ledger!Open(u, <<s, f>>)
    BY <1>3, <1>4, <1>7, <2>2, <2>3, SessionStarts DEF Ledger!Open
  <2>. QED  BY <2>4 DEF Ledger!Next, Session
<1>. QED  BY <1>6, <1>7 DEF Server

\* Showing the record to the client changes nothing more.
LEMMA LoadRefines ==
  ASSUME Keeps, Keeps', NEW s \in Server, LoadRecord(s)
  PROVE  UNCHANGED Ledger!vars
<1>1. pc[s] = "load" /\ UNCHANGED record /\ cur[s] \in Fd
  BY DEF LoadRecord, Keeps, Basic, Phases, Shape
<1>2. \A t \in Server : t # s => /\ pc'[t] = pc[t] /\ cur'[t] = cur[t]
                                 /\ requestP'[t] = requestP[t]
  BY DEF LoadRecord, Keeps, Basic, Shape
<1>3. pc'[s] = "scan"
  BY DEF LoadRecord, Keeps, Basic, Shape
<1>4. \A g \in Fd : requestP'[s][g].id = requestP[s][g].id
  <2>1. requestP[s][cur[s]] \in Request
    BY <1>1 DEF Keeps, Basic, Shape
  <2>2. \A R : [requestP[s][cur[s]] EXCEPT !.wait = TRUE, !.Record = R].id = requestP[s][cur[s]].id
    BY <2>1 DEF Request
  <2>3. requestP'[s] = [requestP[s] EXCEPT ![cur[s]] =
          [@ EXCEPT !.wait = TRUE, !.Record = record[requestP[s][cur[s]].id]]]
    BY DEF LoadRecord, Keeps, Basic, Shape
  <2>. QED  BY <1>1, <2>2, <2>3 DEF Keeps, Basic, Shape
<1>. QED  BY <1>1, <1>2, <1>3, <1>4, Stutters DEF Order

\* The new state of an accepted command is the old one with the command's
\* numbers added.
LEMMA AcceptedIsSum ==
  ASSUME NoOverflow, NEW b \in [Item -> Int32], Small(b), NEW d \in Command
  PROVE  NewState(b, d) = [i \in Item |-> b[i] + d[i]]
<1>1. ASSUME NEW i \in Item PROVE Plus(b[i], d[i]) = b[i] + d[i]
  <2>1. d \in [Item -> Int32] /\ Limit \in Nat /\ IntMax \in Nat
    BY DataAssumption, BoundAssumption
  <2>2. d[i] \in Int /\ b[i] \in 0..Limit
    BY <2>1 DEF Small, Int32
  <2>3. 3 * (Limit + d[i]) <= IntMax /\ 3 * d[i] >= -IntMax
    BY DEF NoOverflow
  <2>. QED  BY <2>1, <2>2, <2>3 DEF Plus
<1>. QED  BY <1>1 DEF NewState

\* A booking is a change of the account by the session that has it alone.
LEMMA BookRefines ==
  ASSUME NoOverflow, Keeps, Keeps', NEW s \in Server, NEW f \in Fd, NEW d \in Command,
         Book(s, f, d)
  PROVE  Ledger!Next
<1>. DEFINE b == requestP[s][f].Record
<1>0. PICK u \in User : u = requestP[s][f].id
  BY DEF Book, Waiting, Keeps, Basic, Slots
<1>1. /\ s \in WriteServer /\ f \in Holders(s, u) /\ pc[s] = "scan"
      /\ Accepted(b, d) /\ UNCHANGED record
  BY <1>0 DEF Book, Waiting, Turn, Holders
<1>2. requestP[s][f] \in Request /\ b \in [Item -> Int32]
  BY DEF Keeps, Basic, Shape, Request
<1>3. b = record[u] /\ Small(b)
  BY <1>1, ListenIsNoClient DEF Keeps, Shown, InLimit, SmallItems
<1>4. PICK n : n = NewState(b, d)
  OBVIOUS
<1>5. n = [i \in Item |-> record[u][i] + d[i]] /\ WithinLimit(n) /\ Small(n)
  BY <1>1, <1>2, <1>3, <1>4, AcceptedIsSum, AcceptedIsSmall
<1>6. \A t \in Server : Writes(t, u) => FALSE
  BY <1>1, OneStores, Alone DEF Keeps, Writes
<1>7. account[u] = record[u]
  BY <1>6, Accounts DEF AccountsAre
<1>8. /\ pc'[s] = "store" /\ cur'[s] = f
      /\ requestP'[s][f].Record = n /\ requestP'[s][f].id = u
      /\ \A t \in Server, g \in Fd : t # s \/ g # f => requestP'[t][g] = requestP[t][g]
      /\ \A t \in Server : t # s =>
           pc'[t] = pc[t] /\ cur'[t] = cur[t] /\ requestP'[t] = requestP[t]
  BY <1>0, <1>2, <1>4 DEF Book, Keeps, Basic, Shape, Request
<1>9. UNCHANGED <<readers, writers>>
  BY <1>0, <1>8, SessionsKept
<1>10. account' = [account EXCEPT ![u] = n]
  <2>1. account'[u] = n
    BY <1>8, AccountsNext DEF AccountsAre, Writes, Order
  <2>2. ASSUME NEW v \in User, v # u PROVE account'[v] = account[v]
    <3>1. \A t \in Server : Writes(t, v)' <=> Writes(t, v)
      BY <1>1, <1>8, <2>2 DEF Writes, Order
    <3>2. CASE \E t \in Server : Writes(t, v)
      <4>1. PICK t \in Server : Writes(t, v)
        BY <3>2
      <4>2. t # s
        BY <1>1, <4>1 DEF Writes
      <4>. QED  BY <1>8, <3>1, <4>1, <4>2, Accounts, AccountsNext DEF AccountsAre, Order
    <3>3. CASE \A t \in Server : ~Writes(t, v)
      BY <1>1, <3>1, <3>3, Accounts, AccountsNext DEF AccountsAre
    <3>. QED  BY <3>2, <3>3
  <2>3. account = [v \in User |-> account[v]] /\ account' = [v \in User |-> account'[v]]
    BY DEF account
  <2>. QED  BY <2>1, <2>2, <2>3
<1>11. writers[u] = {<<s, f>>}
  <2>1. <<s, f>> \in writers[u]
    BY <1>1, Sessions DEF SessionsAre, Holders
  <2>2. ASSUME NEW t \in Server, NEW g \in Fd, <<t, g>> \in writers[u] PROVE t = s /\ g = f
    <3>1. g \in Holders(t, u)
      BY <2>2, Sessions DEF SessionsAre, Holders
    <3>. QED  BY <1>1, <3>1, Alone DEF Keeps
  <2>. QED  BY <2>1, <2>2, SessionsTyped DEF Session
<1>12. n \in [Item -> 0..Limit] /\ Ledger!Balanced(n)
  BY <1>5, BoundAssumption DEF Small, WithinLimit, Total, Ledger!Balanced
<1>13. Ledger!Change(u, <<s, f>>)
  BY <1>5, <1>7, <1>9, <1>10, <1>11, <1>12 DEF Ledger!Change, Ledger!Item, Item
<1>. QED  BY <1>13 DEF Ledger!Next, Session

\* Each of the three writes brings the file closer to what the ledger holds.
LEMMA StoreRefines ==
  ASSUME Keeps, Keeps', NEW s \in Server, StoreItem(s)
  PROVE  UNCHANGED Ledger!vars
<1>1. UNCHANGED <<pc, requestP, cur>> /\ pc[s] = "store"
  BY DEF StoreItem
<1>2. PICK u \in User : u = Order(s).id
  BY <1>1 DEF Keeps, Basic, Phases, Order
<1>3. \A t \in Server, v \in User : (Writes(t, v)' <=> Writes(t, v)) /\ Order(t)' = Order(t)
  BY <1>1 DEF Writes, Order
<1>4. Writes(s, u)
  BY <1>1, <1>2 DEF Writes
<1>5. \A v \in User : v # u => record'[v] = record[v]
  BY <1>2 DEF StoreItem, Keeps, Basic, Shape, Order
<1>6. ASSUME NEW v \in User PROVE account'[v] = account[v]
  <2>1. CASE \E t \in Server : Writes(t, v)
    BY <1>3, <2>1, Accounts, AccountsNext DEF AccountsAre
  <2>2. CASE \A t \in Server : ~Writes(t, v)
    <3>1. record'[v] = record[v]
      BY <1>4, <1>5, <2>2
    <3>. QED  BY <1>3, <2>2, <3>1, Accounts, AccountsNext DEF AccountsAre
  <2>. QED  BY <2>1, <2>2
<1>7. UNCHANGED account
  BY <1>6 DEF account
<1>. QED  BY <1>1, <1>7, SessionsKept DEF Ledger!vars

\* A client that leaves, or whose command is refused, ends its session.
LEMMA LeavingRefines ==
  ASSUME Keeps, Keeps', NEW s \in Server, NEW f \in Fd,
         ReaderLeaves(s, f) \/ WriterLeaves(s, f)
  PROVE  Ledger!Next
<1>1. ConnectOff(s, f) /\ pc[s] = "scan" /\ UNCHANGED <<record, pc, cur>>
  BY DEF ReaderLeaves, WriterLeaves, EndWrite, Waiting, Turn
<1>2. \A t \in Server, g \in Fd :
        requestP'[t][g] = IF t = s /\ g = f THEN BlankRequest ELSE requestP[t][g]
  BY <1>1 DEF ConnectOff, Keeps, Basic, Shape
<1>3. ASSUME NEW t \in Server, pc[t] = "store" PROVE Order(t)' = Order(t)
  BY <1>1, <1>2, <1>3 DEF Order, Keeps, Basic, Phases, Shape
<1>4. UNCHANGED account
  BY <1>1, <1>3, AccountsKept
<1>5. {<<s, f>>} \in SUBSET Session
  BY DEF Session
<1>6. Ledger!Leave({<<s, f>>})
  BY <1>2, <1>5, SessionsEnd DEF BlankRequest
<1>. QED  BY <1>4, <1>5, <1>6, Closes

\* A process's last store is over, or the process itself is: some of its
\* sessions end, and what it was storing is judged by what the file now holds.
LEMMA AccountsFallBack ==
  ASSUME Keeps, Keeps', NEW s \in Server, UNCHANGED record, pc'[s] # "store",
         \A t \in Server : t # s =>
           pc'[t] = pc[t] /\ cur'[t] = cur[t] /\ requestP'[t] = requestP[t]
  PROVE  \A u \in User :
           account'[u] = IF Writes(s, u) THEN record[u] ELSE account[u]
<1>. SUFFICES ASSUME NEW u \in User
              PROVE  account'[u] = IF Writes(s, u) THEN record[u] ELSE account[u]
  OBVIOUS
<1>1. /\ ~Writes(s, u)'
      /\ \A t \in Server : t # s => (Writes(t, u)' <=> Writes(t, u)) /\ Order(t)' = Order(t)
  BY DEF Writes, Order
<1>2. CASE Writes(s, u)
  <2>1. ASSUME NEW t \in Server, t # s PROVE ~Writes(t, u)
    <3>1. SUFFICES ASSUME Writes(t, u) PROVE FALSE
      OBVIOUS
    <3>2. Storing(t, cur[t], u) /\ cur[t] \in Fd
      BY <3>1, OneStores DEF Keeps
    <3>. QED  BY <1>2, <2>1, <3>2, OneStores DEF Keeps
  <2>2. \A t \in Server : ~Writes(t, u)'
    BY <1>1, <2>1
  <2>. QED  BY <1>2, <2>2, AccountsNext DEF AccountsAre
<1>3. CASE ~Writes(s, u) /\ \E t \in Server : Writes(t, u)
  <2>1. PICK t \in Server : Writes(t, u)
    BY <1>3
  <2>. QED  BY <1>1, <1>3, <2>1, Accounts, AccountsNext DEF AccountsAre
<1>4. CASE \A t \in Server : ~Writes(t, u)
  <2>1. \A t \in Server : ~Writes(t, u)'
    BY <1>1, <1>4
  <2>. QED  BY <1>4, <2>1, Accounts, AccountsNext DEF AccountsAre
<1>. QED  BY <1>2, <1>3, <1>4

\* When all three numbers are stored the session ends: the file holds what the
\* account has held since the booking.
LEMMA FinishRefines ==
  ASSUME Keeps, Keeps', NEW s \in Server, FinishStore(s)
  PROVE  Ledger!Next
<1>1. pc[s] = "store" /\ k[s] = 3 /\ UNCHANGED record /\ pc'[s] = "scan"
  BY DEF FinishStore, Keeps, Basic, Shape
<1>2. /\ \A t \in Server : t # s =>
           pc'[t] = pc[t] /\ cur'[t] = cur[t] /\ requestP'[t] = requestP[t]
      /\ \A t \in Server, g \in Fd :
           requestP'[t][g] = IF t = s /\ g = cur[s] THEN BlankRequest ELSE requestP[t][g]
  BY <1>1 DEF FinishStore, EndWrite, ConnectOff, Keeps, Basic, Shape, Phases
<1>3. ASSUME NEW u \in User, Writes(s, u) PROVE record[u] = account[u]
  <2>1. account[u] = Order(s).Record
    BY <1>3, Accounts DEF AccountsAre
  <2>2. \A i \in Item : record[u][i] = Order(s).Record[i]
    BY <1>1, <1>3 DEF Keeps, InLimit, Progress, Writes, Item
  <2>3. record[u] \in [Item -> Int32]
    BY DEF Keeps, Basic, Shape
  <2>4. Order(s).Record \in [Item -> Int32]
    <3>1. cur[s] \in Fd
      BY <1>3, OneStores DEF Keeps
    <3>. QED  BY <3>1 DEF Order, Keeps, Basic, Shape, Request
  <2>. QED  BY <2>1, <2>2, <2>3, <2>4
<1>4. \A u \in User : account'[u] = account[u]
  BY <1>1, <1>2, <1>3, AccountsFallBack
<1>5. UNCHANGED account
  BY <1>4 DEF account
<1>6. {<<s, cur[s]>>} \in SUBSET Session
  BY <1>1 DEF Session, Keeps, Basic, Shape, Phases
<1>7. Ledger!Leave({<<s, cur[s]>>})
  BY <1>2, <1>6, SessionsEnd DEF BlankRequest
<1>. QED  BY <1>5, <1>6, <1>7, Closes

\* A process that ends closes all its sessions; if it was storing, the booking
\* is cut off and the numbers already written are what the account now holds.
LEMMA ExitRefines ==
  ASSUME Keeps, Keeps', NEW s \in Server, Exit(s)
  PROVE  Ledger!Next
<1>1. PICK X : X = {x \in Session : x[1] = s}
  OBVIOUS
<1>2. UNCHANGED record /\ pc'[s] = "down"
  BY DEF Exit, Keeps, Basic, Shape
<1>3. /\ \A t \in Server : t # s =>
           pc'[t] = pc[t] /\ cur'[t] = cur[t] /\ requestP'[t] = requestP[t]
      /\ \A t \in Server, g \in Fd :
           requestP'[t][g] = IF t = s THEN BlankRequest ELSE requestP[t][g]
  BY DEF Exit, Keeps, Basic, Shape
<1>4. \A u \in User : account'[u] = IF Writes(s, u) THEN record[u] ELSE account[u]
  BY <1>2, <1>3, AccountsFallBack
<1>5. Ledger!Leave(X)
  <2>1. \A t \in Server, g \in Fd : <<t, g>> \in X <=> t = s
    BY <1>1 DEF Session
  <2>2. X \in SUBSET Session
    BY <1>1
  <2>. QED  BY <1>3, <2>1, <2>2, SessionsEnd DEF BlankRequest
<1>6. account = [v \in User |-> account[v]] /\ account' = [v \in User |-> account'[v]]
  BY DEF account
<1>7. CASE \E u \in User : Writes(s, u)
  <2>1. PICK u \in User : Writes(s, u)
    BY <1>7
  <2>2. \A v \in User : v # u => ~Writes(s, v)
    BY <2>1 DEF Writes
  <2>3. account' = [account EXCEPT ![u] = record[u]]
    BY <1>4, <1>6, <2>1, <2>2
  <2>4. record[u] \in [Item -> 0..Limit]
    BY DEF Keeps, InLimit, SmallItems, Small, Basic, Shape
  <2>5. /\ s \in WriteServer /\ cur[s] \in Fd /\ cur[s] \in Holders(s, u)
        /\ requestP[s][cur[s]].id = u
    BY <2>1, OneStores DEF Keeps, Holders
  <2>6. <<s, cur[s]>> \in X /\ <<s, cur[s]>> \in Session
    BY <1>1, <2>5 DEF Session
  <2>7. writers[u] = {<<s, cur[s]>>}
    <3>1. <<s, cur[s]>> \in writers[u]
      BY <2>5, Sessions DEF SessionsAre
    <3>2. ASSUME NEW t \in Server, NEW g \in Fd, <<t, g>> \in writers[u]
          PROVE  t = s /\ g = cur[s]
      <4>1. g \in Holders(t, u)
        BY <3>2, Sessions DEF SessionsAre, Holders
      <4>. QED  BY <2>5, <4>1, Alone DEF Keeps
    <3>. QED  BY <3>1, <3>2, SessionsTyped DEF Session
  <2>8. Ledger!Cut(u, <<s, cur[s]>>, X)
    BY <1>5, <2>3, <2>4, <2>6, <2>7 DEF Ledger!Cut, Ledger!Item, Item
  <2>9. X \in SUBSET Session
    BY <1>1
  <2>. QED  BY <2>6, <2>8, <2>9 DEF Ledger!Next
<1>8. CASE \A u \in User : ~Writes(s, u)
  <2>1. UNCHANGED account
    BY <1>4, <1>6, <1>8
  <2>2. X \in SUBSET Session
    BY <1>1
  <2>. QED  BY <1>5, <2>1, <2>2, Closes
<1>. QED  BY <1>7, <1>8

\* At the start the accounts are what the file holds, and nobody uses them.
LEMMA InitRefines == Init /\ Keeps => Ledger!Init
<1>. SUFFICES ASSUME Init, Keeps PROVE Ledger!Init
  OBVIOUS
<1>1. \A u \in User : account[u] = record[u]
  BY Accounts DEF AccountsAre, Writes, Init
<1>2. account = record
  BY <1>1 DEF account, Init
<1>3. InitialState \subseteq {b \in [Item -> 0..Limit] : Ledger!Balanced(b)}
  BY DataAssumption DEF Ledger!Balanced
<1>4. account \in [User -> {b \in [Item -> 0..Limit] : Ledger!Balanced(b)}]
  BY <1>2, <1>3 DEF Init
<1>5. ASSUME NEW u \in User PROVE readers[u] = {} /\ writers[u] = {}
  <2>1. \A s \in Server, f \in Fd : requestP[s][f].id # u
    BY UserAssumption DEF Init, BlankRequest
  <2>2. SessionsAre
    BY Sessions
  <2>3. ASSUME NEW s \in Server, NEW f \in Fd
        PROVE  <<s, f>> \notin readers[u] /\ <<s, f>> \notin writers[u]
    <3>1. requestP[s][f].id # u
      BY <2>1
    <3>2. /\ <<s, f>> \in readers[u] <=> s \in ReadServer /\ requestP[s][f].id = u
          /\ <<s, f>> \in writers[u] <=> s \in WriteServer /\ requestP[s][f].id = u
      BY <2>2 DEF SessionsAre
    <3>. QED  BY <3>1, <3>2
  <2>. QED  BY <2>3, SessionsTyped DEF Session
<1>6. readers = [u \in User |-> {}] /\ writers = [u \in User |-> {}]
  BY <1>5 DEF readers, writers
<1>. QED  BY <1>4, <1>6 DEF Ledger!Init, Ledger!Item, Item

\* Every step of every process and client is a step of the ledger or changes
\* nothing there.
LEMMA StepRefines ==
  NoOverflow /\ Keeps /\ Keeps' /\ [Next]_vars => [Ledger!Next]_(Ledger!vars)
<1>. SUFFICES ASSUME NoOverflow, Keeps, Keeps', [Next]_vars
              PROVE  [Ledger!Next]_(Ledger!vars)
  OBVIOUS
<1>1. CASE UNCHANGED vars
  BY <1>1, Stutters DEF vars, Order
<1>2. CASE Next
  BY <1>2, LoopRefines, TurningAwayRefines, LockingRefines, LoadRefines, BookRefines,
     StoreRefines, LeavingRefines, FinishRefines, ExitRefines
  DEF Next, Serve, Handle, Die, AcceptFails
<1>. QED  BY <1>1, <1>2

-----------------------------------------------------------------------------
\* In every behaviour of any number of processes, on any number of records and
\* connections, with processes that die and restart at any time and as long as
\* no sum overflows an int, the service is the ledger: people look at an account
\* together or one of them changes it alone, an accepted command is applied to
\* what the account holds at that moment, and only a process that dies while it
\* stores leaves a mixture behind.
THEOREM ServiceKeepsPromise == NoOverflow /\ Spec => ImplementsLedger
<1>. SUFFICES ASSUME NoOverflow PROVE Spec => ImplementsLedger
  OBVIOUS
<1>1. Init => Shown /\ InLimit
  BY ShownInit, InLimitInit
<1>2. Basic /\ Locks /\ (Shown /\ InLimit) /\ [Next]_vars => (Shown /\ InLimit)'
  BY ShownStep, InLimitStep
<1>3. Spec => []Keeps
  BY <1>1, <1>2, BasicAndLocks, PTL DEF Spec, Keeps
<1>4. Keeps /\ Keeps' /\ [Next]_vars => [Ledger!Next]_(Ledger!vars)
  BY StepRefines
<1>. QED  BY <1>3, <1>4, InitRefines, PTL DEF Spec, ImplementsLedger, Ledger!Spec
=============================================================================
