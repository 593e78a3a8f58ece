------------------------------ MODULE MCBooking -----------------------------
(* Instances of BookingServers and BookingRefinement for TLC.              *)
EXTENDS BookingRefinement, TLC

\* Bookings and commands that reach the limit, move items, cancel and overbook.
SmallStates == {<<0, 1, 0>>}
SmallCommands == {<<0, -1, 1>>, <<0, 2, 0>>}

\* A record at its limit and a command that moves its bookings elsewhere.
FullStates == {<<0, 2, 0>>}
MoveCommands == {<<2, -2, 0>>}

\* The same, and a command that there is no room for.
MoreCommands == {<<2, -2, 0>>, <<0, 0, 1>>}

\* A command whose sum does not fit an int.
HugeCommands == {<<IntMax, IntMax - 1, Limit + 2>>}

\* Read servers with two connections, write servers with one.
ReadersTwice == [s \in Server |-> IF s \in ReadServer THEN 2 ELSE 1]
OneEach == [s \in Server |-> 1]
\* Of two write servers one has two connections, the other one.
OneTwice == [s \in Server |-> IF s = CHOOSE w \in WriteServer : TRUE THEN 2 ELSE 1]

\* Records differ in nothing but their user.
Symmetry == Permutations(User)
=============================================================================
