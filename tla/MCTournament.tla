---------------------------- MODULE MCTournament ----------------------------
(* Instances of Tournament for TLC.                                        *)
EXTENDS TournamentOnPaper, TournamentTables, Sequences

-----------------------------------------------------------------------------
(* A small tree, for every interleaving.  Three players: 0 and 1 meet in D, *)
(* the winner meets 2 in B, the losers of both meet in C, and the winners   *)
(* of B and C in A.                                                         *)
SmallTree == A :> <<B, C>> @@ B :> <<D, 2>> @@ C :> <<8, 9>> @@ D :> <<0, 1>>
SmallField == A :> "FIRE" @@ B :> "GRASS" @@ C :> "FIRE" @@ D :> "WATER"
SmallAgents == A :> NoAgent @@ B :> 9 @@ C :> NoAgent @@ D :> 8

Weak == [HP |-> 1, ATK |-> 1, attr |-> "FIRE"]
Tough == [HP |-> 4, ATK |-> 1, attr |-> "GRASS"]
Sharp == [HP |-> 3, ATK |-> 2, attr |-> "WATER"]

SmallLineup == [0..2 -> {Weak, Tough, Sharp}]

-----------------------------------------------------------------------------
(* The tree of the program.  Its 29 processes have too many interleavings; *)
(* every pipe and FIFO has one writer and one reader that waits, so one    *)
(* schedule reaches the results of all.  This one runs the first process   *)
(* that can go on, battles before players.                                 *)
RealLineup ==
  {player_status} \cup {f \in [0..7 -> {Tough, Sharp}] : f[0] = Tough /\ f[5] = Sharp}

Order == <<A, B, C, D, E, F, G, H, I, J, K, L, M, N, 0, 1, 2, 3, 4, 5, 6, 7, 8, 9, 10, 11,
           12, 13, 14>>

NextInOrder ==
  \E i \in 1..Len(Order) : /\ Step(Order[i])
                           /\ \A j \in 1..(i - 1) : ~ENABLED Step(Order[j])

OrderSpec == Init /\ [][NextInOrder]_vars /\ WF_vars(NextInOrder)
=============================================================================
