--------------------------- MODULE TournamentTables -------------------------
(***************************************************************************)
(* The tables of battle.c and player.c: fourteen battles, eight players    *)
(* and seven agents, and the players of player_status.txt.                 *)
(***************************************************************************)
EXTENDS Integers, TLC

CONSTANTS A, B, C, D, E, F, G, H, I, J, K, L, M, N   \* battles

Letter == {A, B, C, D, E, F, G, H, I, J, K, L, M, N}

\* The children of a battle.
tar_id_table ==
  A :> <<B, C>> @@ B :> <<D, E>> @@ C :> <<F, 14>> @@ D :> <<G, H>> @@
  E :> <<I, J>> @@ F :> <<K, L>> @@ G :> <<0, 1>>  @@ H :> <<2, 3>> @@
  I :> <<4, 5>> @@ J :> <<6, 7>> @@ K :> <<M, 10>> @@ L :> <<N, 13>> @@
  M :> <<8, 9>> @@ N :> <<11, 12>>

field_table ==
  [b \in Letter |-> CASE b \in {A, E, F, G, M} -> "FIRE"
                      [] b \in {B, H, J, K, L} -> "GRASS"
                      [] b \in {C, D, I, N}    -> "WATER"]

\* The agent to which the loser of a battle goes.
agent_table ==
  (B :> 14 @@ D :> 10 @@ E :> 13 @@ G :> 8 @@ H :> 11 @@ I :> 9 @@ J :> 12)
    @@ [b \in Letter |-> -1]

\* The parents that battles, players and agents name in their logs.
par_id ==
  B :> A @@ C :> A @@ D :> B @@ E :> B @@ F :> C @@ G :> D @@ H :> D @@ I :> E @@
  J :> E @@ K :> F @@ L :> F @@ M :> K @@ N :> L
nextbid ==
  0 :> G @@ 1 :> G @@ 2 :> H @@ 3 :> H @@ 4 :> I @@ 5 :> I @@ 6 :> J @@ 7 :> J @@
  8 :> M @@ 9 :> M @@ 10 :> K @@ 11 :> N @@ 12 :> N @@ 13 :> L @@ 14 :> C

\* The tables agree on who belongs to whom.
ASSUME ParentsAssumption ==
  /\ \A b \in DOMAIN par_id : \E i \in 1..2 : tar_id_table[par_id[b]][i] = b
  /\ \A p \in DOMAIN nextbid : \E i \in 1..2 : tar_id_table[nextbid[p]][i] = p

\* player_status.txt.  Its column battle_id is nextbid.
player_status ==
  LET line(hp, atk, attr) == [HP |-> hp, ATK |-> atk, attr |-> attr]
  IN 0 :> line(7, 2, "FIRE")   @@ 1 :> line(8, 3, "GRASS") @@ 2 :> line(4, 4, "FIRE") @@
     3 :> line(1, 4, "GRASS")  @@ 4 :> line(12, 2, "WATER") @@ 5 :> line(3, 4, "GRASS") @@
     6 :> line(7, 3, "WATER")  @@ 7 :> line(10, 2, "WATER")
=============================================================================
