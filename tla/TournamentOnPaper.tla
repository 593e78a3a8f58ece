-------------------------- MODULE TournamentOnPaper -------------------------
(***************************************************************************)
(* What the processes of Tournament bring about: the tournament that one   *)
(* would work out with pencil and paper, battle by battle.                 *)
(***************************************************************************)
EXTENDS TournamentProperties

-----------------------------------------------------------------------------
(* Pencil and paper.                                                       *)

\* A battle between two Status, round by round.
Rounds(b, s) ==
  LET round[n \in Nat] == IF n = 0 THEN s ELSE Fight(b, round[n - 1])
  IN  round

Dead(s) == s[1].HP <= 0 \/ s[2].HP <= 0

\* A whole battle ends with the round in which one of them dies.  Each round
\* costs them a point at least.
Duel(b, s) ==
  LET round == Rounds(b, s)
      last == CHOOSE n \in 1..(s[1].HP + s[2].HP) :
                Dead(round[n]) /\ \A m \in 1..(n - 1) : ~Dead(round[m])
  IN  round[last]

Lost(s) == CHOOSE i \in 1..2 : s[i].HP <= 0

\* The battle whose loser an agent takes over.
Source(a) == CHOOSE b \in Battle : agent[b] = a

\* Whose first Status in the parent's battle is settled, when the battles on
\* sheet are.
Known(sheet, p) ==
  \/ p \in Real
  \/ p \in Battle /\ p \in DOMAIN sheet
  \/ p \in Agent /\ \E b \in DOMAIN sheet : agent[b] = p

\* How the winner of a battle goes on, and how its loser does in the losers'
\* bracket.
WinnerOf(first, s) ==
  LET w == s[3 - Lost(s)]
  IN  [w EXCEPT !.HP = w.HP + (first[w.real_player_id].HP - w.HP) \div 2,
                !.battle_ended_flag = FALSE]
LoserOf(first, s) ==
  LET l == s[Lost(s)]
  IN  [l EXCEPT !.HP = first[l.real_player_id].HP, !.battle_ended_flag = FALSE]

\* With what Status a process enters its parent's battle: a player as
\* player_status.txt says, the winner of a battle after it has recovered, and
\* an agent as the loser of its battle at full health.
Enters(first, sheet, p) ==
  CASE p \in Real -> first[p]
    [] p \in Battle -> WinnerOf(first, sheet[p])
    [] p \in Agent -> LoserOf(first, sheet[Source(p)])

Entrants(first, sheet, b) ==
  <<Enters(first, sheet, tar_id[b][1]), Enters(first, sheet, tar_id[b][2])>>

\* What can be added to a sheet: the battles whose two entrants are known.
Ready(sheet) ==
  {b \in Battle : Known(sheet, tar_id[b][1]) /\ Known(sheet, tar_id[b][2])}
Filled(first, sheet) ==
  [b \in DOMAIN sheet \cup Ready(sheet) |->
     IF b \in DOMAIN sheet THEN sheet[b] ELSE Duel(b, Entrants(first, sheet, b))]

\* The sheet of the whole tournament.
Sheet(first) ==
  LET sheet[n \in Nat] == IF n = 0 THEN <<>> ELSE Filled(first, sheet[n - 1])
  IN  sheet[Cardinality(Battle)]

\* How the players come in.  This never changes.
First ==
  [p \in Real |-> [stat[p] EXCEPT !.HP = full_hp[p], !.current_battle_id = Parent(p),
                                  !.battle_ended_flag = FALSE]]

Paper == Sheet(First)

-----------------------------------------------------------------------------
(* Properties.                                                             *)

\* Every battle ends as the battle between the right two, with the HP they
\* have then, ends on paper: no Status is stale, mixed up between the children
\* of a relay, or read at the end of a stream.  The root announces the winner of
\* the last battle on paper.
ResultsAreRight ==
  /\ \A b \in Battle : pc[b] = "wait" => b \in DOMAIN Paper /\ player[b] = Paper[b]
  /\ champion # NoPlayer => LET s == Paper[Root]
                            IN  champion = s[3 - Lost(s)].real_player_id

=============================================================================
