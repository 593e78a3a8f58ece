------------------------------ MODULE Tournament ----------------------------
(***************************************************************************)
(* The tournament of hw2: a tree of processes, with battles (battle.c)     *)
(* inside and players and agents (player.c) at the leaves.  A process and  *)
(* its parent are connected by two pipes.  A player that loses in the      *)
(* winners' bracket hands its Status to an agent in the losers' bracket    *)
(* through a FIFO.                                                         *)
(*                                                                         *)
(* A message is a Status.  Log files are left out, and so are the process  *)
(* numbers and parents' names that only they contain.                      *)
(***************************************************************************)
EXTENDS Integers, FiniteSets, Sequences

CONSTANTS
  Battle,    \* battle processes
  Real,      \* the players of player_status.txt, their numbers
  Agent,     \* the agents, their numbers
  Root,      \* the battle that has no parent, "A"
  tar_id,    \* for every battle its two children
  field,     \* for every battle the attribute that doubles the attack
  agent,     \* for every battle the agent that takes its loser over
  Lineup     \* what player_status.txt may say: a set of functions on Real

NoAgent == -1
Player == Real \cup Agent
Process == Battle \cup Player
Attribute == {"FIRE", "GRASS", "WATER"}

ASSUME TreeAssumption ==
  /\ Root \in Battle
  /\ tar_id \in [Battle -> [1..2 -> Process]]
  /\ \A b, c \in Battle, i, j \in 1..2 : tar_id[b][i] = tar_id[c][j] => b = c /\ i = j
  /\ {tar_id[b][i] : b \in Battle, i \in 1..2} = Process \ {Root}
ASSUME BattleAssumption == IsFiniteSet(Battle)
ASSUME NumberAssumption == Real \subseteq Nat /\ Agent \subseteq Nat
ASSUME NameAssumption ==
  /\ Battle \cap Player = {}
  /\ Real \cap Agent = {}
ASSUME TableAssumption ==
  /\ field \in [Battle -> Attribute]
  /\ agent \in [Battle -> Agent \cup {NoAgent}]
\* No agent waits for the losers of two battles.
ASSUME AgentAssumption ==
  \A b, c \in Battle : agent[b] = agent[c] /\ agent[b] # NoAgent => b = c
\* Players play on in battles whose losers an agent takes over, up to the root.
ASSUME BracketAssumption ==
  \A b \in Battle \ {Root}, i \in 1..2 :
    LET c == tar_id[b][i] IN
      c \in Real \/ (c \in Battle /\ agent[c] # NoAgent) => agent[b] # NoAgent
ASSUME LineupAssumption ==
  Lineup \subseteq [Real -> [HP : Nat \ {0}, ATK : Nat \ {0}, attr : Attribute]]

Status == [real_player_id : Real, HP : Int, ATK : Nat, attr : Attribute,
           current_battle_id : Battle, battle_ended_flag : BOOLEAN]

VARIABLES
  pc,        \* what every process does next
  player,    \* the two Status of a battle
  loser,     \* which of them lost
  stat,      \* the Status of a player or agent
  full_hp,   \* its HP at full health
  up,        \* the pipe from a process to its parent
  down,      \* the pipe from its parent to a process
  fifo,      \* the FIFO of an agent
  reaped,    \* processes whose parent has waited for them
  champion   \* whom the root has announced

vars == <<pc, player, loser, stat, full_hp, up, down, fifo, reaped, champion>>

NoStatus == [real_player_id |-> -1]
NoPlayer == -1

-----------------------------------------------------------------------------
(* Battles.                                                                *)

\* What a child does first.
Entry(p) == IF p \in Battle THEN "fork" ELSE IF p \in Real THEN "send" ELSE "open"

\* main of battle.c makes the pipes and forks the two children.
Fork(b) ==
  /\ pc[b] = "fork"
  /\ pc' = [p \in Process |-> IF p = b THEN "first"
                              ELSE IF p \in {tar_id[b][1], tar_id[b][2]} THEN Entry(p)
                              ELSE pc[p]]
  /\ UNCHANGED <<player, loser, stat, full_hp, up, down, fifo, reaped, champion>>

\* It reads the Status of the first child, then that of the second.
ReadFirst(b) ==
  LET c == tar_id[b][1] IN
    /\ pc[b] = "first"
    /\ up[c] # <<>>
    /\ player' = [player EXCEPT ![b][1] = Head(up[c])]
    /\ up' = [up EXCEPT ![c] = Tail(up[c])]
    /\ pc' = [pc EXCEPT ![b] = "second"]
    /\ UNCHANGED <<loser, stat, full_hp, down, fifo, reaped, champion>>

Damage(b, s) == IF s.attr = field[b] THEN 2 * s.ATK ELSE s.ATK

\* Who strikes first: the one with less HP, of equals the one with the smaller
\* number.
Striker(s) ==
  IF \/ s[1].HP < s[2].HP
     \/ s[1].HP = s[2].HP /\ s[1].real_player_id < s[2].real_player_id
  THEN 1 ELSE 2

\* One round between s[1] and s[2]: a strike, and one back if there is still
\* somebody to strike.
Fight(b, s) ==
  LET i == Striker(s)
      j == 3 - i
      struck == s[j].HP - Damage(b, s[i])
      back == IF struck > 0 THEN s[i].HP - Damage(b, s[j]) ELSE s[i].HP
      after(k) == [s[k] EXCEPT !.HP = IF k = i THEN back ELSE struck,
                               !.current_battle_id = b,
                               !.battle_ended_flag = @ \/ struck <= 0 \/ back <= 0]
  IN <<after(1), after(2)>>

\* Mutant: both Status go to the first child.
ToldFirst(b, s) == [down EXCEPT ![tar_id[b][1]] = @ \o s]

\* Each child is told its own Status.
Told(b, s) == [down EXCEPT ![tar_id[b][1]] = Append(@, s[1]), ![tar_id[b][2]] = Append(@, s[2])]

\* The second Status arrives, the round is fought and both children are told.
Round(b) ==
  LET c == tar_id[b][2]
      s == Fight(b, [player[b] EXCEPT ![2] = Head(up[c])])
  IN /\ pc[b] = "second"
     /\ up[c] # <<>>
     /\ up' = [up EXCEPT ![c] = Tail(up[c])]
     /\ player' = [player EXCEPT ![b] = s]
     /\ loser' = [loser EXCEPT ![b] = IF s[1].HP <= 0 THEN 1
                                      ELSE IF s[2].HP <= 0 THEN 2 ELSE loser[b]]
     /\ down' = Told(b, s)
     /\ pc' = [pc EXCEPT ![b] = IF s[1].battle_ended_flag THEN "wait" ELSE "first"]
     /\ UNCHANGED <<stat, full_hp, fifo, reaped, champion>>

Winner(b) == 3 - loser[b]
Finalist(b) == tar_id[b][Winner(b)]

\* wait(NULL) takes any child that has exited.
Reaps(b, c) ==
  /\ c \in {tar_id[b][1], tar_id[b][2]} \ reaped
  /\ pc[c] = "exited"
  /\ reaped' = reaped \cup {c}

Champion(b) == player[b][Winner(b)].real_player_id

\* After the last round a battle waits for a child, the loser.  The root then
\* announces the champion, and every other battle becomes a relay.
Wait(b) ==
  /\ pc[b] = "wait"
  /\ \E c \in Process : Reaps(b, c)
  /\ champion' = IF b = Root THEN Champion(b) ELSE champion
  /\ pc' = [pc EXCEPT ![b] = IF b = Root THEN "leave" ELSE "upward"]
  /\ UNCHANGED <<player, loser, stat, full_hp, up, down, fifo>>

\* Mutant: the relay sends what it held before it read.
NewsStale(b) == player[b][Winner(b)]

\* What the winner's side reports.
News(b) == Head(up[Finalist(b)])

\* The winner's Status goes to the parent.
RelayUp(b) ==
  LET c == Finalist(b)
  IN /\ pc[b] = "upward"
     /\ up[c] # <<>>
     /\ player' = [player EXCEPT ![b][Winner(b)] = News(b)]
     /\ up' = [up EXCEPT ![c] = Tail(up[c]), ![b] = Append(up[b], News(b))]
     /\ pc' = [pc EXCEPT ![b] = "downward"]
     /\ UNCHANGED <<loser, stat, full_hp, down, fifo, reaped, champion>>

\* Mutants: every battle's end is taken for that of the root; only its winner
\* knows that the last battle is over.
EndsAny(s) == s.battle_ended_flag
EndsForWinner(s) == s.current_battle_id = Root /\ s.HP > 0 /\ s.battle_ended_flag

\* The last battle of all is over.
EndsAll(s) == s.battle_ended_flag /\ s.current_battle_id = Root

\* Mutant: the relay ends only when its player has lost.
IsLastForLosers(s) == s.HP <= 0

\* Dead or champion, a player gets no other answer.
IsLast(s) == s.HP <= 0 \/ EndsAll(s)

\* The parent's answer goes to the winner.
RelayDown(b) ==
  LET c == Finalist(b)
      s == Head(down[b])
  IN /\ pc[b] = "downward"
     /\ down[b] # <<>>
     /\ player' = [player EXCEPT ![b][Winner(b)] = s]
     /\ down' = [down EXCEPT ![b] = Tail(down[b]), ![c] = Append(down[c], s)]
     /\ pc' = [pc EXCEPT ![b] = IF IsLast(s) THEN "leave" ELSE "upward"]
     /\ UNCHANGED <<loser, stat, full_hp, up, fifo, reaped, champion>>

\* It waits for the other child and exits.
Leave(b) ==
  /\ pc[b] = "leave"
  /\ \E c \in Process : Reaps(b, c)
  /\ pc' = [pc EXCEPT ![b] = "exited"]
  /\ UNCHANGED <<player, loser, stat, full_hp, up, down, fifo, champion>>

-----------------------------------------------------------------------------
(* Players and agents.                                                     *)

Send(p) ==
  /\ pc[p] = "send"
  /\ up' = [up EXCEPT ![p] = Append(up[p], stat[p])]
  /\ pc' = [pc EXCEPT ![p] = "receive"]
  /\ UNCHANGED <<player, loser, stat, full_hp, down, fifo, reaped, champion>>

\* Mutant: the winner recovers all it lost.
RecoveredFully(p, s) == [s EXCEPT !.HP = full_hp[p], !.battle_ended_flag = FALSE]

\* Between two battles the winner recovers half of what it lost.
Recovered(p, s) ==
  [s EXCEPT !.HP = s.HP + (full_hp[p] - s.HP) \div 2, !.battle_ended_flag = FALSE]

\* Mutant: the loser goes on with the HP it died with.
RestoredDead(p, s) == [s EXCEPT !.battle_ended_flag = FALSE]

\* Who leaves the winners' bracket does so at full health.
Restored(p, s) == [s EXCEPT !.HP = full_hp[p], !.battle_ended_flag = FALSE]

\* The battle's answer: the battle goes on, it was the last of all, it was
\* won, or it was lost.
Receive(p) ==
  LET s == Head(down[p]) IN
    /\ pc[p] = "receive"
    /\ down[p] # <<>>
    /\ down' = [down EXCEPT ![p] = Tail(down[p])]
    /\ \/ /\ ~s.battle_ended_flag
          /\ stat' = [stat EXCEPT ![p] = s]
          /\ pc' = [pc EXCEPT ![p] = "send"]
       \/ /\ EndsAll(s)
          /\ stat' = [stat EXCEPT ![p] = s]
          /\ pc' = [pc EXCEPT ![p] = "exited"]
       \/ /\ s.battle_ended_flag /\ ~EndsAll(s) /\ s.HP > 0
          /\ stat' = [stat EXCEPT ![p] = Recovered(p, s)]
          /\ pc' = [pc EXCEPT ![p] = "send"]
       \/ /\ s.battle_ended_flag /\ ~EndsAll(s) /\ s.HP <= 0
          /\ stat' = [stat EXCEPT ![p] = IF p \in Real THEN Restored(p, s) ELSE s]
          /\ pc' = [pc EXCEPT ![p] = IF p \in Real THEN "hand" ELSE "exited"]
    /\ UNCHANGED <<player, loser, full_hp, up, fifo, reaped, champion>>

\* The agent that takes p over.
Successor(p) == agent[stat[p].current_battle_id]

\* Mutant: the player goes on after it has handed over.
SucceededStaying(p, a) == [pc EXCEPT ![p] = "send", ![a] = "take"]

\* The player is gone once the agent has what it needs.
Succeeded(p, a) == [pc EXCEPT ![p] = "exited", ![a] = "take"]

\* open waits until the agent has opened the FIFO too; the player writes its
\* Status and exits.
HandOver(p) ==
  LET a == Successor(p) IN
    /\ pc[p] = "hand"
    /\ a \in Agent
    /\ pc[a] = "open"
    /\ fifo' = [fifo EXCEPT ![a] = Append(fifo[a], stat[p])]
    /\ pc' = Succeeded(p, a)
    /\ UNCHANGED <<player, loser, stat, full_hp, up, down, reaped, champion>>

TakeOver(a) ==
  /\ pc[a] = "take"
  /\ fifo[a] # <<>>
  /\ stat' = [stat EXCEPT ![a] = Head(fifo[a])]
  /\ full_hp' = [full_hp EXCEPT ![a] = Head(fifo[a]).HP]
  /\ fifo' = [fifo EXCEPT ![a] = Tail(fifo[a])]
  /\ pc' = [pc EXCEPT ![a] = "send"]
  /\ UNCHANGED <<player, loser, up, down, reaped, champion>>

-----------------------------------------------------------------------------
Parent(p) == CHOOSE b \in Battle : p \in {tar_id[b][1], tar_id[b][2]}

\* The Status of the player whom player_status.txt describes so.  Its column
\* battle_id names the battle to which the player belongs in the tree.
FirstStatus(p, line) ==
  [real_player_id |-> p, HP |-> line.HP, ATK |-> line.ATK, attr |-> line.attr,
   current_battle_id |-> Parent(p), battle_ended_flag |-> FALSE]

Init ==
  /\ pc = [p \in Process |-> IF p = Root THEN "fork" ELSE "unborn"]
  /\ player = [b \in Battle |-> <<NoStatus, NoStatus>>]
  /\ loser = [b \in Battle |-> 1]
  /\ \E lineup \in Lineup :
       /\ stat = [p \in Player |-> IF p \in Real THEN FirstStatus(p, lineup[p])
                                   ELSE NoStatus]
       /\ full_hp = [p \in Player |-> IF p \in Real THEN lineup[p].HP ELSE 0]
  /\ up = [p \in Process |-> <<>>]
  /\ down = [p \in Process |-> <<>>]
  /\ fifo = [a \in Agent |-> <<>>]
  /\ reaped = {}
  /\ champion = NoPlayer

\* What a process may do.
Step(p) ==
  \/ p \in Battle /\ (\/ Fork(p) \/ ReadFirst(p) \/ Round(p) \/ Wait(p)
                      \/ RelayUp(p) \/ RelayDown(p) \/ Leave(p))
  \/ p \in Player /\ (Send(p) \/ Receive(p))
  \/ p \in Real /\ HandOver(p)
  \/ p \in Agent /\ TakeOver(p)

Next == \E p \in Process : Step(p)

Spec == Init /\ [][Next]_vars

\* Every process that can go on does.
FairSpec == Spec /\ \A p \in Process : WF_vars(Step(p))

-----------------------------------------------------------------------------
(* Properties.                                                             *)

Place == {"unborn", "fork", "first", "second", "wait", "upward", "downward",
          "leave", "send", "receive", "hand", "open", "take", "exited"}

\* Type invariant.
TypeOK ==
  /\ pc \in [Process -> Place]
  /\ player \in [Battle -> [1..2 -> Status \cup {NoStatus}]]
  /\ loser \in [Battle -> 1..2]
  /\ stat \in [Player -> Status \cup {NoStatus}]
  /\ full_hp \in [Player -> Nat]
  /\ up \in [Process -> Seq(Status)]
  /\ down \in [Process -> Seq(Status)]
  /\ fifo \in [Agent -> Seq(Status)]
  /\ reaped \subseteq Process
  /\ champion \in Real \cup {NoPlayer}

=============================================================================
