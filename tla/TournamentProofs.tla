--------------------------- MODULE TournamentProofs -------------------------
(***************************************************************************)
(* Theorems about the tournament of hw2: for every tree of battles, every  *)
(* table of agents and every line-up, whatever order the processes run in, *)
(* each pair of pipes holds at most one message, no read meets the end of  *)
(* a stream, nobody is played for twice, and every battle ends as the one  *)
(* worked out with pencil and paper.                                       *)
(***************************************************************************)
EXTENDS TournamentOnPaper, NaturalRecursion, SequenceTheorems, FiniteSetTheorems

-----------------------------------------------------------------------------
(* The inductive invariant.                                                *)

BattlePlace == {"unborn", "fork", "first", "second", "wait", "upward", "downward", "leave", "exited"}
RealPlace == {"unborn", "send", "receive", "hand", "exited"}
AgentPlace == {"unborn", "open", "take", "send", "receive", "exited"}

\* Where a process is that will send its parent a Status, that has sent one
\* and awaits the answer, and that has had its last answer.
Owing == {"fork", "first", "second", "wait", "upward", "open", "take", "send"}
Expecting == {"downward", "receive"}
Parting == {"leave", "hand", "exited"}

\* A Status that goes up is one of a living, one that comes down may tell of
\* a death, which ended a battle.
Fit(s) == s \in Status /\ s.HP > 0 /\ ~s.battle_ended_flag
Answer(s) == s \in Status /\ (s.HP > 0 \/ s.battle_ended_flag)

\* Whom a process that has sent a Status has sent it for.
Number(c) ==
  IF c \in Battle THEN player[c][Winner(c)].real_player_id ELSE stat[c].real_player_id

\* What a child has to do with its parent: nothing yet; it will send; it has
\* sent; its Status was read; it was answered; it is done.
Quiet(c) == up[c] = <<>> /\ down[c] = <<>>
Unborn(c) == pc[c] = "unborn" /\ Quiet(c)
Owes(c) == pc[c] \in Owing /\ Quiet(c)
Offers(c) ==
  /\ pc[c] \in Expecting /\ down[c] = <<>>
  /\ Len(up[c]) = 1 /\ Fit(Head(up[c])) /\ Head(up[c]).real_player_id = Number(c)
Waits(c) == pc[c] \in Expecting /\ Quiet(c)
Answered(c) ==
  /\ pc[c] \in Expecting /\ up[c] = <<>>
  /\ Len(down[c]) = 1 /\ Answer(Head(down[c])) /\ Head(down[c]).real_player_id = Number(c)
Done(c) == pc[c] \in Parting /\ Quiet(c)

GoesOn(c) == Owes(c) \/ Offers(c) \/ (Answered(c) /\ ~IsLast(Head(down[c])))
Ended(c) == Done(c) \/ (Answered(c) /\ IsLast(Head(down[c])))

\* What a battle has to do with its i-th child: nothing yet; it holds the
\* child's Status; it will read from it; it has sent the child its last answer.
Idle(b) == pc[b] \in {"unborn", "fork"}
Holds(b, i) == (pc[b] = "second" /\ i = 1) \/ (pc[b] = "downward" /\ i # loser[b])
Listens(b, i) ==
  \/ pc[b] = "first"
  \/ pc[b] = "second" /\ i = 2
  \/ i # loser[b] /\ (pc[b] = "upward" \/ (pc[b] = "wait" /\ b # Root))
Parted(b, i) ==
  \/ pc[b] \in {"leave", "exited"}
  \/ pc[b] = "wait" /\ b = Root
  \/ i = loser[b] /\ pc[b] \in {"wait", "upward", "downward"}

\* The two ends of a pair of pipes agree.
Link(b, i) ==
  LET c == tar_id[b][i] IN
    /\ Idle(b) => Unborn(c)
    /\ Holds(b, i) => Waits(c) /\ player[b][i].real_player_id = Number(c)
    /\ Listens(b, i) => GoesOn(c)
    /\ Parted(b, i) => Ended(c)
Links == \A b \in Battle, i \in 1..2 : Link(b, i)

Places ==
  /\ \A b \in Battle : pc[b] \in BattlePlace
  /\ pc[Root] \notin {"upward", "downward"}
  /\ \A p \in Real : pc[p] \in RealPlace
  /\ \A a \in Agent : pc[a] \in AgentPlace

\* Only what hangs on the root is ever born; a battle that is its own parent or
\* grandparent is not.
Tree ==
  \A b, c \in Battle : c \in Children(b) /\ b \in Children(c) => pc[b] = "unborn"

\* Whom a battle has waited for.
Reaped ==
  /\ \A c \in reaped : pc[c] = "exited"
  /\ \A b \in Battle :
       /\ pc[b] \in {"unborn", "fork", "first", "second", "wait"} => Children(b) \cap reaped = {}
       /\ pc[b] \in {"upward", "downward", "leave"} => Children(b) \cap reaped # {}
       /\ pc[b] = "exited" => Children(b) \subseteq reaped

\* What a battle holds, and how well and for whom players and agents are.
BattlesHold ==
  \A b \in Battle :
    /\ pc[b] = "second" => Fit(player[b][1])
    /\ pc[b] \in {"wait", "downward"} => player[b][Winner(b)] \in Status
PlayersHold ==
  /\ \A p \in Real :
       /\ stat[p] \in Status /\ stat[p].real_player_id = p /\ full_hp[p] > 0
       /\ pc[p] \in {"unborn", "send", "hand"} => Fit(stat[p])
  /\ \A a \in Agent :
       /\ pc[a] \in {"send", "receive"} => stat[a] \in Status /\ full_hp[a] > 0
       /\ pc[a] = "send" => Fit(stat[a])
       /\ pc[a] = "take" => Len(fifo[a]) = 1 /\ Fit(Head(fifo[a]))
       /\ pc[a] # "take" => fifo[a] = <<>>

\* Who goes on for player r.
Carries(p, r) ==
  \/ p \in Real /\ pc[p] # "exited" /\ p = r
  \/ p \in Agent /\ pc[p] \in {"send", "receive"} /\ stat[p].real_player_id = r
  \/ p \in Agent /\ pc[p] = "take" /\ Head(fifo[p]).real_player_id = r
OneCarrier ==
  \A p, q \in Player : \A r \in Real : Carries(p, r) /\ Carries(q, r) => p = q

IInv ==
  /\ TypeOK /\ Places /\ Tree /\ Links /\ Reaped
  /\ BattlesHold /\ PlayersHold /\ OneCarrier

-----------------------------------------------------------------------------
(* Sequences, names and the rules of a battle.                             *)

\* What a pipe with no or one message is like.
LEMMA Pipes ==
  ASSUME NEW S, NEW q \in Seq(S)
  PROVE  /\ \A e \in S : Append(q, e) \in Seq(S)
         /\ q # <<>> => Head(q) \in S /\ Tail(q) \in Seq(S)
         /\ Len(q) = 1 => q # <<>> /\ Tail(q) = <<>> /\ Head(q) \in S
         /\ q = <<>> => Len(q) = 0 /\ \A e \in S : Len(Append(q, e)) = 1 /\ Head(Append(q, e)) = e
<1>1. q # <<>> => Head(q) \in S /\ Tail(q) \in Seq(S) /\ Len(Tail(q)) = Len(q) - 1
  BY HeadTailProperties
<1>2. Len(q) = 1 => q # <<>> /\ Tail(q) = <<>>
  <2>. SUFFICES ASSUME Len(q) = 1 PROVE q # <<>> /\ Tail(q) = <<>>
    OBVIOUS
  <2>1. q # <<>>
    BY EmptySeq
  <2>2. Tail(q) \in Seq(S) /\ Len(Tail(q)) = 0
    BY <1>1, <2>1
  <2>. QED  BY <2>1, <2>2, EmptySeq
<1>3. q = <<>> => Len(q) = 0 /\ \A e \in S : Len(Append(q, e)) = 1 /\ Head(Append(q, e)) = e
  OBVIOUS
<1>. QED  BY <1>1, <1>2, <1>3

\* The children of a battle.
LEMMA ChildIsProcess ==
  ASSUME NEW b \in Battle, NEW i \in 1..2
  PROVE  tar_id[b][i] \in Process /\ tar_id[b][i] # Root /\ tar_id[b][i] \in Children(b)
<1>1. tar_id[b][i] \in {tar_id[d][j] : d \in Battle, j \in 1..2}
  OBVIOUS
<1>2. tar_id[b][i] \in Process \ {Root}
  BY <1>1, TreeAssumption
<1>3. i = 1 \/ i = 2
  OBVIOUS
<1>. QED  BY <1>2, <1>3 DEF Children

\* Everybody but the root has one parent.
LEMMA OneParent ==
  /\ \A b, d \in Battle : \A i, j \in 1..2 : tar_id[b][i] = tar_id[d][j] => b = d /\ i = j
  /\ \A p \in Process : p # Root => \E b \in Battle : \E i \in 1..2 : p = tar_id[b][i]
<1>1. \A b, d \in Battle : \A i, j \in 1..2 : tar_id[b][i] = tar_id[d][j] => b = d /\ i = j
  BY TreeAssumption
<1>2. ASSUME NEW p \in Process, p # Root
      PROVE  \E b \in Battle : \E i \in 1..2 : p = tar_id[b][i]
  <2>1. p \in {tar_id[b][i] : b \in Battle, i \in 1..2}
    BY <1>2, TreeAssumption
  <2>. QED  BY <2>1
<1>. QED  BY <1>1, <1>2

\* Nobody who was born is his own child or grandchild.
LEMMA NoLoop ==
  ASSUME Tree, NEW b \in Battle, pc[b] # "unborn", NEW i \in 1..2, NEW c, c = tar_id[b][i]
  PROVE  /\ c # b
         /\ c \in Battle => \A j \in 1..2 : tar_id[c][j] # b
<1>1. c \in Children(b)
  BY ChildIsProcess
<1>2. ASSUME c \in Battle PROVE b \notin Children(c)
  BY <1>1, <1>2 DEF Tree
<1>3. c # b
  BY <1>1, <1>2
<1>. QED  BY <1>2, <1>3, ChildIsProcess

\* Battles, players and agents are not each other.
LEMMA Names ==
  /\ Process = Battle \cup Real \cup Agent
  /\ Player = Real \cup Agent
  /\ \A p \in Player : p \notin Battle
  /\ \A p \in Real : p \notin Agent
  /\ Root \in Battle
BY NameAssumption, TreeAssumption DEF Process, Player

\* A round between two who live: at most one dies, both learn whether the
\* battle is over, and nobody turns into somebody else.
LEMMA FightRules ==
  ASSUME NEW b \in Battle, NEW s, NEW s1, NEW s2, s1 = s[1], s2 = s[2], Fit(s1), Fit(s2)
  PROVE  \E t1, t2 \in Status :
           /\ Fight(b, s) = <<t1, t2>>
           /\ t1.real_player_id = s1.real_player_id /\ t2.real_player_id = s2.real_player_id
           /\ t1.current_battle_id = b /\ t2.current_battle_id = b
           /\ t1.HP > 0 \/ t2.HP > 0
           /\ t1.battle_ended_flag <=> t1.HP <= 0 \/ t2.HP <= 0
           /\ t2.battle_ended_flag <=> t1.HP <= 0 \/ t2.HP <= 0
<1>1. /\ s1 \in Status /\ s1.HP \in Int /\ s1.HP > 0 /\ s1.ATK \in Nat
      /\ s1.battle_ended_flag \in BOOLEAN /\ ~s1.battle_ended_flag
      /\ s2 \in Status /\ s2.HP \in Int /\ s2.HP > 0 /\ s2.ATK \in Nat
      /\ s2.battle_ended_flag \in BOOLEAN /\ ~s2.battle_ended_flag
  BY DEF Fit, Status
<1>2. Damage(b, s1) \in Nat /\ Damage(b, s2) \in Nat
  BY <1>1 DEF Damage
<1>3. PICK i \in 1..2 : i = Striker(s)
  BY DEF Striker
<1>4. PICK d1 \in Nat, d2 \in Nat : d1 = Damage(b, s1) /\ d2 = Damage(b, s2)
  BY <1>2
<1>. DEFINE after(r, h, f) == [r EXCEPT !.HP = h, !.current_battle_id = b, !.battle_ended_flag = f]
<1>5. ASSUME NEW r \in Status, NEW h \in Int, NEW f \in BOOLEAN
      PROVE  /\ after(r, h, f) \in Status
             /\ after(r, h, f).HP = h /\ after(r, h, f).battle_ended_flag = f
             /\ after(r, h, f).current_battle_id = b
             /\ after(r, h, f).real_player_id = r.real_player_id
  BY <1>5 DEF Status
<1>. HIDE DEF after
<1>6. ASSUME i = 1
      PROVE  \E h1, h2 \in Int, f1, f2 \in BOOLEAN :
               /\ Fight(b, s) = <<after(s1, h1, f1), after(s2, h2, f2)>>
               /\ h1 > 0 \/ h2 > 0
               /\ f1 <=> h1 <= 0 \/ h2 <= 0
               /\ f2 <=> h1 <= 0 \/ h2 <= 0
  <2>. DEFINE struck == s2.HP - d1
              back == IF struck > 0 THEN s1.HP - d2 ELSE s1.HP
              f1 == s1.battle_ended_flag \/ struck <= 0 \/ back <= 0
              f2 == s2.battle_ended_flag \/ struck <= 0 \/ back <= 0
  <2>1. struck \in Int /\ back \in Int /\ (struck > 0 \/ back > 0)
    BY <1>1
  <2>2. f1 \in BOOLEAN /\ f2 \in BOOLEAN
    OBVIOUS
  <2>3. (f1 <=> struck <= 0 \/ back <= 0) /\ (f2 <=> struck <= 0 \/ back <= 0)
    BY <1>1
  <2>4. Fight(b, s) = <<after(s1, back, f1), after(s2, struck, f2)>>
    <3>1. 3 - Striker(s) = 2 /\ Striker(s) = 1 /\ 1 # 2
      BY <1>3, <1>6
    <3>. QED  BY <3>1, <1>4 DEF Fight, after
  <2>. HIDE DEF struck, back, f1, f2
  <2>. QED  BY <2>1, <2>2, <2>3, <2>4
<1>7. ASSUME i = 2
      PROVE  \E h1, h2 \in Int, f1, f2 \in BOOLEAN :
               /\ Fight(b, s) = <<after(s1, h1, f1), after(s2, h2, f2)>>
               /\ h1 > 0 \/ h2 > 0
               /\ f1 <=> h1 <= 0 \/ h2 <= 0
               /\ f2 <=> h1 <= 0 \/ h2 <= 0
  <2>. DEFINE struck == s1.HP - d2
              back == IF struck > 0 THEN s2.HP - d1 ELSE s2.HP
              f1 == s1.battle_ended_flag \/ struck <= 0 \/ back <= 0
              f2 == s2.battle_ended_flag \/ struck <= 0 \/ back <= 0
  <2>1. struck \in Int /\ back \in Int /\ (struck > 0 \/ back > 0)
    BY <1>1
  <2>2. f1 \in BOOLEAN /\ f2 \in BOOLEAN
    OBVIOUS
  <2>3. (f1 <=> struck <= 0 \/ back <= 0) /\ (f2 <=> struck <= 0 \/ back <= 0)
    BY <1>1
  <2>4. Fight(b, s) = <<after(s1, struck, f1), after(s2, back, f2)>>
    <3>1. 3 - Striker(s) = 1 /\ Striker(s) = 2 /\ 1 # 2
      BY <1>3, <1>7
    <3>. QED  BY <3>1, <1>4 DEF Fight, after
  <2>. HIDE DEF struck, back, f1, f2
  <2>. QED  BY <2>1, <2>2, <2>3, <2>4
<1>8. PICK h1, h2 \in Int, f1, f2 \in BOOLEAN :
        /\ Fight(b, s) = <<after(s1, h1, f1), after(s2, h2, f2)>>
        /\ h1 > 0 \/ h2 > 0
        /\ f1 <=> h1 <= 0 \/ h2 <= 0
        /\ f2 <=> h1 <= 0 \/ h2 <= 0
  <2>1. i = 1 \/ i = 2
    BY <1>3
  <2>. QED  BY <2>1, <1>6, <1>7
<1>9. PICK t1, t2 \in Status : t1 = after(s1, h1, f1) /\ t2 = after(s2, h2, f2)
  BY <1>1, <1>5
<1>10. /\ t1.HP = h1 /\ t1.battle_ended_flag = f1
       /\ t1.current_battle_id = b /\ t1.real_player_id = s1.real_player_id
       /\ t2.HP = h2 /\ t2.battle_ended_flag = f2
       /\ t2.current_battle_id = b /\ t2.real_player_id = s2.real_player_id
  BY <1>1, <1>5, <1>9
<1>. QED  BY <1>8, <1>9, <1>10

-----------------------------------------------------------------------------
(* The two ends of the pipes.                                              *)

\* A child to which nothing happens.
LEMMA ChildStands ==
  ASSUME NEW c, pc'[c] = pc[c], up'[c] = up[c], down'[c] = down[c], Number(c)' = Number(c)
  PROVE  /\ Unborn(c)' <=> Unborn(c)
         /\ Waits(c)' <=> Waits(c)
         /\ GoesOn(c)' <=> GoesOn(c)
         /\ Ended(c)' <=> Ended(c)
<1>1. /\ Answered(c)' <=> Answered(c)
      /\ Done(c)' <=> Done(c)
      /\ Owes(c)' <=> Owes(c)
      /\ Offers(c)' <=> Offers(c)
      /\ Head(down[c])' = Head(down[c])
  BY DEF Answered, Done, Owes, Offers, Quiet
<1>2. (GoesOn(c)' <=> GoesOn(c)) /\ (Ended(c)' <=> Ended(c))
  BY <1>1 DEF GoesOn, Ended
<1>. QED  BY <1>2 DEF Unborn, Waits, Quiet

\* What a battle has to do with its children does not change while it stands still.
LEMMA StandsStill ==
  ASSUME NEW b \in Battle, NEW i \in 1..2, pc'[b] = pc[b], loser'[b] = loser[b]
  PROVE  /\ Idle(b)' <=> Idle(b)
         /\ Holds(b, i)' <=> Holds(b, i)
         /\ Listens(b, i)' <=> Listens(b, i)
         /\ Parted(b, i)' <=> Parted(b, i)
BY DEF Idle, Holds, Listens, Parted

\* A link between two that do not change stays.
LEMMA LinkStays ==
  ASSUME NEW b \in Battle, NEW i \in 1..2, NEW c, c = tar_id[b][i], Link(b, i),
         pc'[b] = pc[b], loser'[b] = loser[b], player'[b] = player[b],
         pc'[c] = pc[c], up'[c] = up[c], down'[c] = down[c], Number(c)' = Number(c)
  PROVE  Link(b, i)'
BY ChildStands, StandsStill DEF Link

\* A child does something of its own before it sends.
LEMMA ChildWorks ==
  ASSUME NEW b \in Battle, NEW i \in 1..2, NEW c, c = tar_id[b][i], Link(b, i),
         pc'[b] = pc[b], loser'[b] = loser[b],
         pc[c] \in Owing, pc'[c] \in Owing, up'[c] = up[c], down'[c] = down[c]
  PROVE  Link(b, i)'
<1>1. pc[c] \notin Expecting \cup Parting \cup {"unborn"}
  BY DEF Owing, Expecting, Parting
<1>2. Owes(c) => GoesOn(c)'
  BY DEF Owes, GoesOn, Quiet
<1>3. ~Idle(b) /\ ~Holds(b, i) /\ ~Parted(b, i) /\ (Listens(b, i) => Owes(c))
  BY <1>1 DEF Link, Unborn, Waits, GoesOn, Ended, Answered, Offers, Done
<1>. QED  BY <1>2, <1>3, StandsStill DEF Link

\* A child sends its Status.
LEMMA ChildSends ==
  ASSUME NEW b \in Battle, NEW i \in 1..2, NEW c \in Process, c = tar_id[b][i], Link(b, i),
         pc'[b] = pc[b], loser'[b] = loser[b], up \in [Process -> Seq(Status)],
         pc[c] \in Owing, pc'[c] \in Expecting, NEW s, up'[c] = Append(up[c], s),
         Fit(s), s.real_player_id = Number(c)', down'[c] = down[c]
  PROVE  Link(b, i)'
<1>1. pc[c] \notin Expecting \cup Parting \cup {"unborn"}
  BY DEF Owing, Expecting, Parting
<1>2. ASSUME Owes(c) PROVE GoesOn(c)'
  <2>1. up[c] = <<>> /\ down[c] = <<>> /\ s \in Status /\ up[c] \in Seq(Status)
    BY <1>2 DEF Owes, Quiet, Fit
  <2>2. Len(up'[c]) = 1 /\ Head(up'[c]) = s
    BY <2>1, Pipes
  <2>3. Offers(c)'
    BY <2>1, <2>2 DEF Offers
  <2>. QED  BY <2>3 DEF GoesOn
<1>3. ~Idle(b) /\ ~Holds(b, i) /\ ~Parted(b, i) /\ (Listens(b, i) => Owes(c))
  BY <1>1 DEF Link, Unborn, Waits, GoesOn, Ended, Answered, Offers, Done
<1>. QED  BY <1>2, <1>3, StandsStill DEF Link

\* A child has its last answer, or another one after which it goes on.
LEMMA ChildHears ==
  ASSUME NEW b \in Battle, NEW i \in 1..2, NEW c \in Process, c = tar_id[b][i], Link(b, i),
         pc'[b] = pc[b], loser'[b] = loser[b], down \in [Process -> Seq(Status)],
         pc[c] \in Expecting, down[c] # <<>>, down'[c] = Tail(down[c]), up'[c] = up[c],
         IF IsLast(Head(down[c])) THEN pc'[c] \in Parting ELSE pc'[c] \in Owing
  PROVE  Link(b, i)'
<1>1. pc[c] \notin Owing \cup Parting \cup {"unborn"}
  BY DEF Owing, Expecting, Parting
<1>2. ~Quiet(c) /\ ~Offers(c) /\ ~Owes(c) /\ ~Done(c) /\ ~Waits(c) /\ ~Unborn(c)
  BY DEF Quiet, Offers, Owes, Done, Waits, Unborn
<1>3. ASSUME Answered(c) PROVE Quiet(c)'
  <2>1. up[c] = <<>> /\ Len(down[c]) = 1 /\ down[c] \in Seq(Status)
    BY <1>3 DEF Answered
  <2>2. Tail(down[c]) = <<>>
    BY <2>1, Pipes
  <2>. QED  BY <2>1, <2>2 DEF Quiet
<1>4. GoesOn(c) => GoesOn(c)'
  BY <1>2, <1>3 DEF GoesOn, Owes
<1>5. Ended(c) => Ended(c)'
  BY <1>2, <1>3 DEF Ended, Done
<1>6. ~Idle(b) /\ ~Holds(b, i)
  BY <1>2 DEF Link
<1>. QED  BY <1>4, <1>5, <1>6, StandsStill DEF Link

\* A child that is done goes.
LEMMA ChildLeaves ==
  ASSUME NEW b \in Battle, NEW i \in 1..2, NEW c, c = tar_id[b][i], Link(b, i),
         pc'[b] = pc[b], loser'[b] = loser[b],
         pc[c] \in Parting, pc'[c] \in Parting, up'[c] = up[c], down'[c] = down[c]
  PROVE  Link(b, i)'
<1>1. pc[c] \notin Expecting \cup Owing \cup {"unborn"}
  BY DEF Owing, Expecting, Parting
<1>2. Done(c) => Ended(c)'
  BY DEF Done, Ended, Quiet
<1>3. ~Idle(b) /\ ~Holds(b, i) /\ ~Listens(b, i) /\ (Parted(b, i) => Done(c))
  BY <1>1 DEF Link, Unborn, Waits, GoesOn, Ended, Answered, Offers, Owes
<1>. QED  BY <1>2, <1>3, StandsStill DEF Link

\* What a battle reads from a child, and the child then awaits an answer.
LEMMA ReadsChild ==
  ASSUME NEW c \in Process, GoesOn(c), up[c] # <<>>, up \in [Process -> Seq(Status)]
  PROVE  /\ Offers(c) /\ pc[c] \in Expecting /\ down[c] = <<>>
         /\ Fit(Head(up[c])) /\ Head(up[c]).real_player_id = Number(c)
         /\ Tail(up[c]) = <<>>
<1>1. ~Owes(c) /\ ~Answered(c)
  BY DEF Owes, Answered, Quiet
<1>2. Offers(c)
  BY <1>1 DEF GoesOn
<1>3. Tail(up[c]) = <<>>
  BY <1>2, Pipes DEF Offers
<1>. QED  BY <1>2, <1>3 DEF Offers

\* A child is answered.
LEMMA TellsChild ==
  ASSUME NEW c \in Process, pc'[c] \in Expecting, up'[c] = <<>>, down[c] = <<>>,
         NEW s, down'[c] = Append(down[c], s), Answer(s), s.real_player_id = Number(c)'
  PROVE  /\ IsLast(s) => Ended(c)'
         /\ ~IsLast(s) => GoesOn(c)'
<1>1. s \in Status /\ <<>> \in Seq(Status)
  BY DEF Answer
<1>2. Len(down'[c]) = 1 /\ Head(down'[c]) = s
  BY <1>1, Pipes
<1>3. Answered(c)'
  BY <1>2 DEF Answered
<1>4. IsLast(s) <=> IsLast(Head(down[c]))'
  BY <1>2 DEF IsLast, EndsAll
<1>. QED  BY <1>3, <1>4 DEF Ended, GoesOn

\* A step of some processes, X, in which the pipes of others, Y, change too,
\* keeps the links between all others.
LEMMA LinksKept ==
  ASSUME Links, NEW X, NEW Y,
         \A b \in Battle : b \notin X => /\ pc'[b] = pc[b] /\ loser'[b] = loser[b]
                                         /\ player'[b] = player[b],
         \A p \in Player : p \notin X => pc'[p] = pc[p] /\ stat'[p] = stat[p],
         \A c \in Process : c \notin Y => up'[c] = up[c] /\ down'[c] = down[c],
         \A b \in Battle, i \in 1..2 :
           b \in X \/ tar_id[b][i] \in X \/ tar_id[b][i] \in Y => Link(b, i)'
  PROVE  Links'
<1>. SUFFICES ASSUME NEW b \in Battle, NEW i \in 1..2 PROVE Link(b, i)'
  BY DEF Links
<1>1. PICK c \in Process : c = tar_id[b][i]
  BY ChildIsProcess
<1>2. CASE b \notin X /\ c \notin X /\ c \notin Y
  <2>1. c \in Battle \/ (c \in Player /\ c \notin Battle)
    BY Names
  <2>2. Number(c)' = Number(c)
    BY <1>2, <2>1 DEF Number, Winner
  <2>3. pc'[c] = pc[c] /\ up'[c] = up[c] /\ down'[c] = down[c]
    BY <1>2, <2>1
  <2>. QED  BY <1>1, <1>2, <2>2, <2>3, LinkStays DEF Links
<1>. QED  BY <1>1, <1>2

\* The two children of a battle that was born.
LEMMA Kids ==
  ASSUME IInv, NEW x \in Battle, pc[x] # "unborn", NEW i \in 1..2, NEW j \in 1..2, i # j
  PROVE  /\ tar_id[x][i] \in Process /\ tar_id[x][i] # Root
         /\ tar_id[x][i] # x /\ tar_id[x][i] # tar_id[x][j]
         /\ Children(x) = {tar_id[x][i], tar_id[x][j]}
         /\ Link(x, i)
<1>1. tar_id[x][i] # x
  BY NoLoop DEF IInv
<1>2. Children(x) = {tar_id[x][i], tar_id[x][j]}
  <2>1. (i = 1 /\ j = 2) \/ (i = 2 /\ j = 1)
    OBVIOUS
  <2>. QED  BY <2>1 DEF Children
<1>. QED  BY <1>1, <1>2, ChildIsProcess, OneParent DEF IInv, Links

\* A step of a battle keeps all links if it keeps those to its children and
\* to its parent.
LEMMA BattleLinks ==
  ASSUME IInv, NEW x \in Battle, pc[x] # "unborn",
         \A p \in Process : p # x => pc'[p] = pc[p],
         \A b \in Battle : b # x => loser'[b] = loser[b] /\ player'[b] = player[b],
         stat' = stat,
         \A c \in Process : c # x /\ c \notin Children(x) => up'[c] = up[c] /\ down'[c] = down[c],
         \A i \in 1..2 : Link(x, i)',
         \A b \in Battle, i \in 1..2 : tar_id[b][i] = x /\ b # x => Link(b, i)'
  PROVE  Links'
<1>1. PICK Y : Y = {x} \cup Children(x)
  OBVIOUS
<1>2. ASSUME NEW b \in Battle, NEW i \in 1..2,
             b \in {x} \/ tar_id[b][i] \in {x} \/ tar_id[b][i] \in Y
      PROVE  Link(b, i)'
  <2>1. CASE b = x
    BY <2>1
  <2>2. CASE b # x /\ tar_id[b][i] = x
    BY <2>2
  <2>3. CASE b # x /\ tar_id[b][i] \in Children(x)
    BY <2>3, OneParent DEF Children
  <2>. QED  BY <1>1, <1>2, <2>1, <2>2, <2>3
<1>3. /\ \A b \in Battle : b \notin {x} => /\ pc'[b] = pc[b] /\ loser'[b] = loser[b]
                                           /\ player'[b] = player[b]
      /\ \A p \in Player : p \notin {x} => pc'[p] = pc[p] /\ stat'[p] = stat[p]
      /\ \A c \in Process : c \notin Y => up'[c] = up[c] /\ down'[c] = down[c]
  BY <1>1, Names
<1>. QED  BY <1>2, <1>3, LinksKept DEF IInv

\* What a step of a battle that was born leaves as it is.
LEMMA BattleGoesOn ==
  ASSUME IInv, NEW x \in Battle, pc[x] \notin {"unborn", "exited"},
         NEW t \in {"first", "second", "wait", "upward", "downward", "leave", "exited"},
         t \in {"upward", "downward"} => x # Root,
         pc' = [pc EXCEPT ![x] = t], UNCHANGED <<stat, full_hp, fifo>>
  PROVE  /\ pc' \in [Process -> Place]
         /\ pc'[x] = t /\ \A p \in Process : p # x => pc'[p] = pc[p]
         /\ Places' /\ Tree' /\ PlayersHold' /\ OneCarrier'
<1>1. /\ x \in Process /\ x \notin Player
      /\ pc \in [Process -> Place]
  BY Names DEF IInv, TypeOK
<1>2. pc'[x] = t /\ \A p \in Process : p # x => pc'[p] = pc[p]
  BY <1>1
<1>3. \A p \in Player : pc'[p] = pc[p]
  BY <1>1, <1>2, Names
<1>4. Places'
  BY <1>1, <1>2, <1>3, Names DEF IInv, Places, BattlePlace
<1>5. Tree'
  BY <1>1, <1>2, Names DEF IInv, Tree
<1>6. PlayersHold'
  BY <1>3, Names DEF IInv, PlayersHold
<1>7. OneCarrier'
  BY <1>3, Names DEF IInv, OneCarrier, Carries
<1>. QED  BY <1>1, <1>2, <1>4, <1>5, <1>6, <1>7 DEF Place

\* A step without a wait keeps what is said about waits, if nobody comes back
\* from the dead and the battles stay before or after their wait.
LEMMA ReapedKept ==
  ASSUME IInv, reaped' = reaped,
         \A p \in Process : pc[p] = "exited" => pc'[p] = "exited",
         \A b \in Battle :
           \/ pc'[b] = pc[b]
           \/ pc[b] \in {"unborn", "fork", "first", "second"} /\
              pc'[b] \in {"fork", "first", "second", "wait"}
           \/ pc[b] \in {"upward", "downward"} /\ pc'[b] \in {"upward", "downward", "leave"}
  PROVE  Reaped'
BY DEF IInv, Reaped, TypeOK

-----------------------------------------------------------------------------
(* The steps of a battle.                                                  *)

LEMMA ReadFirstKeeps ==
  ASSUME IInv, NEW x \in Battle, ReadFirst(x)
  PROVE  IInv'
<1>1. PICK c \in Process, d \in Process : c = tar_id[x][1] /\ d = tar_id[x][2]
  BY ChildIsProcess
<1>2. /\ pc[x] = "first" /\ up[c] # <<>> /\ pc' = [pc EXCEPT ![x] = "second"]
      /\ player' = [player EXCEPT ![x][1] = Head(up[c])]
      /\ up' = [up EXCEPT ![c] = Tail(up[c])]
      /\ UNCHANGED <<loser, stat, full_hp, down, fifo, reaped, champion>>
  BY <1>1 DEF ReadFirst
<1>3. /\ c # x /\ d # x /\ c # d /\ Children(x) = {c, d} /\ Link(x, 1) /\ Link(x, 2)
  BY <1>1, <1>2, Kids
<1>4. /\ pc'[x] = "second" /\ \A p \in Process : p # x => pc'[p] = pc[p]
      /\ pc' \in [Process -> Place]
      /\ Places' /\ Tree' /\ PlayersHold' /\ OneCarrier'
  BY <1>2, BattleGoesOn
<1>5. /\ Offers(c) /\ pc[c] \in Expecting /\ down[c] = <<>>
      /\ Fit(Head(up[c])) /\ Head(up[c]).real_player_id = Number(c) /\ Tail(up[c]) = <<>>
  <2>1. GoesOn(c)
    BY <1>1, <1>2, <1>3 DEF Link, Listens
  <2>. QED  BY <1>2, <2>1, ReadsChild DEF IInv, TypeOK
<1>6. PICK h \in Status : h = Head(up[c])
  BY <1>5 DEF Fit
<1>7. player'[x][1] = h /\ \A b \in Battle : b # x => player'[b] = player[b]
  BY <1>2, <1>6 DEF IInv, TypeOK
<1>8. up'[c] = <<>> /\ \A p \in Process : p # c => up'[p] = up[p]
  BY <1>2, <1>5 DEF IInv, TypeOK
<1>9. TypeOK'
  <2>1. player' \in [Battle -> [1..2 -> Status \cup {NoStatus}]]
    BY <1>2, <1>6 DEF IInv, TypeOK
  <2>2. up' \in [Process -> Seq(Status)]
    BY <1>2, <1>5 DEF IInv, TypeOK
  <2>. QED  BY <1>2, <1>4, <2>1, <2>2 DEF IInv, TypeOK
<1>10. \A e \in {c, d} : Number(e)' = Number(e)
  BY <1>2, <1>3, <1>7, Names DEF Number, Winner
<1>11. Link(x, 1)'
  <2>1. Waits(c)' /\ player'[x][1].real_player_id = Number(c)'
    BY <1>2, <1>3, <1>4, <1>5, <1>6, <1>7, <1>8, <1>10 DEF Waits, Quiet
  <2>. QED  BY <1>1, <1>4, <2>1 DEF Link, Idle, Listens, Parted
<1>12. Link(x, 2)'
  <2>1. GoesOn(d)
    BY <1>1, <1>2, <1>3 DEF Link, Listens
  <2>2. GoesOn(d)'
    BY <1>2, <1>3, <1>4, <1>8, <1>10, <2>1, ChildStands
  <2>. QED  BY <1>1, <1>4, <2>2 DEF Link, Idle, Holds, Parted
<1>13. ASSUME NEW b \in Battle, NEW i \in 1..2, tar_id[b][i] = x, b # x PROVE Link(b, i)'
  <2>1. pc'[b] = pc[b]
    BY <1>4, <1>13, Names
  <2>2. up'[x] = up[x]
    BY <1>3, <1>8, Names
  <2>. QED  BY <1>2, <1>4, <1>13, <2>1, <2>2, ChildWorks DEF Owing, IInv, Links
<1>14. Links'
  <2>1. \A i \in 1..2 : Link(x, i)'
    <3>1. \A i \in 1..2 : i = 1 \/ i = 2
      OBVIOUS
    <3>. QED  BY <1>11, <1>12, <3>1
  <2>2. \A p \in Process : p # x /\ p \notin Children(x) => up'[p] = up[p] /\ down'[p] = down[p]
    BY <1>2, <1>3, <1>8
  <2>. QED  BY <1>2, <1>4, <1>7, <1>13, <2>1, <2>2, BattleLinks
<1>15. Reaped'
  BY <1>2, <1>4, Names, ReapedKept
<1>16. BattlesHold'
  BY <1>2, <1>4, <1>5, <1>6, <1>7, Names DEF IInv, BattlesHold, Winner
<1>. QED  BY <1>4, <1>9, <1>14, <1>15, <1>16 DEF IInv

\* The answers of a round: the battle goes on with both, or it ends for the
\* loser, and at the root for both.
LEMMA RoundAnswers ==
  ASSUME NEW x \in Battle, NEW t1 \in Status, NEW t2 \in Status,
         t1.current_battle_id = x, t2.current_battle_id = x,
         t1.HP > 0 \/ t2.HP > 0,
         t1.battle_ended_flag <=> t1.HP <= 0 \/ t2.HP <= 0,
         t2.battle_ended_flag <=> t1.HP <= 0 \/ t2.HP <= 0
  PROVE  /\ Answer(t1) /\ Answer(t2)
         /\ ~t1.battle_ended_flag => ~IsLast(t1) /\ ~IsLast(t2)
         /\ t1.battle_ended_flag => /\ IsLast(t1) <=> x = Root \/ t1.HP <= 0
                                    /\ IsLast(t2) <=> x = Root \/ t1.HP > 0
<1>. t1.HP \in Int /\ t2.HP \in Int
  BY DEF Status
<1>. QED  BY DEF Answer, IsLast, EndsAll

LEMMA RoundKeeps ==
  ASSUME IInv, NEW x \in Battle, Round(x)
  PROVE  IInv'
<1>1. PICK c \in Process, d \in Process : c = tar_id[x][1] /\ d = tar_id[x][2]
  BY ChildIsProcess
<1>2. PICK s : s = [player[x] EXCEPT ![2] = Head(up[d])]
  OBVIOUS
<1>3. /\ pc[x] = "second" /\ up[d] # <<>> /\ up' = [up EXCEPT ![d] = Tail(up[d])]
      /\ UNCHANGED <<stat, full_hp, fifo, reaped, champion>>
  BY <1>1 DEF Round
<1>4. /\ c # x /\ d # x /\ c # d /\ Children(x) = {c, d} /\ Link(x, 1) /\ Link(x, 2)
  BY <1>1, <1>3, Kids
<1>5. Waits(c) /\ Fit(player[x][1]) /\ player[x][1].real_player_id = Number(c)
  BY <1>1, <1>3, <1>4 DEF Link, Holds, IInv, BattlesHold
<1>6. /\ pc[d] \in Expecting /\ down[d] = <<>> /\ Fit(Head(up[d]))
      /\ Head(up[d]).real_player_id = Number(d) /\ Tail(up[d]) = <<>>
  <2>1. GoesOn(d)
    BY <1>1, <1>3, <1>4 DEF Link, Listens
  <2>. QED  BY <1>3, <2>1, ReadsChild DEF IInv, TypeOK
<1>7. PICK s1, s2 : s1 = player[x][1] /\ s2 = Head(up[d])
  OBVIOUS
<1>8. s1 = s[1] /\ s2 = s[2] /\ Fit(s1) /\ Fit(s2)
  BY <1>2, <1>5, <1>6, <1>7 DEF IInv, TypeOK
<1>9. PICK t1 \in Status, t2 \in Status :
           /\ Fight(x, s) = <<t1, t2>>
           /\ t1.real_player_id = s1.real_player_id /\ t2.real_player_id = s2.real_player_id
           /\ t1.current_battle_id = x /\ t2.current_battle_id = x
           /\ t1.HP > 0 \/ t2.HP > 0
           /\ t1.battle_ended_flag <=> t1.HP <= 0 \/ t2.HP <= 0
           /\ t2.battle_ended_flag <=> t1.HP <= 0 \/ t2.HP <= 0
  BY <1>8, FightRules
<1>10. /\ Answer(t1) /\ Answer(t2)
       /\ ~t1.battle_ended_flag => ~IsLast(t1) /\ ~IsLast(t2)
       /\ t1.battle_ended_flag => /\ IsLast(t1) <=> x = Root \/ t1.HP <= 0
                                  /\ IsLast(t2) <=> x = Root \/ t1.HP > 0
  BY <1>9, RoundAnswers
<1>11. PICK p \in {"wait", "first"}, k \in 1..2 :
         /\ p = IF t1.battle_ended_flag THEN "wait" ELSE "first"
         /\ k = IF t1.HP <= 0 THEN 1 ELSE IF t2.HP <= 0 THEN 2 ELSE loser[x]
  BY DEF IInv, TypeOK
<1>12. /\ player' = [player EXCEPT ![x] = <<t1, t2>>]
       /\ loser' = [loser EXCEPT ![x] = k]
       /\ down' = [down EXCEPT ![c] = Append(@, t1), ![d] = Append(@, t2)]
       /\ pc' = [pc EXCEPT ![x] = p]
  <2>1. PICK t : t = Fight(x, [player[x] EXCEPT ![2] = Head(up[tar_id[x][2]])])
    OBVIOUS
  <2>2. /\ player' = [player EXCEPT ![x] = t]
        /\ loser' = [loser EXCEPT ![x] = IF t[1].HP <= 0 THEN 1
                                         ELSE IF t[2].HP <= 0 THEN 2 ELSE loser[x]]
        /\ down' = Told(x, t)
        /\ pc' = [pc EXCEPT ![x] = IF t[1].battle_ended_flag THEN "wait" ELSE "first"]
    BY <2>1 DEF Round
  <2>3. t = <<t1, t2>> /\ t[1] = t1 /\ t[2] = t2
    BY <1>1, <1>2, <1>9, <2>1
  <2>4. down' = [down EXCEPT ![c] = Append(@, t1), ![d] = Append(@, t2)]
    BY <1>1, <2>2, <2>3 DEF Told
  <2>. QED  BY <1>11, <2>2, <2>3, <2>4
<1>13. /\ pc'[x] = p /\ \A q \in Process : q # x => pc'[q] = pc[q]
       /\ pc' \in [Process -> Place]
       /\ Places' /\ Tree' /\ PlayersHold' /\ OneCarrier'
  BY <1>3, <1>12, BattleGoesOn
<1>14. /\ player'[x][1] = t1 /\ player'[x][2] = t2 /\ loser'[x] = k
       /\ \A b \in Battle : b # x => player'[b] = player[b] /\ loser'[b] = loser[b]
  BY <1>12 DEF IInv, TypeOK
<1>15. /\ up'[c] = <<>> /\ up'[d] = <<>> /\ down[c] = <<>>
       /\ down'[c] = Append(down[c], t1) /\ down'[d] = Append(down[d], t2)
       /\ \A q \in Process : q \notin {c, d} => up'[q] = up[q] /\ down'[q] = down[q]
  BY <1>3, <1>4, <1>5, <1>6, <1>12 DEF IInv, TypeOK, Waits, Quiet
<1>16. TypeOK'
  <2>1. player' \in [Battle -> [1..2 -> Status \cup {NoStatus}]]
    BY <1>12 DEF IInv, TypeOK
  <2>2. loser' \in [Battle -> 1..2]
    BY <1>12 DEF IInv, TypeOK
  <2>3. up' \in [Process -> Seq(Status)]
    BY <1>3, <1>6 DEF IInv, TypeOK
  <2>4. down' \in [Process -> Seq(Status)]
    BY <1>12, Pipes DEF IInv, TypeOK
  <2>. QED  BY <1>3, <1>13, <2>1, <2>2, <2>3, <2>4 DEF IInv, TypeOK
<1>17. \A e \in {c, d} : Number(e)' = Number(e)
  BY <1>3, <1>4, <1>14, Names DEF Number, Winner
<1>18. /\ IsLast(t1) => Ended(c)'
       /\ ~IsLast(t1) => GoesOn(c)'
  <2>1. pc'[c] \in Expecting /\ t1.real_player_id = Number(c)'
    BY <1>4, <1>5, <1>7, <1>9, <1>13, <1>17 DEF Waits
  <2>. QED  BY <1>10, <1>15, <2>1, TellsChild
<1>19. /\ IsLast(t2) => Ended(d)'
       /\ ~IsLast(t2) => GoesOn(d)'
  <2>1. pc'[d] \in Expecting /\ t2.real_player_id = Number(d)'
    BY <1>4, <1>6, <1>7, <1>9, <1>13, <1>17
  <2>. QED  BY <1>6, <1>10, <1>15, <2>1, TellsChild
<1>20. Link(x, 1)' /\ Link(x, 2)'
  <2>1. CASE p = "first"
    BY <1>1, <1>10, <1>11, <1>13, <1>18, <1>19, <2>1 DEF Link, Idle, Holds, Parted
  <2>2. CASE p = "wait"
    <3>1. /\ t1.battle_ended_flag
          /\ IsLast(t1) <=> x = Root \/ k = 1
          /\ IsLast(t2) <=> x = Root \/ k = 2
      <4>1. t1.HP \in Int /\ t2.HP \in Int
        BY DEF Status
      <4>. QED  BY <1>9, <1>10, <1>11, <2>2, <4>1
    <3>2. k = 1 \/ k = 2
      OBVIOUS
    <3>. QED  BY <1>1, <1>13, <1>14, <1>18, <1>19, <2>2, <3>1, <3>2 DEF Link, Idle, Holds, Listens, Parted
  <2>. QED  BY <2>1, <2>2
<1>21. ASSUME NEW b \in Battle, NEW i \in 1..2, tar_id[b][i] = x, b # x PROVE Link(b, i)'
  <2>1. pc'[b] = pc[b] /\ loser'[b] = loser[b]
    BY <1>13, <1>14, <1>21, Names
  <2>2. up'[x] = up[x] /\ down'[x] = down[x]
    BY <1>4, <1>15, Names
  <2>. QED  BY <1>3, <1>13, <1>21, <2>1, <2>2, ChildWorks DEF Owing, IInv, Links
<1>22. Links'
  <2>1. \A i \in 1..2 : Link(x, i)'
    <3>1. \A i \in 1..2 : i = 1 \/ i = 2
      OBVIOUS
    <3>. QED  BY <1>20, <3>1
  <2>2. \A q \in Process : q # x /\ q \notin Children(x) => up'[q] = up[q] /\ down'[q] = down[q]
    BY <1>4, <1>15
  <2>. QED  BY <1>3, <1>13, <1>14, <1>21, <2>1, <2>2, BattleLinks
<1>23. Reaped'
  BY <1>3, <1>13, Names, ReapedKept
<1>24. BattlesHold'
  <2>1. \A b \in Battle : b # x => Winner(b)' = Winner(b)
    BY <1>14 DEF Winner
  <2>2. Winner(x)' \in 1..2
    BY <1>14 DEF Winner
  <2>3. player'[x][Winner(x)'] \in Status
    BY <1>14, <2>2
  <2>. QED  BY <1>13, <1>14, <2>1, <2>3, Names DEF IInv, BattlesHold
<1>. QED  BY <1>13, <1>16, <1>22, <1>23, <1>24 DEF IInv

LEMMA WaitKeeps ==
  ASSUME IInv, NEW x \in Battle, Wait(x)
  PROVE  IInv'
<1>1. PICK e \in Process : Reaps(x, e)
  BY DEF Wait
<1>2. PICK t \in {"leave", "upward"} : t = IF x = Root THEN "leave" ELSE "upward"
  OBVIOUS
<1>3. /\ pc[x] = "wait" /\ pc' = [pc EXCEPT ![x] = t]
      /\ champion' = IF x = Root THEN Champion(x) ELSE champion
      /\ UNCHANGED <<player, loser, stat, full_hp, up, down, fifo>>
  BY <1>2 DEF Wait
<1>4. PICK f \in Process : Reaps(x, f) /\ f \in Children(x) /\ pc[f] = "exited"
                           /\ reaped' = reaped \cup {f}
  BY DEF Wait, Reaps, Children
<1>5. /\ pc'[x] = t /\ \A p \in Process : p # x => pc'[p] = pc[p]
      /\ pc' \in [Process -> Place]
      /\ Places' /\ Tree' /\ PlayersHold' /\ OneCarrier'
  BY <1>2, <1>3, BattleGoesOn
<1>6. TypeOK'
  <2>1. Champion(x) \in Real
    BY <1>3 DEF IInv, BattlesHold, Champion, Status
  <2>. QED  BY <1>3, <1>4, <1>5, <2>1 DEF IInv, TypeOK
<1>7. ASSUME NEW i \in 1..2 PROVE Link(x, i)'
  <2>1. PICK c \in Process : c = tar_id[x][i]
    BY ChildIsProcess
  <2>2. PICK j \in 1..2 : j # i
    OBVIOUS
  <2>3. c # x /\ Link(x, i)
    BY <1>3, <2>1, <2>2, Kids
  <2>4. Number(c)' = Number(c)
    BY <1>3 DEF Number, Winner
  <2>5. (GoesOn(c)' <=> GoesOn(c)) /\ (Ended(c)' <=> Ended(c))
    BY <1>3, <1>5, <2>3, <2>4, ChildStands
  <2>6. CASE x = Root \/ i = loser[x]
    BY <1>2, <1>3, <1>5, <2>1, <2>3, <2>5, <2>6 DEF Link, Idle, Holds, Listens, Parted
  <2>7. CASE x # Root /\ i # loser[x]
    BY <1>2, <1>3, <1>5, <2>1, <2>3, <2>5, <2>7 DEF Link, Idle, Holds, Listens, Parted
  <2>. QED  BY <2>6, <2>7
<1>8. ASSUME NEW b \in Battle, NEW i \in 1..2, tar_id[b][i] = x, b # x PROVE Link(b, i)'
  <2>1. pc'[b] = pc[b] /\ x # Root
    BY <1>5, <1>8, Names, ChildIsProcess
  <2>. QED  BY <1>2, <1>3, <1>5, <1>8, <2>1, ChildWorks DEF Owing, IInv, Links
<1>9. Links'
  BY <1>3, <1>5, <1>7, <1>8, BattleLinks
<1>10. Reaped'
  <2>1. \A p \in Process : pc[p] = "exited" => pc'[p] = "exited"
    BY <1>3, <1>5
  <2>2. \A b \in Battle : b # x => f \notin Children(b) /\ pc'[b] = pc[b]
    BY <1>4, <1>5, OneParent, Names DEF Children
  <2>3. \A c \in reaped' : pc'[c] = "exited"
    BY <1>4, <2>1 DEF IInv, TypeOK, Reaped
  <2>4. Children(x) \cap reaped' # {}
    BY <1>4
  <2>5. ASSUME NEW b \in Battle
        PROVE  /\ pc'[b] \in {"unborn", "fork", "first", "second", "wait"} => Children(b) \cap reaped' = {}
               /\ pc'[b] \in {"upward", "downward", "leave"} => Children(b) \cap reaped' # {}
               /\ pc'[b] = "exited" => Children(b) \subseteq reaped'
    <3>1. CASE b = x
      BY <1>5, <2>4, <3>1
    <3>2. CASE b # x
      BY <1>4, <2>2, <3>2 DEF IInv, Reaped
    <3>. QED  BY <3>1, <3>2
  <2>. QED  BY <2>3, <2>5 DEF Reaped, Children
<1>11. BattlesHold'
  BY <1>3, <1>5, Names DEF IInv, BattlesHold, Winner
<1>. QED  BY <1>5, <1>6, <1>9, <1>10, <1>11 DEF IInv

LEMMA LeaveKeeps ==
  ASSUME IInv, NEW x \in Battle, Leave(x)
  PROVE  IInv'
<1>1. /\ pc[x] = "leave" /\ pc' = [pc EXCEPT ![x] = "exited"]
      /\ UNCHANGED <<player, loser, stat, full_hp, up, down, fifo, champion>>
  BY DEF Leave
<1>2. PICK f \in Process : /\ f \in Children(x) /\ f \notin reaped /\ pc[f] = "exited"
                           /\ reaped' = reaped \cup {f}
  BY DEF Leave, Reaps, Children
<1>3. /\ pc'[x] = "exited" /\ \A p \in Process : p # x => pc'[p] = pc[p]
      /\ pc' \in [Process -> Place]
      /\ Places' /\ Tree' /\ PlayersHold' /\ OneCarrier'
  BY <1>1, BattleGoesOn
<1>4. TypeOK'
  BY <1>1, <1>2, <1>3 DEF IInv, TypeOK
<1>5. ASSUME NEW i \in 1..2 PROVE Link(x, i)'
  <2>1. PICK c \in Process : c = tar_id[x][i]
    BY ChildIsProcess
  <2>2. PICK j \in 1..2 : j # i
    OBVIOUS
  <2>3. c # x /\ Link(x, i)
    BY <1>1, <2>1, <2>2, Kids
  <2>4. Number(c)' = Number(c)
    BY <1>1 DEF Number, Winner
  <2>5. Ended(c)' <=> Ended(c)
    BY <1>1, <1>3, <2>3, <2>4, ChildStands
  <2>. QED  BY <1>1, <1>3, <2>1, <2>3, <2>5 DEF Link, Idle, Holds, Listens, Parted
<1>6. ASSUME NEW b \in Battle, NEW i \in 1..2, tar_id[b][i] = x, b # x PROVE Link(b, i)'
  <2>1. pc'[b] = pc[b]
    BY <1>3, <1>6, Names
  <2>. QED  BY <1>1, <1>3, <1>6, <2>1, ChildLeaves DEF Parting, IInv, Links
<1>7. Links'
  BY <1>1, <1>3, <1>5, <1>6, BattleLinks
<1>8. Reaped'
  <2>1. \A p \in Process : pc[p] = "exited" => pc'[p] = "exited"
    BY <1>1, <1>3
  <2>2. \A b \in Battle : b # x => f \notin Children(b) /\ pc'[b] = pc[b]
    BY <1>2, <1>3, OneParent, Names DEF Children
  <2>3. \A c \in reaped' : pc'[c] = "exited"
    BY <1>2, <2>1 DEF IInv, TypeOK, Reaped
  <2>4. Children(x) \subseteq reaped'
    BY <1>1, <1>2 DEF IInv, Reaped, Children
  <2>5. ASSUME NEW b \in Battle
        PROVE  /\ pc'[b] \in {"unborn", "fork", "first", "second", "wait"} => Children(b) \cap reaped' = {}
               /\ pc'[b] \in {"upward", "downward", "leave"} => Children(b) \cap reaped' # {}
               /\ pc'[b] = "exited" => Children(b) \subseteq reaped'
    <3>1. CASE b = x
      BY <1>3, <2>4, <3>1
    <3>2. CASE b # x
      BY <1>2, <2>2, <3>2 DEF IInv, Reaped
    <3>. QED  BY <3>1, <3>2
  <2>. QED  BY <2>3, <2>5 DEF Reaped, Children
<1>9. BattlesHold'
  BY <1>1, <1>3, Names DEF IInv, BattlesHold, Winner
<1>. QED  BY <1>3, <1>4, <1>7, <1>8, <1>9 DEF IInv

\* The two children of a relay: the finalist and the loser.
LEMMA Relay ==
  ASSUME IInv, NEW x \in Battle, pc[x] \in {"upward", "downward"}
  PROVE  \E w, k \in 1..2, c, d \in Process :
           /\ w = Winner(x) /\ k = loser[x] /\ w # k /\ \A i \in 1..2 : i = w \/ i = k
           /\ c = tar_id[x][w] /\ d = tar_id[x][k]
           /\ c # x /\ d # x /\ c # d /\ Children(x) = {c, d} /\ Link(x, w)
           /\ Ended(d)
<1>1. PICK w \in 1..2, k \in 1..2 : w = Winner(x) /\ k = loser[x] /\ w # k
  <2>1. loser[x] \in 1..2
    BY DEF IInv, TypeOK
  <2>. QED  BY <2>1 DEF Winner
<1>2. PICK c \in Process, d \in Process : c = tar_id[x][w] /\ d = tar_id[x][k]
  BY ChildIsProcess
<1>3. c # x /\ d # x /\ c # d /\ Children(x) = {c, d} /\ Link(x, w) /\ Link(x, k)
  BY <1>1, <1>2, Kids
<1>4. Ended(d)
  BY <1>1, <1>2, <1>3 DEF Link, Parted
<1>. QED  BY <1>1, <1>2, <1>3, <1>4

LEMMA RelayUpKeeps ==
  ASSUME IInv, NEW x \in Battle, RelayUp(x)
  PROVE  IInv'
<1>1. pc[x] = "upward"
  BY DEF RelayUp
<1>2. PICK w \in 1..2, k \in 1..2, c \in Process, d \in Process :
           /\ w = Winner(x) /\ k = loser[x] /\ w # k /\ \A i \in 1..2 : i = w \/ i = k
           /\ c = tar_id[x][w] /\ d = tar_id[x][k]
           /\ c # x /\ d # x /\ c # d /\ Children(x) = {c, d} /\ Link(x, w)
           /\ Ended(d)
  BY <1>1, Relay
<1>3. PICK h : h = Head(up[c])
  OBVIOUS
<1>4. /\ up[c] # <<>> /\ pc' = [pc EXCEPT ![x] = "downward"]
      /\ player' = [player EXCEPT ![x][w] = h]
      /\ up' = [up EXCEPT ![c] = Tail(up[c]), ![x] = Append(up[x], h)]
      /\ UNCHANGED <<loser, stat, full_hp, down, fifo, reaped, champion>>
  BY <1>2, <1>3 DEF RelayUp, Finalist, News
<1>5. /\ pc[c] \in Expecting /\ down[c] = <<>> /\ Fit(h) /\ h \in Status
      /\ h.real_player_id = Number(c) /\ Tail(up[c]) = <<>>
  <2>1. GoesOn(c)
    BY <1>1, <1>2 DEF Link, Listens
  <2>. QED  BY <1>3, <1>4, <2>1, ReadsChild DEF IInv, TypeOK, Fit
<1>6. x # Root
  BY <1>1 DEF IInv, Places
<1>7. /\ pc'[x] = "downward" /\ \A p \in Process : p # x => pc'[p] = pc[p]
      /\ pc' \in [Process -> Place]
      /\ Places' /\ Tree' /\ PlayersHold' /\ OneCarrier'
  BY <1>1, <1>4, <1>6, BattleGoesOn
<1>8. player'[x][w] = h /\ \A b \in Battle : b # x => player'[b] = player[b]
  BY <1>4 DEF IInv, TypeOK
<1>9. /\ up'[c] = <<>> /\ up'[x] = Append(up[x], h)
      /\ \A p \in Process : p \notin {c, x} => up'[p] = up[p]
  BY <1>2, <1>4, <1>5, Names DEF IInv, TypeOK
<1>10. TypeOK'
  <2>1. player' \in [Battle -> [1..2 -> Status \cup {NoStatus}]]
    BY <1>4, <1>5 DEF IInv, TypeOK
  <2>2. up' \in [Process -> Seq(Status)]
    BY <1>4, <1>5, Pipes DEF IInv, TypeOK
  <2>. QED  BY <1>4, <1>7, <2>1, <2>2 DEF IInv, TypeOK
<1>11. \A e \in {c, d} : Number(e)' = Number(e)
  BY <1>2, <1>4, <1>8, Names DEF Number, Winner
<1>12. Link(x, w)'
  <2>1. Waits(c)' /\ player'[x][w].real_player_id = Number(c)'
    BY <1>2, <1>4, <1>5, <1>7, <1>8, <1>9, <1>11 DEF Waits, Quiet
  <2>. QED  BY <1>2, <1>4, <1>7, <2>1 DEF Link, Idle, Listens, Parted
<1>13. Link(x, k)'
  <2>1. Ended(d)'
    BY <1>2, <1>4, <1>7, <1>9, <1>11, ChildStands
  <2>. QED  BY <1>2, <1>4, <1>7, <2>1 DEF Link, Idle, Holds, Listens
<1>14. ASSUME NEW b \in Battle, NEW i \in 1..2, tar_id[b][i] = x, b # x PROVE Link(b, i)'
  <2>1. pc'[b] = pc[b] /\ x \in Process
    BY <1>7, <1>14, Names
  <2>2. h.real_player_id = Number(x)'
    BY <1>2, <1>4, <1>8 DEF Number, Winner
  <2>. QED  BY <1>1, <1>4, <1>5, <1>7, <1>9, <1>14, <2>1, <2>2, ChildSends
         DEF Owing, Expecting, IInv, Links, TypeOK
<1>15. Links'
  <2>1. \A i \in 1..2 : Link(x, i)'
    BY <1>2, <1>12, <1>13
  <2>2. \A p \in Process : p # x /\ p \notin Children(x) => up'[p] = up[p] /\ down'[p] = down[p]
    BY <1>2, <1>4, <1>9
  <2>3. /\ pc[x] # "unborn" /\ stat' = stat
        /\ \A b \in Battle : b # x => loser'[b] = loser[b] /\ player'[b] = player[b]
    BY <1>1, <1>4, <1>7, <1>8
  <2>. QED  BY <1>7, <1>14, <2>1, <2>2, <2>3, BattleLinks
<1>16. Reaped'
  BY <1>1, <1>4, <1>7, Names, ReapedKept
<1>17. BattlesHold'
  BY <1>2, <1>4, <1>5, <1>7, <1>8, Names DEF IInv, BattlesHold, Winner
<1>. QED  BY <1>7, <1>10, <1>15, <1>16, <1>17 DEF IInv

\* Whoever finds a message from its parent was answered.
LEMMA HasAnswer ==
  ASSUME IInv, NEW c \in Process, c # Root, pc[c] \in Expecting, down[c] # <<>>
  PROVE  Answered(c)
<1>1. PICK b \in Battle, i \in 1..2 : c = tar_id[b][i]
  BY OneParent
<1>2. Idle(b) \/ Holds(b, i) \/ Listens(b, i) \/ Parted(b, i)
  <2>1. pc[b] \in BattlePlace /\ loser[b] \in 1..2 /\ (i = 1 \/ i = 2)
    BY DEF IInv, TypeOK, Places
  <2>. QED  BY <2>1 DEF Idle, Holds, Listens, Parted, BattlePlace
<1>3. ~Unborn(c) /\ ~Waits(c) /\ ~Owes(c) /\ ~Offers(c) /\ ~Done(c)
  BY DEF Unborn, Waits, Owes, Offers, Done, Quiet
<1>. QED  BY <1>1, <1>2, <1>3 DEF IInv, Links, Link, GoesOn, Ended

LEMMA RelayDownKeeps ==
  ASSUME IInv, NEW x \in Battle, RelayDown(x)
  PROVE  IInv'
<1>1. pc[x] = "downward" /\ down[x] # <<>>
  BY DEF RelayDown
<1>2. PICK w \in 1..2, k \in 1..2, c \in Process, d \in Process :
           /\ w = Winner(x) /\ k = loser[x] /\ w # k /\ \A i \in 1..2 : i = w \/ i = k
           /\ c = tar_id[x][w] /\ d = tar_id[x][k]
           /\ c # x /\ d # x /\ c # d /\ Children(x) = {c, d} /\ Link(x, w)
           /\ Ended(d)
  BY <1>1, Relay
<1>3. PICK s : s = Head(down[x])
  OBVIOUS
<1>4. PICK t \in {"leave", "upward"} : t = IF IsLast(s) THEN "leave" ELSE "upward"
  OBVIOUS
<1>5. /\ pc' = [pc EXCEPT ![x] = t]
      /\ player' = [player EXCEPT ![x][w] = s]
      /\ down' = [down EXCEPT ![x] = Tail(down[x]), ![c] = Append(down[c], s)]
      /\ UNCHANGED <<loser, stat, full_hp, up, fifo, reaped, champion>>
  BY <1>2, <1>3, <1>4 DEF RelayDown, Finalist
<1>6. x # Root /\ x \in Process
  BY <1>1, Names DEF IInv, Places
<1>7. Answer(s) /\ s \in Status /\ s.real_player_id = Number(x)
  <2>1. Answered(x)
    BY <1>1, <1>6, HasAnswer DEF Expecting
  <2>. QED  BY <1>3, <2>1 DEF Answered, Answer
<1>8. Waits(c) /\ s.real_player_id = Number(c)
  BY <1>1, <1>2, <1>7 DEF Link, Holds, Number
<1>9. /\ pc'[x] = t /\ \A p \in Process : p # x => pc'[p] = pc[p]
      /\ pc' \in [Process -> Place]
      /\ Places' /\ Tree' /\ PlayersHold' /\ OneCarrier'
  BY <1>1, <1>5, <1>6, BattleGoesOn
<1>10. player'[x][w] = s /\ \A b \in Battle : b # x => player'[b] = player[b]
  BY <1>5 DEF IInv, TypeOK
<1>11. /\ down[c] = <<>> /\ up[c] = <<>> /\ down'[c] = Append(down[c], s)
       /\ down'[x] = Tail(down[x])
       /\ \A p \in Process : p \notin {c, x} => down'[p] = down[p]
  BY <1>2, <1>5, <1>6, <1>8 DEF IInv, TypeOK, Waits, Quiet
<1>12. TypeOK'
  <2>1. player' \in [Battle -> [1..2 -> Status \cup {NoStatus}]]
    BY <1>5, <1>7 DEF IInv, TypeOK
  <2>2. down' \in [Process -> Seq(Status)]
    BY <1>1, <1>5, <1>7, Pipes DEF IInv, TypeOK
  <2>. QED  BY <1>5, <1>9, <2>1, <2>2 DEF IInv, TypeOK
<1>13. \A e \in {c, d} : Number(e)' = Number(e)
  BY <1>2, <1>5, <1>10, Names DEF Number, Winner
<1>14. Link(x, w)'
  <2>1. pc'[c] \in Expecting /\ up'[c] = <<>> /\ s.real_player_id = Number(c)'
    BY <1>2, <1>5, <1>8, <1>9, <1>11, <1>13 DEF Waits
  <2>2. /\ IsLast(s) => Ended(c)'
        /\ ~IsLast(s) => GoesOn(c)'
    BY <1>7, <1>11, <2>1, TellsChild
  <2>. QED  BY <1>2, <1>4, <1>5, <1>9, <2>2 DEF Link, Idle, Holds, Listens, Parted
<1>15. Link(x, k)'
  <2>1. Ended(d)'
    BY <1>2, <1>5, <1>9, <1>11, <1>13, ChildStands
  <2>. QED  BY <1>2, <1>5, <1>9, <2>1 DEF Link, Idle, Holds, Listens
<1>16. ASSUME NEW b \in Battle, NEW i \in 1..2, tar_id[b][i] = x, b # x PROVE Link(b, i)'
  <2>1. pc'[b] = pc[b]
    BY <1>9, <1>16, Names
  <2>2. IF IsLast(Head(down[x])) THEN pc'[x] \in Parting ELSE pc'[x] \in Owing
    <3>1. t = IF IsLast(Head(down[x])) THEN "leave" ELSE "upward"
      BY <1>3, <1>4
    <3>2. "leave" \in Parting /\ "upward" \in Owing
      BY DEF Parting, Owing
    <3>. QED  BY <1>9, <3>1, <3>2
  <2>3. Link(b, i) /\ loser'[b] = loser[b] /\ up'[x] = up[x] /\ down \in [Process -> Seq(Status)]
    BY <1>5 DEF IInv, Links, TypeOK
  <2>4. pc[x] \in Expecting /\ down[x] # <<>> /\ down'[x] = Tail(down[x])
    BY <1>1, <1>11 DEF Expecting
  <2>. QED  BY <1>6, <1>16, <2>1, <2>2, <2>3, <2>4, ChildHears
         DEF Expecting, IInv, Links, TypeOK
<1>17. Links'
  <2>1. \A i \in 1..2 : Link(x, i)'
    BY <1>2, <1>14, <1>15
  <2>2. \A p \in Process : p # x /\ p \notin Children(x) => up'[p] = up[p] /\ down'[p] = down[p]
    BY <1>2, <1>5, <1>11
  <2>3. /\ pc[x] # "unborn" /\ stat' = stat
        /\ \A b \in Battle : b # x => loser'[b] = loser[b] /\ player'[b] = player[b]
    BY <1>1, <1>5, <1>9, <1>10
  <2>. QED  BY <1>9, <1>16, <2>1, <2>2, <2>3, BattleLinks
<1>18. Reaped'
  BY <1>1, <1>5, <1>9, Names, ReapedKept
<1>19. BattlesHold'
  BY <1>5, <1>9, <1>10, Names DEF IInv, BattlesHold, Winner
<1>. QED  BY <1>9, <1>12, <1>17, <1>18, <1>19 DEF IInv

LEMMA ForkKeeps ==
  ASSUME IInv, NEW x \in Battle, Fork(x)
  PROVE  IInv'
<1>1. PICK c \in Process, d \in Process : c = tar_id[x][1] /\ d = tar_id[x][2]
  BY ChildIsProcess
<1>2. /\ pc[x] = "fork"
      /\ pc' = [p \in Process |-> IF p = x THEN "first"
                                  ELSE IF p \in {c, d} THEN Entry(p) ELSE pc[p]]
      /\ UNCHANGED <<player, loser, stat, full_hp, up, down, fifo, reaped, champion>>
  BY <1>1 DEF Fork
<1>3. /\ c # x /\ d # x /\ c # d /\ Children(x) = {c, d} /\ Link(x, 1) /\ Link(x, 2)
  BY <1>1, <1>2, Kids
<1>4. Unborn(c) /\ Unborn(d)
  BY <1>1, <1>2, <1>3 DEF Link, Idle
<1>5. x \in Process /\ pc'[x] = "first" /\ pc'[c] = Entry(c) /\ pc'[d] = Entry(d)
      /\ \A p \in Process : p \notin {x, c, d} => pc'[p] = pc[p]
  BY <1>2, <1>3, Names
<1>6. ASSUME NEW e \in {c, d}
      PROVE  /\ e \in Process /\ pc[e] = "unborn"
             /\ e \in Battle => pc'[e] = "fork"
             /\ e \in Real => pc'[e] = "send"
             /\ e \in Agent => pc'[e] = "open"
             /\ pc'[e] \in {"fork", "send", "open"}
  BY <1>4, <1>5, Names DEF Entry, Unborn
<1>7. TypeOK'
  <2>1. \A p \in Process : pc'[p] \in Place
    BY <1>5, <1>6 DEF IInv, TypeOK, Place
  <2>2. pc' \in [Process -> Place]
    BY <1>2, <2>1
  <2>. QED  BY <1>2, <2>2 DEF IInv, TypeOK
<1>8. Places'
  BY <1>3, <1>5, <1>6, Names, Kids, ChildIsProcess, <1>1 DEF IInv, Places, BattlePlace, RealPlace, AgentPlace
<1>9. Tree'
  <2>. SUFFICES ASSUME NEW b \in Battle, NEW e \in Battle, e \in Children(b), b \in Children(e)
                PROVE  pc'[b] = "unborn"
    BY DEF Tree, Children
  <2>1. pc[b] = "unborn" /\ pc[e] = "unborn"
    BY DEF IInv, Tree
  <2>2. b # x /\ e # x
    BY <1>2, <2>1
  <2>3. b \notin Children(x)
    BY <2>2, OneParent DEF Children
  <2>. QED  BY <1>3, <1>5, <2>1, <2>2, <2>3, Names
<1>10. ASSUME NEW e \in {c, d} PROVE GoesOn(e)'
  BY <1>2, <1>4, <1>6 DEF GoesOn, Owes, Owing, Unborn, Quiet
<1>11. \A i \in 1..2 : Link(x, i)'
  <2>1. Link(x, 1)' /\ Link(x, 2)'
    BY <1>1, <1>5, <1>10 DEF Link, Idle, Holds, Parted
  <2>2. \A i \in 1..2 : i = 1 \/ i = 2
    OBVIOUS
  <2>. QED  BY <2>1, <2>2
<1>12. ASSUME NEW b \in Battle, NEW i \in 1..2, tar_id[b][i] = x, b # x PROVE Link(b, i)'
  <2>1. b # c /\ b # d
    <3>1. \A j \in 1..2 : tar_id[x][j] \in Battle => tar_id[tar_id[x][j]][i] # x
      BY <1>2, NoLoop DEF IInv
    <3>. QED  BY <1>1, <1>12, <3>1
  <2>2. pc'[b] = pc[b]
    BY <1>5, <1>12, <2>1, Names
  <2>. QED  BY <1>2, <1>5, <1>12, <2>2, ChildWorks DEF Owing, IInv, Links
<1>13. ASSUME NEW b \in Battle, NEW i \in 1..2, b \in {c, d} PROVE Link(b, i)'
  <2>1. PICK e \in Process : e = tar_id[b][i]
    BY ChildIsProcess
  <2>2. Unborn(e)
    BY <1>6, <1>13, <2>1 DEF IInv, Links, Link, Idle
  <2>3. e # x /\ e # c /\ e # d
    BY <1>1, <1>2, <1>3, <1>13, <2>1, <2>2, OneParent DEF Unborn
  <2>4. Unborn(e)'
    BY <1>2, <1>5, <2>2, <2>3 DEF Unborn, Quiet
  <2>5. pc'[b] = "fork"
    BY <1>6, <1>13
  <2>. QED  BY <2>1, <2>4, <2>5 DEF Link, Holds, Listens, Parted
<1>14. Links'
  <2>1. PICK X : X = {x, c, d}
    OBVIOUS
  <2>2. \A b \in Battle, i \in 1..2 :
          b \in X \/ tar_id[b][i] \in X \/ tar_id[b][i] \in {} => Link(b, i)'
    <3>. SUFFICES ASSUME NEW b \in Battle, NEW i \in 1..2, b \in X \/ tar_id[b][i] \in X
                  PROVE  Link(b, i)'
      OBVIOUS
    <3>1. CASE tar_id[b][i] \in {c, d}
      BY <1>1, <1>11, <3>1, OneParent
    <3>. QED  BY <1>11, <1>12, <1>13, <2>1, <3>1
  <2>3. /\ \A b \in Battle : b \notin X => /\ pc'[b] = pc[b] /\ loser'[b] = loser[b]
                                           /\ player'[b] = player[b]
        /\ \A p \in Player : p \notin X => pc'[p] = pc[p] /\ stat'[p] = stat[p]
        /\ \A e \in Process : e \notin {} => up'[e] = up[e] /\ down'[e] = down[e]
    BY <1>2, <1>5, <2>1, Names
  <2>. QED  BY <2>2, <2>3, LinksKept DEF IInv
<1>15. Reaped'
  <2>1. \A p \in Process : pc[p] = "exited" => pc'[p] = "exited"
    BY <1>2, <1>5, <1>6
  <2>2. \A b \in Battle : \/ pc'[b] = pc[b]
                          \/ pc[b] \in {"unborn", "fork", "first", "second"} /\
                             pc'[b] \in {"fork", "first", "second", "wait"}
    BY <1>2, <1>5, <1>6, Names
  <2>. QED  BY <1>2, <2>1, <2>2, ReapedKept
<1>16. BattlesHold'
  BY <1>2, <1>5, <1>6, Names DEF IInv, BattlesHold, Winner
<1>17. \A p \in Player : pc'[p] = pc[p] \/ (pc[p] = "unborn" /\ pc'[p] = IF p \in Real THEN "send" ELSE "open")
  BY <1>5, <1>6, Names
<1>18. PlayersHold'
  BY <1>2, <1>17, Names DEF IInv, PlayersHold
<1>19. OneCarrier'
  <2>1. ASSUME NEW p \in Player, NEW r \in Real, Carries(p, r)' PROVE Carries(p, r)
    <3>1. CASE p \in Real
      BY <1>17, <2>1, <3>1, Names DEF Carries
    <3>2. CASE p \in Agent
      BY <1>2, <1>17, <2>1, <3>2, Names DEF Carries
    <3>. QED  BY <3>1, <3>2, Names
  <2>. QED  BY <2>1 DEF IInv, OneCarrier
<1>. QED  BY <1>7, <1>8, <1>9, <1>14, <1>15, <1>16, <1>18, <1>19 DEF IInv

-----------------------------------------------------------------------------
(* The steps of players and agents.                                        *)

\* A step of players and agents, X, with the pipes of some of them, keeps all
\* links if it keeps those to their parents.
LEMMA PlayerLinks ==
  ASSUME IInv, NEW X \in SUBSET Player,
         \A p \in Process : p \notin X => pc'[p] = pc[p],
         \A p \in Player : p \notin X => stat'[p] = stat[p],
         \A c \in Process : c \notin X => up'[c] = up[c] /\ down'[c] = down[c],
         UNCHANGED <<player, loser>>,
         \A b \in Battle, i \in 1..2 : tar_id[b][i] \in X => Link(b, i)'
  PROVE  Links'
<1>1. \A b \in Battle : b \notin X
  BY Names
<1>2. \A b \in Battle, i \in 1..2 : b \in X \/ tar_id[b][i] \in X \/ tar_id[b][i] \in X => Link(b, i)'
  BY <1>1
<1>3. /\ \A b \in Battle : b \notin X => /\ pc'[b] = pc[b] /\ loser'[b] = loser[b]
                                         /\ player'[b] = player[b]
      /\ \A p \in Player : p \notin X => pc'[p] = pc[p] /\ stat'[p] = stat[p]
  BY Names
<1>. QED  BY <1>2, <1>3, LinksKept DEF IInv

\* What a step of players and agents leaves as it is.
LEMMA PlayersGoOn ==
  ASSUME IInv, NEW X \in SUBSET Player,
         \A p \in Process : p \notin X => pc'[p] = pc[p],
         \A p \in Process : pc[p] = "exited" => pc'[p] = "exited",
         \A p \in X \cap Real : pc'[p] \in RealPlace,
         \A p \in X \cap Agent : pc'[p] \in AgentPlace,
         UNCHANGED <<player, loser, reaped>>
  PROVE  Places' /\ Tree' /\ Reaped' /\ BattlesHold'
<1>1. \A b \in Battle : pc'[b] = pc[b]
  BY Names
<1>2. Places'
  BY <1>1, Names DEF IInv, Places
<1>3. Tree'
  BY <1>1 DEF IInv, Tree
<1>4. Reaped'
  BY <1>1, ReapedKept
<1>5. BattlesHold'
  BY <1>1 DEF IInv, BattlesHold, Winner
<1>. QED  BY <1>2, <1>3, <1>4, <1>5

LEMMA SendKeeps ==
  ASSUME IInv, NEW p \in Player, Send(p)
  PROVE  IInv'
<1>1. /\ pc[p] = "send" /\ up' = [up EXCEPT ![p] = Append(up[p], stat[p])]
      /\ pc' = [pc EXCEPT ![p] = "receive"]
      /\ UNCHANGED <<player, loser, stat, full_hp, down, fifo, reaped, champion>>
  BY DEF Send
<1>2. p \in Process /\ p \in Real \cup Agent /\ p \notin Battle
  BY Names
<1>3. pc'[p] = "receive" /\ \A q \in Process : q # p => pc'[q] = pc[q]
  BY <1>1, <1>2 DEF IInv, TypeOK
<1>4. Fit(stat[p]) /\ stat[p] \in Status
  BY <1>1, <1>2 DEF IInv, PlayersHold, Fit
<1>5. up'[p] = Append(up[p], stat[p]) /\ \A q \in Process : q # p => up'[q] = up[q]
  BY <1>1, <1>2 DEF IInv, TypeOK
<1>6. TypeOK'
  <2>1. up' \in [Process -> Seq(Status)]
    BY <1>1, <1>4, Pipes DEF IInv, TypeOK
  <2>. QED  BY <1>1, <2>1 DEF IInv, TypeOK, Place
<1>7. Places' /\ Tree' /\ Reaped' /\ BattlesHold'
  <2>1. {p} \in SUBSET Player
    OBVIOUS
  <2>2. \A q \in Process : pc[q] = "exited" => pc'[q] = "exited"
    BY <1>1, <1>3
  <2>. QED  BY <1>1, <1>3, <2>1, <2>2, PlayersGoOn DEF RealPlace, AgentPlace
<1>8. ASSUME NEW b \in Battle, NEW i \in 1..2, tar_id[b][i] = p PROVE Link(b, i)'
  <2>1. pc'[b] = pc[b] /\ stat[p].real_player_id = Number(p)'
    BY <1>1, <1>2, <1>3, Names DEF Number
  <2>. QED  BY <1>1, <1>2, <1>3, <1>4, <1>5, <1>8, <2>1, ChildSends
         DEF Owing, Expecting, IInv, Links, TypeOK
<1>9. Links'
  <2>. DEFINE X == {p}
  <2>1. X \in SUBSET Player
    OBVIOUS
  <2>2. \A q \in Process : q \notin X => pc'[q] = pc[q]
    BY <1>3
  <2>3. \A q \in Player : q \notin X => stat'[q] = stat[q]
    BY <1>1
  <2>4. \A q \in Process : q \notin X => up'[q] = up[q] /\ down'[q] = down[q]
    BY <1>1, <1>5
  <2>5. \A b \in Battle, i \in 1..2 : tar_id[b][i] \in X => Link(b, i)'
    BY <1>8
  <2>6. UNCHANGED <<player, loser>>
    BY <1>1
  <2>. HIDE DEF X
  <2>. QED  BY <2>1, <2>2, <2>3, <2>4, <2>5, <2>6, PlayerLinks
<1>10. PlayersHold'
  BY <1>1, <1>3, Names DEF IInv, PlayersHold
<1>11. OneCarrier'
  <2>1. ASSUME NEW q \in Player, NEW r \in Real, Carries(q, r)' PROVE Carries(q, r)
    <3>1. CASE q \in Real
      BY <1>1, <1>3, <2>1, <3>1, Names DEF Carries
    <3>2. CASE q \in Agent
      BY <1>1, <1>3, <2>1, <3>2, Names DEF Carries
    <3>. QED  BY <3>1, <3>2, Names
  <2>. QED  BY <2>1 DEF IInv, OneCarrier
<1>. QED  BY <1>6, <1>7, <1>9, <1>10, <1>11 DEF IInv

\* A Status after a battle: it is somebody's who can fight on.
LEMMA Recovers ==
  ASSUME IInv, NEW p \in Player, full_hp[p] > 0, NEW s \in Status
  PROVE  /\ s.HP > 0 => Fit(Recovered(p, s))
         /\ Fit(Restored(p, s))
         /\ Recovered(p, s).real_player_id = s.real_player_id
         /\ Restored(p, s).real_player_id = s.real_player_id
<1>1. PICK f \in Nat : f = full_hp[p] /\ f > 0
  BY DEF IInv, TypeOK
<1>2. PICK h \in Int : h = s.HP
  BY DEF Status
<1>3. PICK g \in Int : g = h + (f - h) \div 2 /\ (h > 0 => g > 0)
  <2>1. h + (f - h) \div 2 \in Int /\ (h > 0 => h + (f - h) \div 2 > 0)
    BY <1>1, <1>2
  <2>. QED  BY <2>1
<1>4. /\ Recovered(p, s) = [s EXCEPT !.HP = g, !.battle_ended_flag = FALSE]
      /\ Restored(p, s) = [s EXCEPT !.HP = f, !.battle_ended_flag = FALSE]
  BY <1>1, <1>2, <1>3 DEF Recovered, Restored
<1>5. ASSUME NEW e \in Int
      PROVE  LET t == [s EXCEPT !.HP = e, !.battle_ended_flag = FALSE] IN
             /\ t \in Status /\ t.HP = e /\ ~t.battle_ended_flag
             /\ t.real_player_id = s.real_player_id
  BY DEF Status
<1>6. PICK t : t = Recovered(p, s)
  OBVIOUS
<1>7. t \in Status /\ t.HP = g /\ ~t.battle_ended_flag /\ t.real_player_id = s.real_player_id
  BY <1>4, <1>5, <1>6
<1>8. PICK u : u = Restored(p, s)
  OBVIOUS
<1>9. u \in Status /\ u.HP = f /\ ~u.battle_ended_flag /\ u.real_player_id = s.real_player_id
  <2>1. f \in Int
    OBVIOUS
  <2>. QED  BY <1>4, <1>5, <1>8, <2>1
<1>. QED  BY <1>1, <1>2, <1>3, <1>6, <1>7, <1>8, <1>9 DEF Fit

LEMMA ReceiveKeeps ==
  ASSUME IInv, NEW p \in Player, Receive(p)
  PROVE  IInv'
<1>1. PICK s : s = Head(down[p])
  OBVIOUS
<1>2. /\ pc[p] = "receive" /\ down[p] # <<>> /\ down' = [down EXCEPT ![p] = Tail(down[p])]
      /\ UNCHANGED <<player, loser, full_hp, up, fifo, reaped, champion>>
  BY DEF Receive
<1>3. p \in Process /\ p \in Real \cup Agent /\ p \notin Battle /\ p # Root
  BY Names
<1>4. /\ s \in Status
      /\ s.HP > 0 \/ s.battle_ended_flag
      /\ s.real_player_id = stat[p].real_player_id
  <2>1. Answered(p)
    BY <1>2, <1>3, HasAnswer DEF Expecting
  <2>. QED  BY <1>1, <1>3, <2>1 DEF Answered, Answer, Number
<1>5. stat[p] \in Status /\ full_hp[p] > 0
  BY <1>2, <1>3 DEF IInv, PlayersHold
<1>6. PICK r, u : r = Recovered(p, s) /\ u = Restored(p, s)
  OBVIOUS
<1>7. /\ s.HP > 0 => Fit(r)
      /\ Fit(u) /\ r.real_player_id = s.real_player_id /\ u.real_player_id = s.real_player_id
  BY <1>4, <1>5, <1>6, Recovers
<1>8. s.HP \in Int /\ s.battle_ended_flag \in BOOLEAN
  BY <1>4 DEF Status
<1>9. \E t \in {"send", "exited", "hand"}, v \in Status :
        /\ pc' = [pc EXCEPT ![p] = t] /\ stat' = [stat EXCEPT ![p] = v]
        /\ v.real_player_id = s.real_player_id
        /\ t \in {"send", "hand"} => Fit(v)
        /\ t = "hand" => p \in Real
        /\ IF IsLast(s) THEN t \in {"exited", "hand"} ELSE t = "send"
  <2>1. CASE ~s.battle_ended_flag
    <3>1. ~IsLast(s) /\ Fit(s)
      BY <1>4, <1>8, <2>1 DEF IsLast, EndsAll, Fit
    <3>2. stat' = [stat EXCEPT ![p] = s] /\ pc' = [pc EXCEPT ![p] = "send"]
      BY <1>1, <2>1 DEF Receive, EndsAll
    <3>. QED  BY <1>4, <3>1, <3>2
  <2>2. CASE EndsAll(s)
    <3>1. stat' = [stat EXCEPT ![p] = s] /\ pc' = [pc EXCEPT ![p] = "exited"]
      BY <1>1, <2>2 DEF Receive, EndsAll
    <3>. QED  BY <1>4, <2>2, <3>1 DEF IsLast
  <2>3. CASE s.battle_ended_flag /\ ~EndsAll(s) /\ s.HP > 0
    <3>1. ~IsLast(s) /\ Fit(r) /\ r \in Status
      BY <1>7, <1>8, <2>3 DEF IsLast, Fit
    <3>2. stat' = [stat EXCEPT ![p] = r] /\ pc' = [pc EXCEPT ![p] = "send"]
      BY <1>1, <1>6, <1>8, <2>3 DEF Receive
    <3>. QED  BY <1>7, <3>1, <3>2
  <2>4. CASE s.battle_ended_flag /\ ~EndsAll(s) /\ s.HP <= 0
    <3>1. IsLast(s) /\ Fit(u) /\ u \in Status
      BY <1>7, <2>4 DEF IsLast, Fit
    <3>2. /\ stat' = [stat EXCEPT ![p] = IF p \in Real THEN u ELSE s]
          /\ pc' = [pc EXCEPT ![p] = IF p \in Real THEN "hand" ELSE "exited"]
      BY <1>1, <1>6, <1>8, <2>4 DEF Receive
    <3>. QED  BY <1>4, <1>7, <3>1, <3>2
  <2>. QED  BY <1>8, <2>1, <2>2, <2>3, <2>4
<1>10. PICK t \in {"send", "exited", "hand"}, v \in Status :
        /\ pc' = [pc EXCEPT ![p] = t] /\ stat' = [stat EXCEPT ![p] = v]
        /\ v.real_player_id = s.real_player_id
        /\ t \in {"send", "hand"} => Fit(v)
        /\ t = "hand" => p \in Real
        /\ IF IsLast(s) THEN t \in {"exited", "hand"} ELSE t = "send"
  BY <1>9
<1>11. /\ pc'[p] = t /\ \A q \in Process : q # p => pc'[q] = pc[q]
       /\ stat'[p] = v /\ \A q \in Player : q # p => stat'[q] = stat[q]
       /\ down'[p] = Tail(down[p]) /\ \A q \in Process : q # p => down'[q] = down[q]
  BY <1>2, <1>3, <1>10 DEF IInv, TypeOK
<1>12. TypeOK'
  <2>1. down' \in [Process -> Seq(Status)]
    BY <1>2, Pipes DEF IInv, TypeOK
  <2>2. stat' \in [Player -> Status \cup {NoStatus}]
    BY <1>10 DEF IInv, TypeOK
  <2>3. pc' \in [Process -> Place]
    BY <1>10 DEF IInv, TypeOK, Place
  <2>. QED  BY <1>2, <2>1, <2>2, <2>3 DEF IInv, TypeOK
<1>13. {p} \in SUBSET Player
  OBVIOUS
<1>14. Places' /\ Tree' /\ Reaped' /\ BattlesHold'
  <2>1. \A q \in Process : pc[q] = "exited" => pc'[q] = "exited"
    BY <1>2, <1>11
  <2>2. p \in Agent => t # "hand"
    BY <1>10, Names
  <2>3. p \in Real => pc'[p] \in RealPlace
    BY <1>10, <1>11 DEF RealPlace
  <2>4. p \in Agent => pc'[p] \in AgentPlace
    BY <1>10, <1>11, <2>2 DEF AgentPlace
  <2>5. UNCHANGED <<player, loser, reaped>>
    BY <1>2
  <2>6. \A q \in Process : q \notin {p} => pc'[q] = pc[q]
    BY <1>11
  <2>. QED  BY <1>13, <2>1, <2>3, <2>4, <2>5, <2>6, PlayersGoOn
<1>15. ASSUME NEW b \in Battle, NEW i \in 1..2, tar_id[b][i] = p PROVE Link(b, i)'
  <2>1. pc'[b] = pc[b]
    BY <1>3, <1>11, Names
  <2>2. IF IsLast(Head(down[p])) THEN pc'[p] \in Parting ELSE pc'[p] \in Owing
    BY <1>1, <1>10, <1>11 DEF Parting, Owing
  <2>. QED  BY <1>2, <1>3, <1>11, <1>15, <2>1, <2>2, ChildHears DEF Expecting, IInv, Links, TypeOK
<1>16. Links'
  BY <1>2, <1>11, <1>13, <1>15, PlayerLinks
<1>17. PlayersHold'
  BY <1>2, <1>4, <1>10, <1>11, Names DEF IInv, PlayersHold
<1>18. OneCarrier'
  <2>1. ASSUME NEW q \in Player, NEW e \in Real, Carries(q, e)' PROVE Carries(q, e)
    <3>1. CASE q \in Real
      BY <1>2, <1>11, <2>1, <3>1, Names DEF Carries
    <3>2. CASE q \in Agent
      BY <1>2, <1>4, <1>10, <1>11, <2>1, <3>2, Names DEF Carries
    <3>. QED  BY <3>1, <3>2, Names
  <2>. QED  BY <2>1 DEF IInv, OneCarrier
<1>. QED  BY <1>12, <1>14, <1>16, <1>17, <1>18 DEF IInv

LEMMA HandOverKeeps ==
  ASSUME IInv, NEW p \in Real, HandOver(p)
  PROVE  IInv'
<1>1. PICK a \in Agent : a = Successor(p)
  BY DEF HandOver
<1>2. /\ pc[p] = "hand" /\ pc[a] = "open"
      /\ fifo' = [fifo EXCEPT ![a] = Append(fifo[a], stat[p])]
      /\ pc' = [pc EXCEPT ![p] = "exited", ![a] = "take"]
      /\ UNCHANGED <<player, loser, stat, full_hp, up, down, reaped, champion>>
  BY <1>1 DEF HandOver, Succeeded
<1>3. /\ p \in Process /\ p \in Player /\ a \in Process /\ a \in Player /\ p # a
      /\ p \notin Agent /\ a \notin Real
  BY Names
<1>4. /\ pc'[p] = "exited" /\ pc'[a] = "take"
      /\ \A q \in Process : q \notin {p, a} => pc'[q] = pc[q]
  BY <1>2, <1>3 DEF IInv, TypeOK
<1>5. Fit(stat[p]) /\ stat[p] \in Status /\ stat[p].real_player_id = p /\ fifo[a] = <<>>
  BY <1>2 DEF IInv, PlayersHold
<1>6. /\ Len(fifo'[a]) = 1 /\ Head(fifo'[a]) = stat[p]
      /\ \A q \in Agent : q # a => fifo'[q] = fifo[q]
  <2>1. fifo[a] \in Seq(Status) /\ fifo'[a] = Append(fifo[a], stat[p])
    BY <1>2 DEF IInv, TypeOK
  <2>2. Len(fifo'[a]) = 1 /\ Head(fifo'[a]) = stat[p]
    BY <1>5, <2>1, Pipes
  <2>. QED  BY <1>2, <2>2 DEF IInv, TypeOK
<1>7. TypeOK'
  <2>1. fifo' \in [Agent -> Seq(Status)]
    BY <1>2, <1>5, Pipes DEF IInv, TypeOK
  <2>2. pc' \in [Process -> Place]
    BY <1>2 DEF IInv, TypeOK, Place
  <2>. QED  BY <1>2, <2>1, <2>2 DEF IInv, TypeOK
<1>8. {p, a} \in SUBSET Player
  BY <1>3
<1>9. Places' /\ Tree' /\ Reaped' /\ BattlesHold'
  <2>1. \A q \in Process : pc[q] = "exited" => pc'[q] = "exited"
    BY <1>2, <1>4
  <2>. QED  BY <1>2, <1>3, <1>4, <1>8, <2>1, PlayersGoOn DEF RealPlace, AgentPlace
<1>10. ASSUME NEW b \in Battle, NEW i \in 1..2, tar_id[b][i] \in {p, a} PROVE Link(b, i)'
  <2>1. pc'[b] = pc[b]
    BY <1>3, <1>4, Names
  <2>2. CASE tar_id[b][i] = p
    BY <1>2, <1>4, <2>1, <2>2, ChildLeaves DEF Parting, IInv, Links
  <2>3. CASE tar_id[b][i] = a
    BY <1>2, <1>4, <2>1, <2>3, ChildWorks DEF Owing, IInv, Links
  <2>. QED  BY <1>10, <2>2, <2>3
<1>11. Links'
  BY <1>2, <1>4, <1>8, <1>10, PlayerLinks
<1>12. PlayersHold'
  <2>1. ASSUME NEW r \in Real
        PROVE  /\ stat'[r] \in Status /\ stat'[r].real_player_id = r /\ full_hp'[r] > 0
               /\ pc'[r] \in {"unborn", "send", "hand"} => Fit(stat'[r])
    <3>1. r = p \/ pc'[r] = pc[r]
      BY <1>3, <1>4, Names
    <3>. QED  BY <1>2, <1>4, <3>1 DEF IInv, PlayersHold
  <2>2. ASSUME NEW q \in Agent
        PROVE  /\ pc'[q] \in {"send", "receive"} => stat'[q] \in Status /\ full_hp'[q] > 0
               /\ pc'[q] = "send" => Fit(stat'[q])
               /\ pc'[q] = "take" => Len(fifo'[q]) = 1 /\ Fit(Head(fifo'[q]))
               /\ pc'[q] # "take" => fifo'[q] = <<>>
    <3>1. CASE q = a
      BY <1>4, <1>5, <1>6, <3>1
    <3>2. CASE q # a
      <4>1. pc'[q] = pc[q] /\ fifo'[q] = fifo[q]
        BY <1>3, <1>4, <1>6, <3>2, Names
      <4>. QED  BY <1>2, <4>1 DEF IInv, PlayersHold
    <3>. QED  BY <3>1, <3>2
  <2>. QED  BY <2>1, <2>2 DEF PlayersHold, Fit
<1>13. OneCarrier'
  <2>1. ASSUME NEW q \in Player, NEW e \in Real, Carries(q, e)'
        PROVE  q # p /\ (q # a => Carries(q, e)) /\ (q = a => Carries(p, e))
    <3>1. CASE q \in Real
      BY <1>3, <1>4, <2>1, <3>1, Names DEF Carries
    <3>2. CASE q \in Agent /\ q # a
      BY <1>2, <1>3, <1>4, <1>6, <2>1, <3>2, Names DEF Carries
    <3>3. CASE q = a
      <4>1. e = p
        BY <1>3, <1>4, <1>5, <1>6, <2>1, <3>3 DEF Carries
      <4>. QED  BY <1>2, <1>3, <3>3, <4>1 DEF Carries
    <3>. QED  BY <3>1, <3>2, <3>3, Names
  <2>. SUFFICES ASSUME NEW q \in Player, NEW o \in Player, NEW e \in Real,
                       Carries(q, e)', Carries(o, e)'
                PROVE  q = o
    BY DEF OneCarrier, Player, Process
  <2>2. CASE q = a \/ o = a
    BY <1>3, <2>1, <2>2 DEF IInv, OneCarrier
  <2>3. CASE q # a /\ o # a
    BY <2>1, <2>3 DEF IInv, OneCarrier
  <2>. QED  BY <2>2, <2>3
<1>. QED  BY <1>7, <1>9, <1>11, <1>12, <1>13 DEF IInv

LEMMA TakeOverKeeps ==
  ASSUME IInv, NEW a \in Agent, TakeOver(a)
  PROVE  IInv'
<1>1. PICK v : v = Head(fifo[a])
  OBVIOUS
<1>2. /\ pc[a] = "take" /\ pc' = [pc EXCEPT ![a] = "send"]
      /\ stat' = [stat EXCEPT ![a] = v] /\ full_hp' = [full_hp EXCEPT ![a] = v.HP]
      /\ fifo' = [fifo EXCEPT ![a] = Tail(fifo[a])]
      /\ UNCHANGED <<player, loser, up, down, reaped, champion>>
  BY <1>1 DEF TakeOver
<1>3. a \in Process /\ a \in Player /\ a \notin Real /\ a \notin Battle
  BY Names
<1>4. Len(fifo[a]) = 1 /\ Fit(v) /\ v \in Status /\ v.HP \in Nat /\ v.HP > 0
  <2>1. Len(fifo[a]) = 1 /\ Fit(v)
    BY <1>1, <1>2 DEF IInv, PlayersHold
  <2>. QED  BY <2>1 DEF Fit, Status
<1>5. Tail(fifo[a]) = <<>>
  BY <1>4, Pipes DEF IInv, TypeOK
<1>6. /\ pc'[a] = "send" /\ \A q \in Process : q # a => pc'[q] = pc[q]
      /\ stat'[a] = v /\ \A q \in Player : q # a => stat'[q] = stat[q]
      /\ full_hp'[a] = v.HP /\ \A q \in Player : q # a => full_hp'[q] = full_hp[q]
      /\ fifo'[a] = <<>> /\ \A q \in Agent : q # a => fifo'[q] = fifo[q]
  BY <1>2, <1>3, <1>5 DEF IInv, TypeOK
<1>7. TypeOK'
  <2>1. fifo' \in [Agent -> Seq(Status)]
    <3>1. fifo \in [Agent -> Seq(Status)] /\ Tail(fifo[a]) \in Seq(Status)
      BY <1>4, Pipes DEF IInv, TypeOK
    <3>. QED  BY <1>2, <3>1
  <2>2. stat' \in [Player -> Status \cup {NoStatus}] /\ full_hp' \in [Player -> Nat]
    BY <1>2, <1>4 DEF IInv, TypeOK
  <2>3. pc' \in [Process -> Place]
    BY <1>2 DEF IInv, TypeOK, Place
  <2>. QED  BY <1>2, <2>1, <2>2, <2>3 DEF IInv, TypeOK
<1>8. {a} \in SUBSET Player
  BY <1>3
<1>9. Places' /\ Tree' /\ Reaped' /\ BattlesHold'
  <2>1. \A q \in Process : pc[q] = "exited" => pc'[q] = "exited"
    BY <1>2, <1>6
  <2>2. /\ \A q \in Process : q \notin {a} => pc'[q] = pc[q]
        /\ \A q \in {a} \cap Real : pc'[q] \in RealPlace
        /\ \A q \in {a} \cap Agent : pc'[q] \in AgentPlace
        /\ UNCHANGED <<player, loser, reaped>>
    BY <1>2, <1>3, <1>6 DEF AgentPlace
  <2>. QED  BY <1>8, <2>1, <2>2, PlayersGoOn
<1>10. ASSUME NEW b \in Battle, NEW i \in 1..2, tar_id[b][i] = a PROVE Link(b, i)'
  <2>1. pc'[b] = pc[b]
    BY <1>3, <1>6, Names
  <2>. QED  BY <1>2, <1>6, <1>10, <2>1, ChildWorks DEF Owing, IInv, Links
<1>11. Links'
  <2>1. /\ \A q \in Process : q \notin {a} => pc'[q] = pc[q]
        /\ \A q \in Player : q \notin {a} => stat'[q] = stat[q]
        /\ \A q \in Process : q \notin {a} => up'[q] = up[q] /\ down'[q] = down[q]
        /\ UNCHANGED <<player, loser>>
    BY <1>2, <1>6
  <2>2. \A b \in Battle, i \in 1..2 : tar_id[b][i] \in {a} => Link(b, i)'
    BY <1>10
  <2>. QED  BY <1>8, <2>1, <2>2, PlayerLinks
<1>12. PlayersHold'
  BY <1>3, <1>4, <1>6, Names DEF IInv, PlayersHold
<1>13. OneCarrier'
  <2>1. ASSUME NEW q \in Player, NEW e \in Real, Carries(q, e)' PROVE Carries(q, e)
    <3>1. CASE q \in Real
      BY <1>3, <1>6, <2>1, <3>1, Names DEF Carries
    <3>2. CASE q \in Agent /\ q # a
      BY <1>3, <1>6, <2>1, <3>2, Names DEF Carries
    <3>3. CASE q = a
      BY <1>1, <1>2, <1>3, <1>6, <2>1, <3>3 DEF Carries
    <3>. QED  BY <3>1, <3>2, <3>3, Names
  <2>. QED  BY <2>1 DEF IInv, OneCarrier
<1>. QED  BY <1>7, <1>9, <1>11, <1>12, <1>13 DEF IInv

-----------------------------------------------------------------------------
(* The theorems.                                                           *)

LEMMA InvInit == Init => IInv
<1>. SUFFICES ASSUME Init PROVE IInv
  OBVIOUS
<1>1. PICK lineup \in Lineup :
        /\ stat = [p \in Player |-> IF p \in Real THEN FirstStatus(p, lineup[p]) ELSE NoStatus]
        /\ full_hp = [p \in Player |-> IF p \in Real THEN lineup[p].HP ELSE 0]
  BY DEF Init
<1>2. /\ \A p \in Process : pc[p] = IF p = Root THEN "fork" ELSE "unborn"
      /\ \A p \in Process : up[p] = <<>> /\ down[p] = <<>>
      /\ \A a \in Agent : fifo[a] = <<>>
      /\ loser = [b \in Battle |-> 1] /\ reaped = {}
  BY DEF Init
<1>3. ASSUME NEW p \in Real
      PROVE  /\ Fit(FirstStatus(p, lineup[p])) /\ FirstStatus(p, lineup[p]).real_player_id = p
             /\ lineup[p].HP \in Nat /\ lineup[p].HP > 0
  <2>1. \E b \in Battle : p \in {tar_id[b][1], tar_id[b][2]}
    <3>1. PICK b \in Battle, i \in 1..2 : p = tar_id[b][i]
      BY OneParent, Names
    <3>. QED  BY <3>1, ChildIsProcess DEF Children
  <2>2. Parent(p) \in Battle
    BY <2>1 DEF Parent
  <2>3. lineup[p] \in [HP : Nat \ {0}, ATK : Nat \ {0}, attr : Attribute]
    BY LineupAssumption
  <2>4. PICK l : l = lineup[p] /\ l.HP \in Nat /\ l.HP > 0 /\ l.ATK \in Nat /\ l.attr \in Attribute
    BY <2>3
  <2>5. FirstStatus(p, l) \in Status
    BY <2>2, <2>4 DEF FirstStatus, Status
  <2>. QED  BY <2>4, <2>5 DEF FirstStatus, Fit
<1>4. ASSUME NEW p \in Real
      PROVE  Fit(stat[p]) /\ stat[p].real_player_id = p /\ full_hp[p] \in Nat /\ full_hp[p] > 0
  BY <1>1, <1>3, Names
<1>5. TypeOK
  <2>1. stat \in [Player -> Status \cup {NoStatus}]
    BY <1>1, <1>3 DEF Fit
  <2>2. full_hp \in [Player -> Nat]
    BY <1>1, <1>3
  <2>3. pc \in [Process -> Place]
    BY DEF Init, Place
  <2>4. player \in [Battle -> [1..2 -> Status \cup {NoStatus}]]
    BY DEF Init
  <2>. QED  BY <1>2, <2>1, <2>2, <2>3, <2>4 DEF Init, TypeOK
<1>6. Places
  BY <1>2, Names DEF Places, BattlePlace, RealPlace, AgentPlace
<1>7. Tree
  <2>. SUFFICES ASSUME NEW b \in Battle, NEW c \in Battle, b \in Children(c) PROVE pc[b] = "unborn"
    BY DEF Tree
  <2>1. b # Root
    BY ChildIsProcess DEF Children
  <2>. QED  BY <1>2, <2>1, Names
<1>8. Links
  <2>. SUFFICES ASSUME NEW b \in Battle, NEW i \in 1..2 PROVE Link(b, i)
    BY DEF Links
  <2>1. pc[b] \in {"unborn", "fork"}
    BY <1>2, Names
  <2>2. Unborn(tar_id[b][i])
    BY <1>2, ChildIsProcess DEF Unborn, Quiet
  <2>. QED  BY <2>1, <2>2 DEF Link, Holds, Listens, Parted
<1>9. Reaped
  BY <1>2, Names DEF Reaped
<1>10. BattlesHold
  BY <1>2, Names DEF BattlesHold
<1>11. PlayersHold
  BY <1>2, <1>4, Names DEF PlayersHold, Fit
<1>12. OneCarrier
  BY <1>2, Names DEF OneCarrier, Carries
<1>. QED  BY <1>5, <1>6, <1>7, <1>8, <1>9, <1>10, <1>11, <1>12 DEF IInv

LEMMA InvNext == IInv /\ [Next]_vars => IInv'
<1>. SUFFICES ASSUME IInv, [Next]_vars PROVE IInv'
  OBVIOUS
<1>1. CASE UNCHANGED vars
  <2>1. \A c : Number(c)' = Number(c)
    BY <1>1 DEF vars, Number, Winner
  <2>2. Links'
    BY <1>1, <2>1, LinkStays DEF vars, IInv, Links
  <2>3. OneCarrier'
    BY <1>1 DEF vars, IInv, OneCarrier, Carries
  <2>4. (TypeOK /\ Places /\ Tree /\ Reaped)'
    BY <1>1 DEF vars, IInv, TypeOK, Places, Tree, Reaped
  <2>5. (BattlesHold /\ PlayersHold)'
    BY <1>1 DEF vars, IInv, BattlesHold, PlayersHold, Winner
  <2>. QED  BY <2>2, <2>3, <2>4, <2>5 DEF IInv
<1>2. CASE Next
  <2>1. PICK p \in Process : Step(p)
    BY <1>2 DEF Next
  <2>2. CASE p \in Battle
    BY <2>1, <2>2, Names, ForkKeeps, ReadFirstKeeps, RoundKeeps, WaitKeeps, RelayUpKeeps,
       RelayDownKeeps, LeaveKeeps DEF Step
  <2>3. CASE p \in Player
    BY <2>1, <2>3, Names, SendKeeps, ReceiveKeeps, HandOverKeeps, TakeOverKeeps DEF Step
  <2>. QED  BY <2>2, <2>3, Names
<1>. QED  BY <1>1, <1>2

LEMMA Always == Spec => []IInv
<1>. QED  BY InvInit, InvNext, PTL DEF Spec

\* What a child is doing rules out more than one message, and messages that
\* nobody will read.
LEMMA InvOneMessage == IInv => OneMessage
<1>. SUFFICES ASSUME IInv, NEW b \in Battle, NEW c \in Children(b)
     PROVE /\ Len(up[c]) + Len(down[c]) <= 1
           /\ pc[c] = "exited" => up[c] = <<>> /\ down[c] = <<>>
  BY DEF OneMessage
<1>1. PICK i \in 1..2 : c = tar_id[b][i]
  BY DEF Children
<1>2. Idle(b) \/ Holds(b, i) \/ Listens(b, i) \/ Parted(b, i)
  <2>1. pc[b] \in BattlePlace /\ loser[b] \in 1..2 /\ (i = 1 \/ i = 2)
    BY DEF IInv, TypeOK, Places
  <2>. QED  BY <2>1 DEF Idle, Holds, Listens, Parted, BattlePlace
<1>3. Unborn(c) \/ Waits(c) \/ Owes(c) \/ Offers(c) \/ Answered(c) \/ Done(c)
  BY <1>1, <1>2 DEF IInv, Links, Link, GoesOn, Ended
<1>4. Len(<<>>) = 0 /\ "exited" \notin Expecting
  BY EmptySeq DEF Expecting
<1>5. CASE Quiet(c)
  BY <1>4, <1>5 DEF Quiet
<1>6. CASE Offers(c)
  BY <1>4, <1>6 DEF Offers
<1>7. CASE Answered(c)
  BY <1>4, <1>7 DEF Answered
<1>. QED  BY <1>3, <1>5, <1>6, <1>7 DEF Unborn, Waits, Owes, Done

\* Whom a battle listens to has not exited before it has sent.
LEMMA InvNoReadAtEnd == IInv => NoReadAtEnd
<1>. SUFFICES ASSUME IInv, NEW b \in Battle
     PROVE /\ pc[b] = "first" => up[tar_id[b][1]] # <<>> \/ pc[tar_id[b][1]] # "exited"
           /\ pc[b] = "second" => up[tar_id[b][2]] # <<>> \/ pc[tar_id[b][2]] # "exited"
           /\ pc[b] = "upward" => up[Finalist(b)] # <<>> \/ pc[Finalist(b)] # "exited"
           /\ pc[b] = "exited" => \A c \in Children(b) : pc[c] = "exited"
  BY DEF NoReadAtEnd
<1>1. ASSUME NEW i \in 1..2, Listens(b, i) PROVE pc[tar_id[b][i]] # "exited"
  <2>1. GoesOn(tar_id[b][i])
    BY <1>1 DEF IInv, Links, Link
  <2>. QED  BY <2>1 DEF GoesOn, Owes, Offers, Answered, Owing, Expecting
<1>2. pc[b] = "first" => Listens(b, 1)
  BY DEF Listens
<1>3. pc[b] = "second" => Listens(b, 2)
  BY DEF Listens
<1>4. pc[b] = "upward" => Winner(b) \in 1..2 /\ Listens(b, Winner(b))
  <2>1. loser[b] \in 1..2
    BY DEF IInv, TypeOK
  <2>. QED  BY <2>1 DEF Listens, Winner
<1>5. pc[b] = "exited" => \A c \in Children(b) : pc[c] = "exited"
  BY DEF IInv, Reaped
<1>. QED  BY <1>1, <1>2, <1>3, <1>4, <1>5 DEF Finalist

\* The winner of a battle that is not the last is not reaped, for it goes on.
LEMMA InvWaitsForLoser == IInv => WaitsForLoser
<1>. SUFFICES ASSUME IInv, NEW b \in Battle, b # Root, pc[b] \in {"wait", "upward", "downward"}
     PROVE Finalist(b) \notin reaped
  BY DEF WaitsForLoser
<1>1. PICK w \in 1..2 : w = Winner(b) /\ w # loser[b]
  <2>1. loser[b] \in 1..2
    BY DEF IInv, TypeOK
  <2>. QED  BY <2>1 DEF Winner
<1>2. PICK c : c = tar_id[b][w]
  OBVIOUS
<1>3. GoesOn(c) \/ Waits(c)
  BY <1>1, <1>2 DEF IInv, Links, Link, Listens, Holds
<1>4. pc[c] # "exited"
  BY <1>3 DEF GoesOn, Waits, Owes, Offers, Answered, Owing, Expecting
<1>. QED  BY <1>1, <1>2, <1>4 DEF Finalist, IInv, Reaped

\* Two who speak for one player would both carry him.
LEMMA InvOneVoice == IInv => OneVoice
<1>. SUFFICES ASSUME IInv, NEW p \in Player, NEW q \in Player, Speaks(p), Speaks(q),
                     stat[p].real_player_id = stat[q].real_player_id
     PROVE p = q
  BY DEF OneVoice
<1>1. ASSUME NEW o \in Player, Speaks(o)
      PROVE  stat[o].real_player_id \in Real /\ Carries(o, stat[o].real_player_id)
  <2>1. CASE o \in Real
    BY <1>1, <2>1 DEF Carries, Speaks, IInv, PlayersHold
  <2>2. CASE o \in Agent
    <3>1. pc[o] \in {"send", "receive"} /\ stat[o] \in Status
      BY <1>1, <2>2 DEF Speaks, IInv, PlayersHold, Places, AgentPlace
    <3>. QED  BY <2>2, <3>1 DEF Carries, Status
  <2>. QED  BY <2>1, <2>2, Names
<1>. QED  BY <1>1 DEF IInv, OneCarrier

-----------------------------------------------------------------------------
(* The way out of the winners' bracket.                                    *)

\* The battles of the winners' bracket, and the last of all.
Bracket == {b \in Battle : agent[b] # NoAgent} \cup {Root}

\* Status of battles of the bracket.
Inside(q) == \A k \in 1..Len(q) : q[k].current_battle_id \in Bracket

\* Players, and whoever relays to players, hear of battles of the bracket only;
\* and who hands over lost in one of them, not in the last.
BracketInv ==
  /\ \A c \in Real \cup Bracket : Inside(down[c])
  /\ \A p \in Real : pc[p] = "hand" => stat[p].current_battle_id \in Bracket \ {Root}

LEMMA InsideQueues ==
  ASSUME NEW q \in Seq(Status), Inside(q)
  PROVE  /\ \A s : s.current_battle_id \in Bracket => Inside(Append(q, s))
         /\ q # <<>> => Inside(Tail(q)) /\ Head(q).current_battle_id \in Bracket
<1>1. ASSUME NEW s, s.current_battle_id \in Bracket PROVE Inside(Append(q, s))
  <2> DEFINE z == Append(q, s)
  <2>1. /\ Len(z) = Len(q) + 1 /\ Len(q) \in Nat /\ z[Len(q) + 1] = s
        /\ \A k \in 1..Len(q) : z[k] = q[k]
    OBVIOUS
  <2> HIDE DEF z
  <2>2. \A k \in 1..Len(z) : k \in 1..Len(q) \/ k = Len(q) + 1  BY <2>1
  <2> QED  BY <1>1, <2>1, <2>2 DEF Inside, z
<1>2. ASSUME q # <<>> PROVE Inside(Tail(q)) /\ Head(q).current_battle_id \in Bracket
  <2>1. /\ Len(q) >= 1 /\ Len(q) \in Nat /\ Head(q) = q[1] /\ Len(Tail(q)) = Len(q) - 1
        /\ \A k \in 1..Len(Tail(q)) : Tail(q)[k] = q[k + 1]
    BY <1>2, HeadTailProperties
  <2>2. \A k \in 1..Len(Tail(q)) : k + 1 \in 1..Len(q)  BY <2>1
  <2>3. 1 \in 1..Len(q)  BY <2>1
  <2> QED  BY <2>1, <2>2, <2>3 DEF Inside
<1> QED  BY <1>1, <1>2

\* A battle with a child in the bracket is in it.
LEMMA BracketGoesUp ==
  ASSUME NEW b \in Battle, NEW i \in 1..2, tar_id[b][i] \in Real \cup Bracket
  PROVE  b \in Bracket
<1>1. tar_id[b][i] # Root  BY ChildIsProcess
<1>2. CASE b = Root  BY <1>2, TreeAssumption DEF Bracket
<1>3. CASE b # Root  BY <1>1, <1>3, BracketAssumption DEF Bracket
<1> QED  BY <1>2, <1>3

LEMMA BracketRound ==
  ASSUME IInv, BracketInv, NEW b \in Battle, Round(b), NEW c \in Real \cup Bracket
  PROVE  Inside(down'[c])
<1> DEFINE d == tar_id[b][2]
           held == [player[b] EXCEPT ![2] = Head(up[d])]
           s == Fight(b, held)
<1>a. /\ pc[b] = "second" /\ up[d] # <<>> /\ TypeOK /\ d \in Process
      /\ Fit(player[b][1]) /\ player[b] \in [1..2 -> Status \cup {NoStatus}]
  BY ChildIsProcess DEF Round, IInv, BattlesHold, TypeOK
<1>b. Fit(Head(up[d]))
  <2>1. GoesOn(d)  BY <1>a DEF IInv, Links, Link, Listens
  <2> QED  BY <1>a, <2>1, ReadsChild DEF IInv, TypeOK
<1>c. held[1] = player[b][1] /\ held[2] = Head(up[d])  BY <1>a
<1>1. s[1].current_battle_id = b /\ s[2].current_battle_id = b
  <2> HIDE DEF held, d
  <2>1. \E t1, t2 \in Status : /\ s = <<t1, t2>>
                               /\ t1.current_battle_id = b /\ t2.current_battle_id = b
    BY <1>a, <1>b, <1>c, FightRules
  <2> QED  BY <2>1
<1>2. down' = Told(b, s)  BY DEF Round
<1> HIDE DEF s, held, d
<1>3. c \in Process /\ down[c] \in Seq(Status) /\ Inside(down[c])
  BY <1>a, TreeAssumption DEF TypeOK, BracketInv, Process, Player, Bracket
<1>4. down'[c] = down[c] \/ \E i \in 1..2 : c = tar_id[b][i] /\ down'[c] = Append(down[c], s[i])
  <2>1. tar_id[b][1] # tar_id[b][2]  BY OneParent
  <2>2. tar_id[b][1] \in Process /\ tar_id[b][2] \in Process  BY ChildIsProcess
  <2>3. down' = [down EXCEPT ![tar_id[b][1]] = Append(@, s[1]), ![tar_id[b][2]] = Append(@, s[2])]
    BY <1>2 DEF Told
  <2>4. CASE c = tar_id[b][1]
    <3>1. down'[c] = Append(down[c], s[1])  BY <1>a, <2>1, <2>2, <2>3, <2>4 DEF TypeOK
    <3> QED  BY <2>4, <3>1
  <2>5. CASE c = tar_id[b][2]
    <3>1. down'[c] = Append(down[c], s[2])  BY <1>a, <2>1, <2>2, <2>3, <2>5 DEF TypeOK
    <3> QED  BY <2>5, <3>1
  <2>6. CASE c # tar_id[b][1] /\ c # tar_id[b][2]
    BY <1>a, <1>3, <2>3, <2>6 DEF TypeOK
  <2> QED  BY <2>4, <2>5, <2>6
<1>5. ASSUME NEW i \in 1..2, c = tar_id[b][i], down'[c] = Append(down[c], s[i])
      PROVE  Inside(down'[c])
  <2>1. b \in Bracket  BY <1>5, BracketGoesUp
  <2>2. s[i].current_battle_id = b  BY <1>1
  <2> QED  BY <1>3, <1>5, <2>1, <2>2, InsideQueues
<1> QED  BY <1>3, <1>4, <1>5

LEMMA BracketRelay ==
  ASSUME TypeOK, BracketInv, NEW b \in Battle, RelayDown(b), NEW c \in Real \cup Bracket
  PROVE  Inside(down'[c])
<1>1. PICK w \in 1..2 : w = Winner(b)
  <2>1. loser[b] \in 1..2  BY DEF TypeOK
  <2>2. 3 - loser[b] \in 1..2  BY <2>1
  <2> QED  BY <2>2 DEF Winner
<1> DEFINE d == tar_id[b][w]
           s == Head(down[b])
<1>2. d \in Process /\ d = Finalist(b)  BY <1>1, ChildIsProcess DEF Finalist
<1>3. down[b] # <<>> /\ down' = [down EXCEPT ![b] = Tail(down[b]), ![d] = Append(down[d], s)]
  BY <1>2 DEF RelayDown
<1>4. c \in Process /\ down[c] \in Seq(Status) /\ Inside(down[c]) /\ b \in Process
      /\ down[b] \in Seq(Status)
  BY TreeAssumption DEF TypeOK, BracketInv, Process, Player, Bracket
<1> HIDE DEF s
<1>5. CASE c = d
  <2>1. b \in Bracket  BY <1>5, BracketGoesUp
  <2>2. Inside(down[b])  BY <2>1 DEF BracketInv
  <2>3. s.current_battle_id \in Bracket  BY <1>3, <1>4, <2>2, InsideQueues DEF s
  <2>4. down'[c] = Append(down[c], s)  BY <1>2, <1>3, <1>4, <1>5 DEF TypeOK
  <2> QED  BY <1>4, <2>3, <2>4, InsideQueues
<1>6. CASE c # d /\ c = b
  <2>1. down'[c] = Tail(down[c])  BY <1>3, <1>4, <1>6 DEF TypeOK
  <2> QED  BY <1>3, <1>4, <1>6, <2>1, InsideQueues
<1>7. CASE c # d /\ c # b
  <2>1. down'[c] = down[c]  BY <1>3, <1>4, <1>7 DEF TypeOK
  <2> QED  BY <1>4, <2>1
<1> QED  BY <1>5, <1>6, <1>7

LEMMA BracketReceive ==
  ASSUME TypeOK, BracketInv, NEW p \in Player, Receive(p)
  PROVE  BracketInv'
<1> DEFINE s == Head(down[p])
<1>1. p \in Process /\ down[p] \in Seq(Status) /\ down[p] # <<>>
      /\ down' = [down EXCEPT ![p] = Tail(down[p])]
  BY DEF TypeOK, Process, Receive
<1>2. ASSUME NEW c \in Real \cup Bracket PROVE Inside(down'[c])
  <2>1. c \in Process /\ Inside(down[c])
    BY TreeAssumption DEF BracketInv, Process, Player, Bracket
  <2>2. c # p => down'[c] = down[c]  BY <1>1, <2>1 DEF TypeOK
  <2>3. c = p => down'[c] = Tail(down[p])  BY <1>1 DEF TypeOK
  <2> QED  BY <1>1, <2>1, <2>2, <2>3, InsideQueues
<1>3. ASSUME NEW r \in Real, pc'[r] = "hand"
      PROVE  stat'[r].current_battle_id \in Bracket \ {Root}
  <2>1. r \in Process /\ r \in Player  BY DEF Process, Player
  <2>2. CASE r # p
    <3>1. pc'[r] = pc[r] /\ stat'[r] = stat[r]  BY <2>1, <2>2 DEF Receive, TypeOK
    <3> QED  BY <1>3, <3>1 DEF BracketInv
  <2>3. CASE r = p
    <3>1. s.current_battle_id \in Bracket
      <4>1. Inside(down[p])  BY <2>3 DEF BracketInv
      <4> QED  BY <1>1, <4>1, InsideQueues
    <3>2. s.battle_ended_flag /\ ~EndsAll(s) /\ stat'[r] = Restored(r, s)
      BY <1>1, <1>3, <2>1, <2>3 DEF Receive, TypeOK
    <3>3. s.current_battle_id # Root  BY <3>2 DEF EndsAll
    <3>4. s \in Status  BY <1>1, Pipes
    <3>5. Restored(r, s).current_battle_id = s.current_battle_id  BY <3>4 DEF Restored, Status
    <3> QED  BY <3>1, <3>2, <3>3, <3>5
  <2> QED  BY <2>2, <2>3
<1> QED  BY <1>2, <1>3 DEF BracketInv

LEMMA BracketInit == Init => BracketInv
<1> SUFFICES ASSUME Init PROVE BracketInv  OBVIOUS
<1>1. \A c \in Real \cup Bracket : Inside(down[c])
  <2> TAKE c \in Real \cup Bracket
  <2>1. c \in Process  BY TreeAssumption DEF Process, Player, Bracket
  <2>2. down[c] = <<>>  BY <2>1 DEF Init
  <2>3. Inside(<<>>)  BY DEF Inside
  <2> QED  BY <2>2, <2>3
<1>2. \A p \in Real : pc[p] # "hand"  BY DEF Init, Process, Player
<1> QED  BY <1>1, <1>2 DEF BracketInv

\* Where no message comes down, and nobody becomes one who hands over.
LEMMA BracketStays ==
  ASSUME BracketInv, down' = down,
         \A p \in Real : pc'[p] = "hand" => pc[p] = "hand" /\ stat'[p] = stat[p]
  PROVE  BracketInv'
BY DEF BracketInv

LEMMA BracketStep == IInv /\ BracketInv /\ [Next]_vars => BracketInv'
<1> SUFFICES ASSUME IInv, TypeOK, BracketInv, [Next]_vars PROVE BracketInv'  BY DEF IInv
<1>1. \A p \in Real : p \in Process /\ p \in Player /\ p \notin Battle /\ p \notin Agent
  BY NameAssumption DEF Process, Player
<1>2. ASSUME NEW b \in Battle, Fork(b) \/ ReadFirst(b) \/ Wait(b) \/ RelayUp(b) \/ Leave(b)
      PROVE  BracketInv'
  <2>1. down' = down /\ stat' = stat  BY <1>2 DEF Fork, ReadFirst, Wait, RelayUp, Leave
  <2>2. \A p \in Real : pc'[p] = "hand" => pc[p] = "hand"
    <3>1. CASE Fork(b)  BY <1>1, <3>1 DEF Fork, Entry, TypeOK
    <3>2. CASE ReadFirst(b) \/ Wait(b) \/ RelayUp(b) \/ Leave(b)
      BY <1>1, <3>2 DEF ReadFirst, Wait, RelayUp, Leave, TypeOK
    <3> QED  BY <1>2, <3>1, <3>2
  <2> QED  BY <2>1, <2>2, BracketStays
<1>3. ASSUME NEW b \in Battle, Round(b) \/ RelayDown(b) PROVE BracketInv'
  <2>1. \A p \in Real : pc'[p] = "hand" => pc[p] = "hand" /\ stat'[p] = stat[p]
    BY <1>1, <1>3 DEF Round, RelayDown, TypeOK
  <2>2. \A c \in Real \cup Bracket : Inside(down'[c])  BY <1>3, BracketRound, BracketRelay
  <2> QED  BY <2>1, <2>2 DEF BracketInv
<1>4. ASSUME NEW p \in Player, Send(p) PROVE BracketInv'
  <2>1. \A r \in Real : pc'[r] = "hand" => pc[r] = "hand" /\ stat'[r] = stat[r]
    BY <1>1, <1>4 DEF Send, TypeOK
  <2> QED  BY <1>4, <2>1, BracketStays DEF Send
<1>5. ASSUME NEW p \in Real, HandOver(p) PROVE BracketInv'
  <2>1. \A r \in Real : pc'[r] = "hand" => pc[r] = "hand" /\ stat'[r] = stat[r]
    BY <1>1, <1>5 DEF HandOver, Succeeded, TypeOK
  <2> QED  BY <1>5, <2>1, BracketStays DEF HandOver
<1>6. ASSUME NEW a \in Agent, TakeOver(a) PROVE BracketInv'
  <2>1. \A r \in Real : pc'[r] = "hand" => pc[r] = "hand" /\ stat'[r] = stat[r]
    BY <1>1, <1>6 DEF TakeOver, TypeOK
  <2> QED  BY <1>6, <2>1, BracketStays DEF TakeOver
<1>7. CASE UNCHANGED vars  BY <1>7, BracketStays DEF vars
<1> QED  BY <1>2, <1>3, <1>4, <1>5, <1>6, <1>7, BracketReceive DEF Next, Step

-----------------------------------------------------------------------------
(* The tournament on paper.                                                *)

\* What two fight with, and who they are.
Pair == [1..2 -> Status]
Same(t, s) == t.real_player_id = s.real_player_id /\ t.ATK = s.ATK /\ t.attr = s.attr

LEMMA PairOf == \A t1, t2 \in Status : <<t1, t2>> \in Pair
  BY DEF Pair

\* A round leaves everybody who he is and, if both live and can strike, takes
\* a point at least.
LEMMA FightKeeps ==
  ASSUME NEW b \in Battle, NEW s \in Pair
  PROVE  \E t1, t2 \in Status :
           /\ Fight(b, s) = <<t1, t2>>
           /\ Same(t1, s[1]) /\ Same(t2, s[2])
           /\ s[1].HP > 0 /\ s[2].HP > 0 /\ s[1].ATK > 0 /\ s[2].ATK > 0
              => t1.HP + t2.HP < s[1].HP + s[2].HP
<1>1. PICK s1 \in Status, s2 \in Status : s1 = s[1] /\ s2 = s[2]
  BY DEF Pair
<1>2. /\ s1.HP \in Int /\ s1.ATK \in Nat /\ s1.battle_ended_flag \in BOOLEAN
      /\ s2.HP \in Int /\ s2.ATK \in Nat /\ s2.battle_ended_flag \in BOOLEAN
  BY DEF Status
<1>3. PICK d1 \in Nat, d2 \in Nat :
        /\ d1 = Damage(b, s1) /\ d2 = Damage(b, s2)
        /\ (s1.ATK > 0 => d1 > 0) /\ (s2.ATK > 0 => d2 > 0)
  <2>1. Damage(b, s1) \in Nat /\ (s1.ATK > 0 => Damage(b, s1) > 0)
    BY <1>2 DEF Damage
  <2>2. Damage(b, s2) \in Nat /\ (s2.ATK > 0 => Damage(b, s2) > 0)
    BY <1>2 DEF Damage
  <2>. QED  BY <2>1, <2>2
<1>. DEFINE after(r, h, f) == [r EXCEPT !.HP = h, !.current_battle_id = b, !.battle_ended_flag = f]
<1>4. ASSUME NEW r \in Status, NEW h \in Int, NEW f \in BOOLEAN
      PROVE  after(r, h, f) \in Status /\ after(r, h, f).HP = h /\ Same(after(r, h, f), r)
  BY <1>4 DEF Status, Same
<1>. HIDE DEF after
<1>5. ASSUME Striker(s) = 1
      PROVE  \E h1, h2 \in Int, f1, f2 \in BOOLEAN :
               /\ Fight(b, s) = <<after(s1, h1, f1), after(s2, h2, f2)>>
               /\ s1.HP > 0 /\ s2.HP > 0 /\ s1.ATK > 0 /\ s2.ATK > 0
                  => h1 + h2 < s1.HP + s2.HP
  <2>. DEFINE struck == s2.HP - d1
              back == IF struck > 0 THEN s1.HP - d2 ELSE s1.HP
              f1 == s1.battle_ended_flag \/ struck <= 0 \/ back <= 0
              f2 == s2.battle_ended_flag \/ struck <= 0 \/ back <= 0
  <2>1. /\ struck \in Int /\ back \in Int
        /\ s1.ATK > 0 /\ s2.ATK > 0 => back + struck < s1.HP + s2.HP
    BY <1>2, <1>3
  <2>2. f1 \in BOOLEAN /\ f2 \in BOOLEAN
    OBVIOUS
  <2>3. Fight(b, s) = <<after(s1, back, f1), after(s2, struck, f2)>>
    <3>1. 3 - Striker(s) = 2 /\ Striker(s) = 1 /\ 1 # 2
      BY <1>5
    <3>. QED  BY <3>1, <1>1, <1>3 DEF Fight, after
  <2>. HIDE DEF struck, back, f1, f2
  <2>. QED  BY <2>1, <2>2, <2>3
<1>6. ASSUME Striker(s) = 2
      PROVE  \E h1, h2 \in Int, f1, f2 \in BOOLEAN :
               /\ Fight(b, s) = <<after(s1, h1, f1), after(s2, h2, f2)>>
               /\ s1.HP > 0 /\ s2.HP > 0 /\ s1.ATK > 0 /\ s2.ATK > 0
                  => h1 + h2 < s1.HP + s2.HP
  <2>. DEFINE struck == s1.HP - d2
              back == IF struck > 0 THEN s2.HP - d1 ELSE s2.HP
              f1 == s1.battle_ended_flag \/ struck <= 0 \/ back <= 0
              f2 == s2.battle_ended_flag \/ struck <= 0 \/ back <= 0
  <2>1. /\ struck \in Int /\ back \in Int
        /\ s1.ATK > 0 /\ s2.ATK > 0 => struck + back < s1.HP + s2.HP
    BY <1>2, <1>3
  <2>2. f1 \in BOOLEAN /\ f2 \in BOOLEAN
    OBVIOUS
  <2>3. Fight(b, s) = <<after(s1, struck, f1), after(s2, back, f2)>>
    <3>1. 3 - Striker(s) = 1 /\ Striker(s) = 2 /\ 1 # 2
      BY <1>6
    <3>. QED  BY <3>1, <1>1, <1>3 DEF Fight, after
  <2>. HIDE DEF struck, back, f1, f2
  <2>. QED  BY <2>1, <2>2, <2>3
<1>7. PICK h1, h2 \in Int, f1, f2 \in BOOLEAN :
        /\ Fight(b, s) = <<after(s1, h1, f1), after(s2, h2, f2)>>
        /\ s1.HP > 0 /\ s2.HP > 0 /\ s1.ATK > 0 /\ s2.ATK > 0 => h1 + h2 < s1.HP + s2.HP
  <2>1. Striker(s) = 1 \/ Striker(s) = 2
    BY DEF Striker
  <2>. QED  BY <2>1, <1>5, <1>6
<1>8. PICK t1, t2 \in Status : t1 = after(s1, h1, f1) /\ t2 = after(s2, h2, f2)
  BY <1>4
<1>9. t1.HP = h1 /\ Same(t1, s1) /\ t2.HP = h2 /\ Same(t2, s2)
  BY <1>4, <1>8
<1>. QED  BY <1>1, <1>7, <1>8, <1>9

\* The rounds of a battle.
LEMMA RoundsGoOn ==
  ASSUME NEW b \in Battle, NEW s \in Pair
  PROVE  /\ Rounds(b, s) \in [Nat -> Pair]
         /\ Rounds(b, s)[0] = s
         /\ \A n \in Nat : Rounds(b, s)[n + 1] = Fight(b, Rounds(b, s)[n])
<1>1. ASSUME NEW t \in Pair PROVE Fight(b, t) \in Pair
  BY FightKeeps, PairOf
<1>. DEFINE step == [n \in Nat |-> [t \in Pair |-> Fight(b, t)]]
<1>2. Recursion(Pair, s, step)
  BY <1>1 DEF Recursion
<1>3. \A n \in Nat : \A t \in Pair : step[n][t] = Fight(b, t)
  OBVIOUS
<1>. HIDE DEF step
<1>4. PICK f : Recurs(f, Pair, s, step)
  BY <1>2, RecursionExists
<1>5. f \in [Nat -> Pair] /\ f[0] = s /\ \A n \in Nat : f[n + 1] = Fight(b, f[n])
  BY <1>3, <1>4 DEF Recurs
<1>. DEFINE Way(g) == g = [n \in Nat |-> IF n = 0 THEN s ELSE Fight(b, g[n - 1])]
<1>6. Way(f)
  <2>1. ASSUME NEW n \in Nat PROVE f[n] = IF n = 0 THEN s ELSE Fight(b, f[n - 1])
    <3>1. n # 0 => n - 1 \in Nat /\ (n - 1) + 1 = n
      OBVIOUS
    <3>. QED  BY <1>5, <3>1
  <2>. QED  BY <1>5, <2>1
<1>7. Rounds(b, s) = CHOOSE g : Way(g)
  BY DEF Rounds
<1>8. Way(Rounds(b, s))
  <2>. HIDE DEF Way
  <2>. QED  BY <1>6, <1>7
<1>. DEFINE g == Rounds(b, s)
<1>9. g = [n \in Nat |-> IF n = 0 THEN s ELSE Fight(b, g[n - 1])]
  BY <1>8
<1>. HIDE DEF g
<1>10. g[0] = s /\ \A n \in Nat : g[n + 1] = Fight(b, g[n])
  <2>1. \A n \in Nat : n + 1 \in Nat /\ n + 1 # 0 /\ (n + 1) - 1 = n
    OBVIOUS
  <2>. QED  BY <1>9, <2>1
<1>11. ASSUME NEW n \in Nat PROVE g[n] = f[n]
  <2>. DEFINE S == {k \in 0..n : g[k] = f[k]}
  <2>1. 0 \in S
    BY <1>5, <1>10
  <2>2. \A k \in 0..(n - 1) : k \in S => k + 1 \in S
    BY <1>5, <1>10
  <2>3. 0..n \subseteq S
    <3>. HIDE DEF S
    <3>. QED  BY <2>1, <2>2, AllUpTo
  <2>. QED  BY <2>3
<1>12. g \in [Nat -> Pair]
  BY <1>5, <1>9, <1>11
<1>. QED  BY <1>10, <1>12 DEF g

\* Two who can fight a battle, and how they come out of it.
Fresh(s) == s \in Pair /\ \A i \in 1..2 : Fit(s[i]) /\ s[i].ATK > 0
Over(b, s) ==
  /\ s \in Pair
  /\ Lost(s) \in 1..2
  /\ \A i \in 1..2 :
       /\ s[i].ATK > 0 /\ s[i].battle_ended_flag /\ s[i].current_battle_id = b
       /\ s[i].HP <= 0 <=> i = Lost(s)

\* As long as both live they are who they were, and can fight on.
LEMMA RoundsLeaveFresh ==
  ASSUME NEW b \in Battle, NEW s, Fresh(s), NEW round, round = Rounds(b, s),
         NEW n \in Nat, \A m \in 1..n : ~Dead(round[m])
  PROVE  /\ Fresh(round[n])
         /\ \A i \in 1..2 : Same(round[n][i], s[i])
         /\ round[n][1].HP + round[n][2].HP + n <= s[1].HP + s[2].HP
<1>1. /\ round \in [Nat -> Pair] /\ round[0] = s
      /\ \A m \in Nat : round[m + 1] = Fight(b, round[m])
  BY RoundsGoOn DEF Fresh
<1>2. s[1].HP \in Int /\ s[2].HP \in Int
  BY DEF Fresh, Fit, Status
<1>. DEFINE Good(m) == /\ Fresh(round[m])
                       /\ \A i \in 1..2 : Same(round[m][i], s[i])
                       /\ round[m][1].HP + round[m][2].HP + m <= s[1].HP + s[2].HP
            S == {m \in 0..n : Good(m)}
<1>3. 0 \in S
  BY <1>1, <1>2 DEF Same
<1>4. ASSUME NEW m \in 0..(n - 1), m \in S
      PROVE  m + 1 \in S
  <2>1. m \in Nat /\ m + 1 \in 0..n /\ m + 1 \in 1..n
    BY <1>4
  <2>2. PICK t \in Pair : t = round[m]
    BY <1>1, <2>1
  <2>3. PICK u1 \in Status, u2 \in Status :
          /\ Fight(b, t) = <<u1, u2>>
          /\ Same(u1, t[1]) /\ Same(u2, t[2])
          /\ t[1].HP > 0 /\ t[2].HP > 0 /\ t[1].ATK > 0 /\ t[2].ATK > 0
             => u1.HP + u2.HP < t[1].HP + t[2].HP
    BY FightKeeps
  <2>4. Good(m)
    BY <1>4
  <2>5. /\ Fit(t[1]) /\ Fit(t[2]) /\ t[1].ATK > 0 /\ t[2].ATK > 0
        /\ Same(t[1], s[1]) /\ Same(t[2], s[2])
        /\ t[1].HP + t[2].HP + m <= s[1].HP + s[2].HP
    BY <2>2, <2>4 DEF Fresh
  <2>6. round[m + 1] = <<u1, u2>>
    BY <1>1, <2>1, <2>2, <2>3
  <2>7. ~Dead(<<u1, u2>>)
    BY <2>1, <2>6
  <2>8. u1.HP > 0 /\ u2.HP > 0 /\ u1.HP \in Int /\ u2.HP \in Int
    BY <2>7 DEF Dead, Status
  <2>9. ~u1.battle_ended_flag /\ ~u2.battle_ended_flag
    <3>1. PICK v1 \in Status, v2 \in Status :
            /\ Fight(b, t) = <<v1, v2>>
            /\ v1.battle_ended_flag <=> v1.HP <= 0 \/ v2.HP <= 0
            /\ v2.battle_ended_flag <=> v1.HP <= 0 \/ v2.HP <= 0
      BY <2>5, FightRules
    <3>2. v1 = u1 /\ v2 = u2
      BY <2>3, <3>1
    <3>. QED  BY <2>8, <3>1, <3>2
  <2>10. Fresh(<<u1, u2>>)
    <3>1. u1.ATK > 0 /\ u2.ATK > 0
      BY <2>3, <2>5 DEF Same
    <3>2. \A i \in 1..2 : <<u1, u2>>[i] = u1 \/ <<u1, u2>>[i] = u2
      OBVIOUS
    <3>. QED  BY <2>8, <2>9, <3>1, <3>2, PairOf DEF Fresh, Fit
  <2>11. Same(u1, s[1]) /\ Same(u2, s[2])
    BY <2>3, <2>5 DEF Same
  <2>12. u1.HP + u2.HP + (m + 1) <= s[1].HP + s[2].HP
    <3>1. t[1].HP \in Int /\ t[2].HP \in Int /\ t[1].HP > 0 /\ t[2].HP > 0
      BY <2>5 DEF Fit, Status
    <3>2. u1.HP + u2.HP < t[1].HP + t[2].HP
      BY <2>3, <2>5, <3>1
    <3>. QED  BY <1>2, <2>1, <2>5, <2>8, <3>1, <3>2
  <2>13. \A i \in 1..2 : Same(<<u1, u2>>[i], s[i])
    BY <2>11
  <2>14. Good(m + 1)
    BY <2>6, <2>10, <2>12, <2>13
  <2>. QED  BY <2>1, <2>14
<1>5. 0..n \subseteq S
  <2>. HIDE DEF S
  <2>. QED  BY <1>3, <1>4, AllUpTo
<1>6. n \in S
  BY <1>5
<1>. QED  BY <1>6

\* The round with a death in it: one of the two has died, and both know.
LEMMA LastRound ==
  ASSUME NEW b \in Battle, NEW s, Fresh(s), Dead(Fight(b, s))
  PROVE  /\ Over(b, Fight(b, s))
         /\ \A i \in 1..2 : Same(Fight(b, s)[i], s[i])
<1>1. s \in Pair /\ Fit(s[1]) /\ Fit(s[2]) /\ s[1].ATK > 0 /\ s[2].ATK > 0
  BY DEF Fresh
<1>2. PICK u1 \in Status, u2 \in Status :
        Fight(b, s) = <<u1, u2>> /\ Same(u1, s[1]) /\ Same(u2, s[2])
  BY <1>1, FightKeeps
<1>3. /\ u1.current_battle_id = b /\ u2.current_battle_id = b
      /\ u1.HP > 0 \/ u2.HP > 0
      /\ u1.battle_ended_flag <=> u1.HP <= 0 \/ u2.HP <= 0
      /\ u2.battle_ended_flag <=> u1.HP <= 0 \/ u2.HP <= 0
  <2>1. PICK v1 \in Status, v2 \in Status :
            /\ Fight(b, s) = <<v1, v2>>
            /\ v1.current_battle_id = b /\ v2.current_battle_id = b
            /\ v1.HP > 0 \/ v2.HP > 0
            /\ v1.battle_ended_flag <=> v1.HP <= 0 \/ v2.HP <= 0
            /\ v2.battle_ended_flag <=> v1.HP <= 0 \/ v2.HP <= 0
    BY <1>1, FightRules
  <2>2. v1 = u1 /\ v2 = u2
    BY <1>2, <2>1
  <2>. QED  BY <2>1, <2>2
<1>4. u1.HP \in Int /\ u2.HP \in Int
  BY DEF Status
<1>5. u1.HP <= 0 \/ u2.HP <= 0
  BY <1>2 DEF Dead
<1>6. u1.ATK > 0 /\ u2.ATK > 0
  BY <1>1, <1>2 DEF Same
<1>. DEFINE z == <<u1, u2>>
<1>7. z[1] = u1 /\ z[2] = u2 /\ z \in Pair
  BY PairOf
<1>. HIDE DEF z
<1>8. PICK k \in 1..2 : \A i \in 1..2 : z[i].HP <= 0 <=> i = k
  <2>1. CASE u1.HP <= 0
    <3>1. u2.HP > 0
      BY <1>3, <1>4, <2>1
    <3>2. \A i \in 1..2 : z[i].HP <= 0 <=> i = 1
      BY <1>4, <1>7, <2>1, <3>1
    <3>. QED  BY <3>2
  <2>2. CASE u2.HP <= 0
    <3>1. u1.HP > 0
      BY <1>3, <1>4, <2>2
    <3>2. \A i \in 1..2 : z[i].HP <= 0 <=> i = 2
      BY <1>4, <1>7, <2>2, <3>1
    <3>. QED  BY <3>2
  <2>. QED  BY <1>5, <2>1, <2>2
<1>9. Lost(z) = k
  BY <1>8 DEF Lost
<1>10. Over(b, z)
  BY <1>3, <1>5, <1>6, <1>7, <1>8, <1>9 DEF Over
<1>. QED  BY <1>2, <1>7, <1>10 DEF z

\* A battle on paper ends with the first death.
LEMMA DuelIs ==
  ASSUME NEW b \in Battle, NEW s, Fresh(s), NEW n \in Nat, n # 0,
         Dead(Rounds(b, s)[n]), \A m \in 1..(n - 1) : ~Dead(Rounds(b, s)[m])
  PROVE  /\ Duel(b, s) = Rounds(b, s)[n]
         /\ Over(b, Duel(b, s))
         /\ \A i \in 1..2 : Same(Duel(b, s)[i], s[i])
<1>. DEFINE round == Rounds(b, s)
            First1(k) == Dead(round[k]) /\ \A m \in 1..(k - 1) : ~Dead(round[m])
<1>1. n - 1 \in Nat /\ (n - 1) + 1 = n
  OBVIOUS
<1>. HIDE DEF round
<1>2. /\ Fresh(round[n - 1])
      /\ \A i \in 1..2 : Same(round[n - 1][i], s[i])
      /\ round[n - 1][1].HP + round[n - 1][2].HP + (n - 1) <= s[1].HP + s[2].HP
  BY <1>1, RoundsLeaveFresh DEF round
<1>3. n \in 1..(s[1].HP + s[2].HP)
  <2>1. /\ s[1].HP \in Int /\ s[2].HP \in Int
        /\ round[n - 1][1].HP \in Int /\ round[n - 1][2].HP \in Int
        /\ round[n - 1][1].HP > 0 /\ round[n - 1][2].HP > 0
    BY <1>2 DEF Fresh, Fit, Status
  <2>. QED  BY <1>2, <2>1
<1>4. ASSUME NEW k \in 1..(s[1].HP + s[2].HP), First1(k)
      PROVE  k = n
  <2>1. k \in Int /\ k >= 1
    BY <1>3
  <2>2. ~(k < n)
    <3>1. k < n => k \in 1..(n - 1)
      BY <2>1
    <3>. QED  BY <1>4, <3>1 DEF round
  <2>3. ~(n < k)
    <3>1. n < k => n \in 1..(k - 1)
      BY <2>1
    <3>. QED  BY <1>4, <3>1 DEF round
  <2>. QED  BY <2>1, <2>2, <2>3
<1>5. First1(n)
  BY DEF round
<1>6. Duel(b, s) = round[CHOOSE k \in 1..(s[1].HP + s[2].HP) : First1(k)]
  BY DEF Duel, round
<1>7. (CHOOSE k \in 1..(s[1].HP + s[2].HP) : First1(k)) = n
  <2>. HIDE DEF First1
  <2>. QED  BY <1>3, <1>4, <1>5
<1>8. Duel(b, s) = round[n]
  BY <1>6, <1>7
<1>9. round[n] = Fight(b, round[n - 1])
  <2>1. round[(n - 1) + 1] = Fight(b, round[n - 1])
    BY <1>1, RoundsGoOn DEF round, Fresh
  <2>. QED  BY <1>1, <2>1
<1>10. Over(b, round[n]) /\ \A i \in 1..2 : Same(round[n][i], round[n - 1][i])
  BY <1>2, <1>9, LastRound DEF round
<1>11. \A i \in 1..2 : Same(round[n][i], s[i])
  BY <1>2, <1>10 DEF Same
<1>. QED  BY <1>8, <1>10, <1>11 DEF round

\* Every battle on paper ends.
LEMMA DuelEnds ==
  ASSUME NEW b \in Battle, NEW s, Fresh(s)
  PROVE  /\ Over(b, Duel(b, s))
         /\ \A i \in 1..2 : Same(Duel(b, s)[i], s[i])
<1>. DEFINE round == Rounds(b, s)
            D == {n \in Nat : n # 0 /\ Dead(round[n])}
<1>1. D # {}
  <2>. SUFFICES ASSUME D = {} PROVE FALSE
    OBVIOUS
  <2>1. PICK n \in Nat : n = s[1].HP + s[2].HP
    BY DEF Fresh, Fit, Status
  <2>2. \A m \in 1..n : ~Dead(round[m])
    OBVIOUS
  <2>. HIDE DEF round
  <2>3. Fresh(round[n]) /\ round[n][1].HP + round[n][2].HP + n <= s[1].HP + s[2].HP
    BY <2>2, RoundsLeaveFresh DEF round
  <2>4. /\ round[n][1].HP \in Int /\ round[n][2].HP \in Int
        /\ round[n][1].HP > 0 /\ round[n][2].HP > 0
    BY <2>3 DEF Fresh, Fit, Status
  <2>. QED  BY <2>1, <2>3, <2>4
<1>2. PICK n \in D : \A m \in D : n <= m
  <2>1. D \subseteq Nat
    OBVIOUS
  <2>. HIDE DEF D
  <2>. QED  BY <1>1, <2>1, LeastNat
<1>3. n \in Nat /\ n # 0 /\ Dead(round[n])
  BY <1>2
<1>4. \A m \in 1..(n - 1) : ~Dead(round[m])
  <2>1. \A m \in 1..(n - 1) : m \in Nat /\ m # 0 /\ ~(n <= m)
    BY <1>3
  <2>. QED  BY <1>2, <2>1
<1>. HIDE DEF D
<1>. QED  BY <1>3, <1>4, DuelIs

\* What the players of player_status.txt are like; a Status of one of them; a
\* battle that is written on a sheet as it should be.
Entrance(first) ==
  /\ first \in [Real -> Status]
  /\ \A p \in Real : Fit(first[p]) /\ first[p].ATK > 0 /\ first[p].real_player_id = p
Genuine(first, s) ==
  /\ s \in Status
  /\ s.ATK = first[s.real_player_id].ATK /\ s.attr = first[s.real_player_id].attr
Right(first, sheet, b) ==
  /\ b \in Ready(sheet)
  /\ sheet[b] = Duel(b, Entrants(first, sheet, b))
  /\ Over(b, sheet[b])
  /\ \A i \in 1..2 : Genuine(first, sheet[b][i])
Sheets(first) ==
  {sheet \in UNION {[S -> Pair] : S \in SUBSET Battle} :
     \A b \in DOMAIN sheet : Right(first, sheet, b)}

LEMMA SheetIsOfPairs ==
  ASSUME NEW first, NEW sheet \in Sheets(first)
  PROVE  /\ DOMAIN sheet \subseteq Battle
         /\ sheet \in [DOMAIN sheet -> Pair]
         /\ \A b \in DOMAIN sheet : Right(first, sheet, b)
<1>1. PICK S \in SUBSET Battle : sheet \in [S -> Pair]
  BY DEF Sheets
<1>2. DOMAIN sheet = S
  BY <1>1
<1>. QED  BY <1>1, <1>2 DEF Sheets

\* An agent has one battle whose loser it takes over.
LEMMA OneSource ==
  ASSUME NEW b \in Battle, NEW a \in Agent, agent[b] = a
  PROVE  Source(a) = b
<1>1. agent[b] # NoAgent
  BY NumberAssumption DEF NoAgent
<1>2. ASSUME NEW d \in Battle, agent[d] = a PROVE d = b
  BY <1>1, <1>2, AgentAssumption
<1>. QED  BY <1>2 DEF Source

\* The HP of one who recovers, and the rest of him.
LEMMA AfterBattle ==
  ASSUME NEW first, NEW s, Genuine(first, s), s.ATK > 0, NEW h \in Int, h > 0,
         NEW t, t = [s EXCEPT !.HP = h, !.battle_ended_flag = FALSE]
  PROVE  Fit(t) /\ t.ATK > 0 /\ Genuine(first, t) /\ Same(t, s)
BY DEF Genuine, Fit, Status, Same

LEMMA HalfWay ==
  ASSUME NEW h \in Int, NEW f \in Int, h > 0, f > 0
  PROVE  h + (f - h) \div 2 \in Int /\ h + (f - h) \div 2 > 0
OBVIOUS

LEMMA WinnerGoesOn ==
  ASSUME NEW first, Entrance(first), NEW b \in Battle, NEW s, Over(b, s),
         \A i \in 1..2 : Genuine(first, s[i])
  PROVE  /\ Fit(WinnerOf(first, s)) /\ WinnerOf(first, s).ATK > 0
         /\ Genuine(first, WinnerOf(first, s))
<1>1. PICK i \in 1..2 : i = 3 - Lost(s)
  BY DEF Over
<1>2. PICK w \in Status : w = s[i]
  BY DEF Over, Pair
<1>3. i # Lost(s)
  BY <1>1 DEF Over
<1>4. w.HP \in Int /\ w.HP > 0 /\ w.ATK > 0 /\ Genuine(first, w)
  BY <1>2, <1>3 DEF Over, Status
<1>5. w.real_player_id \in Real
  BY DEF Status
<1>6. PICK f \in Int : f = first[w.real_player_id].HP /\ f > 0
  BY <1>5 DEF Entrance, Fit, Status
<1>7. PICK h \in Int : h = w.HP + (f - w.HP) \div 2 /\ h > 0
  BY <1>4, <1>6, HalfWay
<1>8. WinnerOf(first, s) = [w EXCEPT !.HP = h, !.battle_ended_flag = FALSE]
  <2>1. s[3 - Lost(s)] = w
    BY <1>1, <1>2
  <2>2. WinnerOf(first, s) = [w EXCEPT !.HP = w.HP + (first[w.real_player_id].HP - w.HP) \div 2,
                                       !.battle_ended_flag = FALSE]
    BY <2>1, Zenon DEF WinnerOf
  <2>3. h = w.HP + (first[w.real_player_id].HP - w.HP) \div 2
    BY <1>6, <1>7
  <2>. QED  BY <2>2, <2>3, Zenon
<1>. QED  BY <1>4, <1>7, <1>8, AfterBattle

LEMMA LoserGoesOn ==
  ASSUME NEW first, Entrance(first), NEW b \in Battle, NEW s, Over(b, s),
         \A i \in 1..2 : Genuine(first, s[i])
  PROVE  /\ Fit(LoserOf(first, s)) /\ LoserOf(first, s).ATK > 0
         /\ Genuine(first, LoserOf(first, s))
<1>1. PICK i \in 1..2 : i = Lost(s)
  BY DEF Over
<1>2. PICK l \in Status : l = s[i]
  BY DEF Over, Pair
<1>3. l.ATK > 0 /\ Genuine(first, l)
  BY <1>2 DEF Over
<1>4. l.real_player_id \in Real
  BY DEF Status
<1>5. PICK f \in Int : f = first[l.real_player_id].HP /\ f > 0
  BY <1>4 DEF Entrance, Fit, Status
<1>6. LoserOf(first, s) = [l EXCEPT !.HP = f, !.battle_ended_flag = FALSE]
  <2>1. s[Lost(s)] = l
    BY <1>1, <1>2
  <2>2. LoserOf(first, s) = [l EXCEPT !.HP = first[l.real_player_id].HP, !.battle_ended_flag = FALSE]
    BY <2>1, Zenon DEF LoserOf
  <2>. QED  BY <1>5, <2>2, Zenon
<1>. QED  BY <1>3, <1>5, <1>6, AfterBattle

\* With what the three kinds of processes enter a battle.
LEMMA EntersIs ==
  ASSUME NEW first, NEW sheet
  PROVE  /\ \A p \in Real : Enters(first, sheet, p) = first[p]
         /\ \A b \in Battle : Enters(first, sheet, b) = WinnerOf(first, sheet[b])
         /\ \A a \in Agent : Enters(first, sheet, a) = LoserOf(first, sheet[Source(a)])
BY NameAssumption DEF Enters, Player

\* Whoever is known enters his battle fit to fight.
LEMMA EntersFit ==
  ASSUME NEW first, Entrance(first), NEW sheet \in Sheets(first), NEW p, Known(sheet, p)
  PROVE  /\ Fit(Enters(first, sheet, p)) /\ Enters(first, sheet, p).ATK > 0
         /\ Genuine(first, Enters(first, sheet, p))
<1>1. CASE p \in Real
  <2>1. Enters(first, sheet, p) = first[p]
    BY <1>1, EntersIs
  <2>. QED  BY <1>1, <2>1 DEF Entrance, Genuine
<1>2. CASE p \in Battle /\ p \in DOMAIN sheet
  <2>1. Enters(first, sheet, p) = WinnerOf(first, sheet[p])
    BY <1>2, EntersIs
  <2>2. Right(first, sheet, p)
    BY <1>2, SheetIsOfPairs
  <2>. QED  BY <1>2, <2>1, <2>2, WinnerGoesOn DEF Right
<1>3. CASE p \in Agent /\ \E b \in DOMAIN sheet : agent[b] = p
  <2>1. PICK b \in DOMAIN sheet : agent[b] = p
    BY <1>3
  <2>2. b \in Battle /\ Right(first, sheet, b)
    BY <2>1, SheetIsOfPairs
  <2>3. Source(p) = b
    BY <1>3, <2>1, <2>2, OneSource
  <2>4. Enters(first, sheet, p) = LoserOf(first, sheet[b])
    BY <1>3, <2>3, EntersIs
  <2>. QED  BY <2>2, <2>4, LoserGoesOn DEF Right
<1>. QED  BY <1>1, <1>2, <1>3 DEF Known

\* What is known stays as it is when battles are added.
LEMMA KnownStays ==
  ASSUME NEW first, NEW sheet \in Sheets(first), NEW more, DOMAIN sheet \subseteq DOMAIN more,
         \A b \in DOMAIN sheet : more[b] = sheet[b], NEW p, Known(sheet, p)
  PROVE  Known(more, p) /\ Enters(first, more, p) = Enters(first, sheet, p)
<1>1. CASE p \in Real
  BY <1>1, EntersIs DEF Known
<1>2. CASE p \in Battle /\ p \in DOMAIN sheet
  BY <1>2, EntersIs DEF Known
<1>3. CASE p \in Agent /\ \E b \in DOMAIN sheet : agent[b] = p
  <2>1. PICK b \in DOMAIN sheet : agent[b] = p
    BY <1>3
  <2>2. b \in Battle
    BY <2>1, SheetIsOfPairs
  <2>3. Source(p) = b
    BY <1>3, <2>1, <2>2, OneSource
  <2>. QED  BY <1>3, <2>1, <2>3, EntersIs DEF Known
<1>. QED  BY <1>1, <1>2, <1>3 DEF Known

\* The two who meet in a battle that can be added.
LEMMA EntrantsFresh ==
  ASSUME NEW first, Entrance(first), NEW sheet \in Sheets(first), NEW b \in Ready(sheet)
  PROVE  /\ Fresh(Entrants(first, sheet, b))
         /\ \A i \in 1..2 : Genuine(first, Entrants(first, sheet, b)[i])
<1>. DEFINE e(i) == Enters(first, sheet, tar_id[b][i])
<1>1. \A i \in 1..2 : Fit(e(i)) /\ e(i).ATK > 0 /\ Genuine(first, e(i))
  <2>1. \A i \in 1..2 : Known(sheet, tar_id[b][i])
    <3>1. \A i \in 1..2 : i = 1 \/ i = 2
      OBVIOUS
    <3>. QED  BY <3>1 DEF Ready
  <2>. QED  BY <2>1, EntersFit
<1>2. Entrants(first, sheet, b) = <<e(1), e(2)>>
  BY DEF Entrants
<1>. HIDE DEF e
<1>3. <<e(1), e(2)>> \in Pair
  BY <1>1, PairOf DEF Fit
<1>4. \A i \in 1..2 : <<e(1), e(2)>>[i] = e(i)
  OBVIOUS
<1>. QED  BY <1>1, <1>2, <1>3, <1>4 DEF Fresh

\* A battle is added as it should be.
LEMMA DuelRight ==
  ASSUME NEW first, Entrance(first), NEW sheet \in Sheets(first), NEW b \in Ready(sheet)
  PROVE  LET d == Duel(b, Entrants(first, sheet, b)) IN
           Over(b, d) /\ \A i \in 1..2 : Genuine(first, d[i])
<1>. DEFINE s == Entrants(first, sheet, b)
            d == Duel(b, s)
<1>1. b \in Battle
  BY DEF Ready
<1>2. Fresh(s) /\ \A i \in 1..2 : Genuine(first, s[i])
  BY EntrantsFresh
<1>. HIDE DEF s
<1>3. Over(b, d) /\ \A i \in 1..2 : Same(d[i], s[i])
  BY <1>1, <1>2, DuelEnds
<1>. HIDE DEF d
<1>4. \A i \in 1..2 : d[i] \in Status
  BY <1>3 DEF Over, Pair
<1>5. \A i \in 1..2 : Genuine(first, d[i])
  BY <1>2, <1>3, <1>4 DEF Genuine, Same
<1>. QED  BY <1>3, <1>5 DEF d, s

LEMMA FilledIs ==
  ASSUME NEW first, Entrance(first), NEW sheet \in Sheets(first)
  PROVE  /\ Filled(first, sheet) \in Sheets(first)
         /\ DOMAIN Filled(first, sheet) = DOMAIN sheet \cup Ready(sheet)
         /\ \A b \in DOMAIN sheet : Filled(first, sheet)[b] = sheet[b]
<1>. DEFINE more == Filled(first, sheet)
            S == DOMAIN sheet \cup Ready(sheet)
<1>1. /\ DOMAIN more = S
      /\ \A b \in DOMAIN sheet : more[b] = sheet[b]
      /\ \A b \in S : b \notin DOMAIN sheet => more[b] = Duel(b, Entrants(first, sheet, b))
      /\ more = [b \in S |-> more[b]]
  BY DEF Filled
<1>2. S \in SUBSET Battle
  BY SheetIsOfPairs DEF Ready
<1>. HIDE DEF more
<1>3. ASSUME NEW b \in S PROVE Right(first, more, b)
  <2>1. b \in Ready(sheet)
    BY SheetIsOfPairs DEF Right
  <2>2. /\ more[b] = Duel(b, Entrants(first, sheet, b))
        /\ Over(b, more[b]) /\ \A i \in 1..2 : Genuine(first, more[b][i])
    <3>1. CASE b \in DOMAIN sheet
      BY <1>1, <3>1, SheetIsOfPairs DEF Right
    <3>2. CASE b \notin DOMAIN sheet
      BY <1>1, <2>1, <3>2, DuelRight
    <3>. QED  BY <3>1, <3>2
  <2>3. \A i \in 1..2 :
          /\ Known(more, tar_id[b][i])
          /\ Enters(first, more, tar_id[b][i]) = Enters(first, sheet, tar_id[b][i])
    <3>1. ASSUME NEW i \in 1..2 PROVE Known(sheet, tar_id[b][i])
      <4>1. i = 1 \/ i = 2
        OBVIOUS
      <4>. QED  BY <2>1, <4>1 DEF Ready
    <3>. QED  BY <1>1, <3>1, KnownStays
  <2>4. Entrants(first, more, b) = Entrants(first, sheet, b)
    BY <2>3 DEF Entrants
  <2>5. b \in Ready(more)
    BY <2>1, <2>3 DEF Ready
  <2>. QED  BY <2>2, <2>4, <2>5 DEF Right
<1>4. more \in [S -> Pair]
  <2>1. \A b \in S : more[b] \in Pair
    BY <1>3 DEF Right, Over
  <2>. QED  BY <1>1, <2>1
<1>5. more \in Sheets(first)
  BY <1>1, <1>2, <1>3, <1>4 DEF Sheets
<1>. QED  BY <1>1, <1>5 DEF more

\* The sheet of the tournament: what is written on it is right, and there is
\* nothing to add.
LEMMA SheetIs ==
  ASSUME NEW first, Entrance(first)
  PROVE  Sheet(first) \in Sheets(first) /\ Ready(Sheet(first)) \subseteq DOMAIN Sheet(first)
<1>. DEFINE V == Sheets(first)
            step == [n \in Nat |-> [sheet \in V |-> Filled(first, sheet)]]
<1>1. Recursion(V, <<>>, step)
  <2>1. <<>> \in V
    <3>1. <<>> \in [{} -> Pair] /\ {} \in SUBSET Battle /\ DOMAIN <<>> = {}
      OBVIOUS
    <3>. QED  BY <3>1 DEF Sheets
  <2>. QED  BY <2>1, FilledIs DEF Recursion
<1>2. \A n \in Nat : \A sheet \in V : step[n][sheet] = Filled(first, sheet)
  OBVIOUS
<1>. HIDE DEF step, V
<1>3. PICK f : Recurs(f, V, <<>>, step)
  BY <1>1, RecursionExists
<1>4. f \in [Nat -> V] /\ f[0] = <<>> /\ \A n \in Nat : f[n + 1] = Filled(first, f[n])
  BY <1>2, <1>3 DEF Recurs
<1>. DEFINE Way(g) == g = [n \in Nat |-> IF n = 0 THEN <<>> ELSE Filled(first, g[n - 1])]
<1>5. Way(f)
  <2>1. ASSUME NEW n \in Nat PROVE f[n] = IF n = 0 THEN <<>> ELSE Filled(first, f[n - 1])
    <3>1. n # 0 => n - 1 \in Nat /\ (n - 1) + 1 = n
      OBVIOUS
    <3>. QED  BY <1>4, <3>1
  <2>. QED  BY <1>4, <2>1
<1>. DEFINE g == CHOOSE h : Way(h)
            N == Cardinality(Battle)
<1>6. Way(g)
  <2>. HIDE DEF Way
  <2>. QED  BY <1>5
<1>7. Sheet(first) = g[N]
  BY DEF Sheet
<1>8. N \in Nat
  BY BattleAssumption, FS_CardinalityType
<1>9. g = [n \in Nat |-> IF n = 0 THEN <<>> ELSE Filled(first, g[n - 1])]
  BY <1>6
<1>. HIDE DEF g
<1>10. g[0] = <<>> /\ \A n \in Nat : g[n + 1] = Filled(first, g[n])
  <2>1. \A n \in Nat : n + 1 \in Nat /\ n + 1 # 0 /\ (n + 1) - 1 = n
    OBVIOUS
  <2>. QED  BY <1>9, <2>1
<1>. HIDE DEF N
\* As long as something is added the sheet has at least as many battles as
\* there were additions.
<1>. DEFINE Full(n) == Ready(g[n]) \subseteq DOMAIN g[n]
            Many(n) == Cardinality(DOMAIN g[n]) >= n
            S == {n \in 0..N : g[n] \in V /\ (Full(n) \/ Many(n))}
<1>11. 0 \in S
  <2>1. DOMAIN g[0] = {} /\ g[0] \in V
    BY <1>1, <1>10 DEF Recursion
  <2>. QED  BY <1>8, <2>1, FS_EmptySet
<1>12. ASSUME NEW n \in 0..(N - 1), n \in S
       PROVE  n + 1 \in S
  <2>1. n \in Nat /\ n + 1 \in 0..N
    BY <1>8, <1>12
  <2>2. g[n] \in V
    BY <1>12
  <2>. DEFINE more == g[n + 1]
  <2>3. /\ more \in V
        /\ DOMAIN more = DOMAIN g[n] \cup Ready(g[n])
        /\ \A b \in DOMAIN g[n] : more[b] = g[n][b]
    <3>1. more = Filled(first, g[n])
      BY <1>10, <2>1
    <3>2. g[n] \in Sheets(first)
      BY <2>2 DEF V
    <3>. HIDE DEF more
    <3>. QED  BY <3>1, <3>2, FilledIs DEF V
  <2>4. CASE Full(n)
    <3>1. DOMAIN more = DOMAIN g[n]
      BY <2>3, <2>4
    <3>2. more = g[n]
      <4>1. more = [b \in DOMAIN g[n] |-> more[b]] /\ g[n] = [b \in DOMAIN g[n] |-> g[n][b]]
        BY <2>2, <2>3, <3>1, SheetIsOfPairs DEF V
      <4>. QED  BY <2>3, <4>1
    <3>. QED  BY <2>1, <2>3, <2>4, <3>2
  <2>5. CASE ~Full(n)
    <3>1. Many(n)
      BY <1>12, <2>5
    <3>2. DOMAIN g[n] \subseteq DOMAIN more /\ DOMAIN g[n] # DOMAIN more
      BY <2>3, <2>5
    <3>3. IsFiniteSet(DOMAIN more)
      <4>1. DOMAIN more \subseteq Battle
        BY <2>3, SheetIsOfPairs DEF V
      <4>. HIDE DEF more
      <4>. QED  BY <4>1, BattleAssumption, FS_Subset
    <3>4. /\ IsFiniteSet(DOMAIN g[n])
          /\ Cardinality(DOMAIN g[n]) <= Cardinality(DOMAIN more)
          /\ Cardinality(DOMAIN g[n]) # Cardinality(DOMAIN more)
      <4>. HIDE DEF more
      <4>. QED  BY <3>2, <3>3, FS_Subset
    <3>5. Cardinality(DOMAIN g[n]) \in Nat /\ Cardinality(DOMAIN more) \in Nat
      BY <3>3, <3>4, FS_CardinalityType
    <3>6. Many(n + 1)
      BY <2>1, <3>1, <3>4, <3>5
    <3>. QED  BY <2>1, <2>3, <3>6
  <2>. QED  BY <2>4, <2>5
<1>13. N \in S
  <2>1. 0..N \subseteq S
    <3>. HIDE DEF S
    <3>. QED  BY <1>8, <1>11, <1>12, AllUpTo
  <2>. QED  BY <1>8, <2>1
<1>14. Many(N) => DOMAIN g[N] = Battle
  <2>1. DOMAIN g[N] \subseteq Battle
    BY <1>13, SheetIsOfPairs DEF V
  <2>2. /\ Cardinality(DOMAIN g[N]) <= N /\ IsFiniteSet(DOMAIN g[N])
        /\ N = Cardinality(DOMAIN g[N]) => DOMAIN g[N] = Battle
    BY <2>1, BattleAssumption, FS_Subset DEF N
  <2>3. Cardinality(DOMAIN g[N]) \in Nat
    BY <2>2, FS_CardinalityType
  <2>. QED  BY <1>8, <2>2, <2>3
<1>15. Full(N)
  BY <1>13, <1>14 DEF Ready
<1>. QED  BY <1>7, <1>13, <1>15 DEF V

-----------------------------------------------------------------------------
(* The processes do what is on paper.                                      *)

\* How a player goes on after an answer that leaves him alive.
Refreshed(first, s) ==
  IF s.battle_ended_flag
  THEN [s EXCEPT !.HP = s.HP + (first[s.real_player_id].HP - s.HP) \div 2,
                 !.battle_ended_flag = FALSE]
  ELSE s

\* What tells of a battle's end is on the sheet.
Sound(first, sheet, s) ==
  /\ Genuine(first, s)
  /\ s.battle_ended_flag => /\ s.current_battle_id \in DOMAIN sheet
                            /\ \E i \in 1..2 : s = sheet[s.current_battle_id][i]

\* What c has to send to its parent next, who holds this from it: what it
\* enters the battle with, or how it goes on from what it was last told.
Due(first, sheet, c, held, s) ==
  IF held = NoStatus THEN Known(sheet, c) /\ s = Enters(first, sheet, c)
  ELSE s = Refreshed(first, held)

\* Where a process has not yet sent anything.
Early == {"unborn", "fork", "first", "second", "wait", "open", "take"}

\* What a parent and its child tell each other is what is due.
Talk(b, i) ==
  LET c == tar_id[b][i] IN
    /\ up[c] # <<>> => Due(First, Paper, c, player[b][i], Head(up[c]))
    /\ down[c] # <<>> => Head(down[c]) = player[b][i]
    /\ c \in Player /\ (pc[c] = "send" \/ (pc[c] = "unborn" /\ c \in Real))
       => Due(First, Paper, c, player[b][i], stat[c])
    /\ c \in Battle /\ pc[c] = "upward"
       => Due(First, Paper, c, player[b][i], Refreshed(First, player[c][Winner(c)]))
    /\ pc[c] \in Early => player[b][i] = NoStatus
Talks == \A b \in Battle, i \in 1..2 : Talk(b, i)

\* A battle stands as on paper after k rounds, and goes on.
Fought(first, sheet, b, k, s) ==
  /\ b \in DOMAIN sheet
  /\ s = Rounds(b, Entrants(first, sheet, b))[k]
  /\ \A m \in 1..k : ~Dead(Rounds(b, Entrants(first, sheet, b))[m])

\* A battle holds what it should before its first Status and before its second,
\* and after its last round.
Blank(s) == s[1] = NoStatus /\ s[2] = NoStatus
Started(first, sheet, b, s) ==
  /\ Known(sheet, tar_id[b][1]) /\ s[1] = Enters(first, sheet, tar_id[b][1])
  /\ s[2] = NoStatus
Bout(b) ==
  /\ \A i \in 1..2 : player[b][i] = NoStatus \/ Sound(First, Paper, player[b][i])
  /\ pc[b] \in {"unborn", "fork"} => Blank(player[b])
  /\ pc[b] = "first" =>
       Blank(player[b]) \/ \E k \in Nat \ {0} : Fought(First, Paper, b, k, player[b])
  /\ pc[b] = "second" =>
       \/ Started(First, Paper, b, player[b])
       \/ \E k \in Nat \ {0} : Fought(First, Paper, b, k, player[b])
  /\ pc[b] = "wait" => player[b] = Paper[b]
  /\ pc[b] \in {"wait", "upward", "downward"} =>
       /\ b \in DOMAIN Paper /\ loser[b] = Lost(Paper[b])
       /\ player[b][Winner(b)] # NoStatus
Bouts == \A b \in Battle : Bout(b)

\* Players can strike; who hands over does so as the loser of a battle on paper.
RealsRight ==
  \A p \in Real :
    /\ stat[p].ATK > 0
    /\ pc[p] = "hand" => /\ stat[p].current_battle_id \in DOMAIN Paper
                         /\ stat[p] = LoserOf(First, Paper[stat[p].current_battle_id])

\* An agent is handed what it enters its battle with, and has its full HP.
AgentsRight ==
  \A a \in Agent :
    /\ pc[a] = "take" => Known(Paper, a) /\ Head(fifo[a]) = Enters(First, Paper, a)
    /\ pc[a] \in {"send", "receive"} => full_hp[a] = First[stat[a].real_player_id].HP

ChampionRight ==
  champion # NoPlayer =>
    Root \in DOMAIN Paper /\ champion = Paper[Root][3 - Lost(Paper[Root])].real_player_id

PaperInv == Talks /\ Bouts /\ RealsRight /\ AgentsRight /\ ChampionRight

\* Every player has a battle to go to.
LEMMA ParentIsBattle == \A p \in Real : Parent(p) \in Battle
<1>. SUFFICES ASSUME NEW p \in Real PROVE Parent(p) \in Battle
  OBVIOUS
<1>1. p \in Process /\ p # Root
  BY Names
<1>2. PICK b \in Battle : p \in {tar_id[b][1], tar_id[b][2]}
  <2>1. PICK b \in Battle, i \in 1..2 : p = tar_id[b][i]
    BY <1>1, OneParent
  <2>2. i = 1 \/ i = 2
    OBVIOUS
  <2>. QED  BY <2>1, <2>2
<1>. QED  BY <1>2 DEF Parent

\* The paper in a state.
LEMMA PaperIs ==
  ASSUME IInv, RealsRight
  PROVE  /\ Entrance(First)
         /\ \A p \in Real : /\ First[p].HP = full_hp[p]
                            /\ First[p].ATK = stat[p].ATK /\ First[p].attr = stat[p].attr
         /\ Paper \in Sheets(First)
         /\ Ready(Paper) \subseteq DOMAIN Paper
         /\ DOMAIN Paper \subseteq Battle
         /\ \A b \in DOMAIN Paper : Right(First, Paper, b)
<1>1. ASSUME NEW p \in Real
      PROVE  /\ First[p] \in Status /\ First[p].real_player_id = p
             /\ First[p].HP = full_hp[p] /\ full_hp[p] > 0
             /\ ~First[p].battle_ended_flag
             /\ First[p].ATK = stat[p].ATK /\ First[p].attr = stat[p].attr /\ stat[p].ATK > 0
  <2>1. Parent(p) \in Battle
    BY ParentIsBattle
  <2>2. stat[p] \in Status /\ stat[p].real_player_id = p /\ full_hp[p] > 0 /\ full_hp[p] \in Nat
    BY Names DEF IInv, PlayersHold, TypeOK
  <2>3. First[p] = [stat[p] EXCEPT !.HP = full_hp[p], !.current_battle_id = Parent(p),
                                   !.battle_ended_flag = FALSE]
    BY DEF First
  <2>4. stat[p].ATK > 0
    BY DEF RealsRight
  <2>5. PICK s \in Status, h \in Int, q \in Battle : s = stat[p] /\ h = full_hp[p] /\ q = Parent(p)
    BY <2>1, <2>2
  <2>6. First[p] = [s EXCEPT !.HP = h, !.current_battle_id = q, !.battle_ended_flag = FALSE]
    BY <2>3, <2>5
  <2>7. PICK t : t = [s EXCEPT !.HP = h, !.current_battle_id = q, !.battle_ended_flag = FALSE]
    OBVIOUS
  <2>8. /\ t \in Status /\ t.real_player_id = s.real_player_id /\ t.HP = h
        /\ ~t.battle_ended_flag /\ t.ATK = s.ATK /\ t.attr = s.attr
    BY <2>7 DEF Status
  <2>. QED  BY <2>2, <2>4, <2>5, <2>6, <2>7, <2>8
<1>2. First \in [Real -> Status]
  BY <1>1 DEF First
<1>3. Entrance(First)
  BY <1>1, <1>2 DEF Entrance, Fit
<1>4. Paper \in Sheets(First) /\ Ready(Paper) \subseteq DOMAIN Paper
  BY <1>3, SheetIs DEF Paper
<1>. QED  BY <1>1, <1>3, <1>4, SheetIsOfPairs

\* It is the same in the next one, if the players stay who they are.
LEMMA PaperStays ==
  ASSUME \A p \in Real : /\ stat[p] \in Status /\ stat'[p] \in Status
                         /\ Same(stat'[p], stat[p])
                         /\ full_hp[p] \in Int /\ full_hp'[p] = full_hp[p]
  PROVE  First' = First /\ Paper' = Paper
<1>. DEFINE entry(s, h, q) == [s EXCEPT !.HP = h, !.current_battle_id = q, !.battle_ended_flag = FALSE]
<1>1. ASSUME NEW s \in Status, NEW t \in Status, Same(t, s), NEW h \in Int, NEW q \in Battle
      PROVE  entry(t, h, q) = entry(s, h, q)
  BY <1>1 DEF Status, Same
<1>2. First = [p \in Real |-> entry(stat[p], full_hp[p], Parent(p))]
  BY DEF First
<1>3. First' = [p \in Real |-> entry(stat'[p], full_hp'[p], Parent(p))]
  BY DEF First
<1>. HIDE DEF entry
<1>4. \A p \in Real : entry(stat'[p], full_hp'[p], Parent(p)) = entry(stat[p], full_hp[p], Parent(p))
  BY <1>1, ParentIsBattle
<1>5. First' = First
  BY <1>2, <1>3, <1>4
<1>. QED  BY <1>5 DEF Paper

\* A step keeps what is said where nothing changes.
LEMMA TalkStays ==
  ASSUME First' = First, Paper' = Paper, NEW b \in Battle, NEW i \in 1..2, NEW c,
         c = tar_id[b][i], Talk(b, i), player'[b] = player[b],
         pc'[c] = pc[c], up'[c] = up[c], down'[c] = down[c],
         c \in Player => stat'[c] = stat[c],
         c \in Battle => player'[c] = player[c] /\ loser'[c] = loser[c]
  PROVE  Talk(b, i)'
BY DEF Talk, Winner

LEMMA BoutStays ==
  ASSUME First' = First, Paper' = Paper, NEW b \in Battle, Bout(b),
         pc'[b] = pc[b], player'[b] = player[b], loser'[b] = loser[b]
  PROVE  Bout(b)'
BY DEF Bout, Winner

\* A step of a battle.
LEMMA BattleTalks ==
  ASSUME First' = First, Paper' = Paper, Talks, NEW x \in Battle, stat' = stat,
         \A p \in Process : p # x /\ p \notin Children(x)
           => pc'[p] = pc[p] /\ up'[p] = up[p] /\ down'[p] = down[p],
         \A b \in Battle : b # x => player'[b] = player[b] /\ loser'[b] = loser[b],
         \A i \in 1..2 : Talk(x, i)',
         \A b \in Battle, i \in 1..2 : tar_id[b][i] = x /\ b # x => Talk(b, i)'
  PROVE  Talks'
<1>1. ASSUME NEW b \in Battle, NEW i \in 1..2, b # x, tar_id[b][i] # x
      PROVE  Talk(b, i)'
  <2>1. PICK c \in Process : c = tar_id[b][i]
    BY ChildIsProcess
  <2>2. c \notin Children(x)
    <3>1. c # tar_id[x][1] /\ c # tar_id[x][2]
      BY <1>1, <2>1, OneParent
    <3>. QED  BY <3>1 DEF Children
  <2>3. Talk(b, i)
    BY DEF Talks
  <2>. QED  BY <1>1, <2>1, <2>2, <2>3, TalkStays
<1>. QED  BY <1>1 DEF Talks

\* A step of players or agents.
LEMMA PlayerTalks ==
  ASSUME First' = First, Paper' = Paper, Talks, NEW X, X \subseteq Player,
         player' = player, loser' = loser,
         \A p \in Process : p \notin X => pc'[p] = pc[p] /\ up'[p] = up[p] /\ down'[p] = down[p],
         \A p \in Player : p \notin X => stat'[p] = stat[p],
         \A b \in Battle, i \in 1..2 : tar_id[b][i] \in X => Talk(b, i)'
  PROVE  Talks'
<1>1. ASSUME NEW b \in Battle, NEW i \in 1..2, tar_id[b][i] \notin X
      PROVE  Talk(b, i)'
  <2>1. PICK c \in Process : c = tar_id[b][i]
    BY ChildIsProcess
  <2>2. Talk(b, i)
    BY DEF Talks
  <2>. QED  BY <1>1, <2>1, <2>2, TalkStays
<1>. QED  BY <1>1 DEF Talks

LEMMA NotNoStatus == \A s \in Status : s # NoStatus
<1>. SUFFICES ASSUME NEW s \in Status PROVE s # NoStatus
  OBVIOUS
<1>1. s.real_player_id \in Nat
  BY NumberAssumption DEF Status
<1>2. NoStatus.real_player_id = -1
  BY DEF NoStatus
<1>. QED  BY <1>1, <1>2

\* How players go on from answers.
LEMMA RefreshedIs ==
  ASSUME NEW first, Entrance(first), NEW s \in Status
  PROVE  /\ Refreshed(first, s) \in Status
         /\ Same(Refreshed(first, s), s) /\ ~Refreshed(first, s).battle_ended_flag
         /\ ~s.battle_ended_flag => Refreshed(first, s) = s
<1>1. s.battle_ended_flag \in BOOLEAN /\ s.HP \in Int /\ s.real_player_id \in Real
  BY DEF Status
<1>2. CASE ~s.battle_ended_flag
  BY <1>2 DEF Refreshed, Same
<1>3. CASE s.battle_ended_flag
  <2>1. first[s.real_player_id].HP \in Int
    BY <1>1 DEF Entrance, Status
  <2>2. PICK h \in Int : h = s.HP + (first[s.real_player_id].HP - s.HP) \div 2
    BY <1>1, <2>1
  <2>3. Refreshed(first, s) = [s EXCEPT !.HP = s.HP + (first[s.real_player_id].HP - s.HP) \div 2,
                                        !.battle_ended_flag = FALSE]
    BY <1>3, Zenon DEF Refreshed
  <2>4. PICK t : t = [s EXCEPT !.HP = h, !.battle_ended_flag = FALSE]
    OBVIOUS
  <2>5. t \in Status /\ Same(t, s) /\ ~t.battle_ended_flag
    BY <2>4 DEF Status, Same
  <2>6. Refreshed(first, s) = t
    BY <2>2, <2>3, <2>4, Zenon
  <2>. QED  BY <1>3, <2>5, <2>6
<1>. QED  BY <1>2, <1>3

LEMMA RefreshedWinner ==
  ASSUME NEW first, NEW b, NEW s, Over(b, s)
  PROVE  Refreshed(first, s[3 - Lost(s)]) = WinnerOf(first, s)
<1>1. 3 - Lost(s) \in 1..2
  BY DEF Over
<1>2. s[3 - Lost(s)].battle_ended_flag
  BY <1>1 DEF Over
<1>. QED  BY <1>2, Zenon DEF Refreshed, WinnerOf

\* What is due is sound.
LEMMA DueIsSound ==
  ASSUME NEW first, Entrance(first), NEW sheet \in Sheets(first), NEW c,
         NEW held, held = NoStatus \/ Sound(first, sheet, held),
         NEW s, Due(first, sheet, c, held, s)
  PROVE  Sound(first, sheet, s)
<1>1. CASE held = NoStatus
  <2>1. Known(sheet, c) /\ s = Enters(first, sheet, c)
    BY <1>1 DEF Due
  <2>2. Fit(s) /\ Genuine(first, s)
    BY <2>1, EntersFit
  <2>. QED  BY <2>2 DEF Sound, Fit
<1>2. CASE held # NoStatus
  <2>1. Genuine(first, held) /\ s = Refreshed(first, held) /\ held \in Status
    BY <1>2 DEF Due, Sound, Genuine
  <2>2. s \in Status /\ Same(s, held) /\ ~s.battle_ended_flag
    BY <2>1, RefreshedIs
  <2>. QED  BY <2>1, <2>2 DEF Sound, Genuine, Same
<1>. QED  BY <1>1, <1>2

\* A battle that stands as on paper still does after another round: it goes on,
\* or has its result.
LEMMA RoundOnPaper ==
  ASSUME NEW first, Entrance(first), NEW sheet \in Sheets(first), NEW b, NEW k \in Nat,
         NEW s, Fought(first, sheet, b, k, s), NEW t, t = Fight(b, s)
  PROVE  /\ b \in Battle
         /\ Fresh(s)
         /\ t \in Pair
         /\ \A i \in 1..2 : Sound(first, sheet, t[i])
         /\ Dead(t) => t = sheet[b] /\ Over(b, t)
         /\ ~Dead(t) => Fought(first, sheet, b, k + 1, t) /\ Fresh(t)
<1>. DEFINE s0 == Entrants(first, sheet, b)
            round == Rounds(b, s0)
<1>1. b \in DOMAIN sheet /\ b \in Battle /\ Right(first, sheet, b) /\ s = round[k]
  BY SheetIsOfPairs DEF Fought
<1>2. Fresh(s0) /\ (\A i \in 1..2 : Genuine(first, s0[i])) /\ sheet[b] = Duel(b, s0)
  BY <1>1, EntrantsFresh DEF Right
<1>3. \A m \in 1..k : ~Dead(round[m])
  BY DEF Fought
<1>4. \A n \in Nat : round[n + 1] = Fight(b, round[n])
  BY <1>1, <1>2, RoundsGoOn DEF Fresh
<1>5. \A n \in Nat : (\A m \in 1..n : ~Dead(round[m]))
                     => Fresh(round[n]) /\ \A i \in 1..2 : Same(round[n][i], s0[i])
  BY <1>1, <1>2, RoundsLeaveFresh
<1>6. \A n \in Nat : n # 0 /\ Dead(round[n]) /\ (\A m \in 1..(n - 1) : ~Dead(round[m]))
                     => /\ Duel(b, s0) = round[n] /\ Over(b, round[n])
                        /\ \A i \in 1..2 : Same(round[n][i], s0[i])
  BY <1>1, <1>2, DuelIs
<1>. HIDE DEF s0, round
<1>7. Fresh(s) /\ t = round[k + 1]
  BY <1>1, <1>3, <1>4, <1>5
<1>8. ASSUME Dead(t)
      PROVE  t = sheet[b] /\ Over(b, t) /\ \A i \in 1..2 : Same(t[i], s0[i])
  <2>1. k + 1 \in Nat /\ k + 1 # 0 /\ (k + 1) - 1 = k
    OBVIOUS
  <2>. QED  BY <1>2, <1>3, <1>6, <1>7, <1>8, <2>1
<1>9. ASSUME ~Dead(t)
      PROVE  /\ \A m \in 1..(k + 1) : ~Dead(round[m])
             /\ Fresh(t) /\ \A i \in 1..2 : Same(t[i], s0[i])
  <2>1. \A m \in 1..(k + 1) : m \in 1..k \/ m = k + 1
    OBVIOUS
  <2>2. \A m \in 1..(k + 1) : ~Dead(round[m])
    BY <1>3, <1>7, <1>9, <2>1
  <2>3. k + 1 \in Nat
    OBVIOUS
  <2>. QED  BY <1>5, <1>7, <2>2, <2>3
<1>10. t \in Pair /\ \A i \in 1..2 : t[i] \in Status /\ Same(t[i], s0[i])
  BY <1>8, <1>9 DEF Over, Fresh, Pair
<1>11. \A i \in 1..2 : Genuine(first, t[i])
  BY <1>2, <1>10 DEF Genuine, Same
<1>12. ASSUME NEW i \in 1..2 PROVE Sound(first, sheet, t[i])
  <2>1. CASE Dead(t)
    <3>1. t = sheet[b] /\ t[i].current_battle_id = b
      BY <1>8, <2>1 DEF Over
    <3>. QED  BY <1>1, <1>11, <3>1 DEF Sound
  <2>2. CASE ~Dead(t)
    BY <1>9, <1>11, <2>2 DEF Sound, Fresh, Fit
  <2>. QED  BY <2>1, <2>2
<1>13. ~Dead(t) => Fought(first, sheet, b, k + 1, t)
  BY <1>1, <1>7, <1>9 DEF Fought, round, s0
<1>. QED  BY <1>1, <1>7, <1>8, <1>9, <1>10, <1>12, <1>13

\* What a step that leaves players and agents alone keeps.
LEMMA OthersStay ==
  ASSUME RealsRight, AgentsRight, stat' = stat, full_hp' = full_hp, fifo' = fifo,
         \A p \in Real : pc'[p] = "hand" => pc[p] = "hand",
         \A a \in Agent : pc'[a] \in {"take", "send", "receive"} => pc'[a] = pc[a]
  PROVE  First' = First /\ Paper' = Paper /\ RealsRight' /\ AgentsRight'
<1>1. First' = First
  BY DEF First
<1>2. Paper' = Paper
  BY <1>1 DEF Paper
<1>3. RealsRight'
  BY <1>1, <1>2 DEF RealsRight
<1>4. AgentsRight'
  BY <1>1, <1>2 DEF AgentsRight
<1>. QED  BY <1>1, <1>2, <1>3, <1>4

\* A step of a battle that moves on alone.
LEMMA BattleOnPaper ==
  ASSUME IInv, PaperInv, NEW x \in Battle, NEW place, pc' = [pc EXCEPT ![x] = place],
         stat' = stat, full_hp' = full_hp, fifo' = fifo
  PROVE  /\ First' = First /\ Paper' = Paper /\ RealsRight' /\ AgentsRight'
         /\ pc'[x] = place /\ \A p \in Process : p # x => pc'[p] = pc[p]
<1>1. pc \in [Process -> Place] /\ x \in Process
  BY Names DEF IInv, TypeOK
<1>2. pc'[x] = place /\ \A p \in Process : p # x => pc'[p] = pc[p]
  BY <1>1
<1>3. \A p \in Player : pc'[p] = pc[p]
  BY <1>2, Names
<1>. QED  BY <1>2, <1>3, Names, OthersStay DEF PaperInv

LEMMA BattleKeepsPaper ==
  ASSUME First' = First, Paper' = Paper, RealsRight', AgentsRight',
         PaperInv, NEW x \in Battle, stat' = stat,
         \A p \in Process : p # x => pc'[p] = pc[p],
         \A p \in Process : p # x /\ p \notin Children(x) => up'[p] = up[p] /\ down'[p] = down[p],
         \A b \in Battle : b # x => player'[b] = player[b] /\ loser'[b] = loser[b],
         \A i \in 1..2 : Talk(x, i)',
         \A b \in Battle, i \in 1..2 : tar_id[b][i] = x /\ b # x => Talk(b, i)',
         Bout(x)', ChampionRight'
  PROVE  PaperInv'
<1>1. Talks'
  BY BattleTalks DEF PaperInv
<1>2. \A b \in Battle : b # x => Bout(b)'
  <2>. SUFFICES ASSUME NEW b \in Battle, b # x PROVE Bout(b)'
    OBVIOUS
  <2>1. Bout(b) /\ b \in Process
    BY Names DEF PaperInv, Bouts
  <2>. QED  BY <2>1, BoutStays
<1>. QED  BY <1>1, <1>2 DEF PaperInv, Bouts

LEMMA PaperReadFirst ==
  ASSUME IInv, PaperInv, NEW x \in Battle, ReadFirst(x)
  PROVE  PaperInv'
<1>1. pc[x] = "first"
  BY DEF ReadFirst
<1>2. PICK c \in Process, d \in Process :
        /\ c = tar_id[x][1] /\ d = tar_id[x][2] /\ c # x /\ d # x /\ c # d
        /\ Children(x) = {c, d} /\ Link(x, 1)
  BY <1>1, Kids
<1>3. PICK h : h = Head(up[c])
  OBVIOUS
<1>4. /\ up[c] # <<>>
      /\ player' = [player EXCEPT ![x][1] = h]
      /\ up' = [up EXCEPT ![c] = Tail(up[c])]
      /\ pc' = [pc EXCEPT ![x] = "second"]
      /\ UNCHANGED <<loser, stat, full_hp, down, fifo, reaped, champion>>
  BY <1>2, <1>3 DEF ReadFirst
<1>5. /\ up \in [Process -> Seq(Status)] /\ x \in Process
      /\ player \in [Battle -> [1..2 -> Status \cup {NoStatus}]]
  BY Names DEF IInv, TypeOK
<1>6. GoesOn(c)
  BY <1>1, <1>2 DEF Link, Listens
<1>7. pc[c] \in Expecting /\ down[c] = <<>> /\ Fit(h) /\ Tail(up[c]) = <<>>
  BY <1>3, <1>4, <1>5, <1>6, ReadsChild
<1>8. /\ First' = First /\ Paper' = Paper /\ RealsRight' /\ AgentsRight'
      /\ pc'[x] = "second" /\ \A p \in Process : p # x => pc'[p] = pc[p]
  BY <1>4, BattleOnPaper
<1>9. Entrance(First) /\ Paper \in Sheets(First)
  BY PaperIs DEF PaperInv
<1>10. Due(First, Paper, c, player[x][1], h) /\ Talk(x, 2) /\ Bout(x)
  BY <1>2, <1>3, <1>4 DEF PaperInv, Talks, Talk, Bouts
<1>11. /\ player'[x][1] = h /\ player'[x][2] = player[x][2]
       /\ \A b \in Battle : b # x => player'[b] = player[b]
  BY <1>4, <1>5
<1>12. Bout(x)'
  <2>1. Sound(First, Paper, h)
    BY <1>9, <1>10, DueIsSound DEF Bout
  <2>2. Started(First, Paper, x, player'[x])
        \/ \E k \in Nat \ {0} : Fought(First, Paper, x, k, player'[x])
    <3>1. CASE Blank(player[x])
      BY <1>2, <1>10, <1>11, <3>1 DEF Blank, Due, Started
    <3>2. CASE \E k \in Nat \ {0} : Fought(First, Paper, x, k, player[x])
      <4>1. PICK k \in Nat \ {0} : Fought(First, Paper, x, k, player[x])
        BY <3>2
      <4>2. Fresh(player[x])
        BY <1>9, <4>1, RoundOnPaper
      <4>3. player[x][1] \in Status /\ ~player[x][1].battle_ended_flag
        BY <4>2 DEF Fresh, Fit
      <4>4. h = player[x][1]
        BY <1>9, <1>10, <4>3, NotNoStatus, RefreshedIs DEF Due
      <4>5. player'[x] = player[x]
        BY <1>4, <1>5, <4>4
      <4>. QED  BY <4>1, <4>5
    <3>. QED  BY <1>1, <1>10, <3>1, <3>2 DEF Bout
  <2>3. \A i \in 1..2 : player'[x][i] = NoStatus \/ Sound(First, Paper, player'[x][i])
    <3>1. \A i \in 1..2 : i = 1 \/ i = 2
      OBVIOUS
    <3>. QED  BY <1>10, <1>11, <2>1, <3>1 DEF Bout
  <2>. QED  BY <1>8, <2>2, <2>3 DEF Bout
<1>13. Talk(x, 1)'
  <2>1. up'[c] = <<>> /\ down'[c] = <<>> /\ pc'[c] = pc[c]
    BY <1>2, <1>4, <1>5, <1>7, <1>8
  <2>2. pc[c] \notin Early \cup {"send", "unborn", "upward"}
    BY <1>7 DEF Expecting, Early
  <2>. QED  BY <1>2, <2>1, <2>2 DEF Talk
<1>14. Talk(x, 2)'
  <2>1. up'[d] = up[d] /\ down'[d] = down[d] /\ pc'[d] = pc[d]
    BY <1>2, <1>4, <1>5, <1>8
  <2>2. d \in Battle => player'[d] = player[d]
    BY <1>2, <1>11
  <2>. QED  BY <1>2, <1>4, <1>8, <1>10, <1>11, <2>1, <2>2 DEF Talk, Winner
<1>15. ASSUME NEW b \in Battle, NEW i \in 1..2, tar_id[b][i] = x, b # x
       PROVE  Talk(b, i)'
  <2>1. Talk(b, i)
    BY DEF PaperInv, Talks
  <2>2. up'[x] = up[x] /\ down'[x] = down[x] /\ player'[b] = player[b]
    BY <1>2, <1>4, <1>5, <1>11, <1>15
  <2>. QED  BY <1>1, <1>8, <1>15, <2>1, <2>2, Names DEF Talk, Early
<1>16. \A p \in Process : p # x /\ p \notin Children(x) => up'[p] = up[p] /\ down'[p] = down[p]
  BY <1>2, <1>4, <1>5
<1>17. ChampionRight'
  BY <1>4, <1>8 DEF PaperInv, ChampionRight
<1>18. \A i \in 1..2 : Talk(x, i)'
  <2>1. \A i \in 1..2 : i = 1 \/ i = 2
    OBVIOUS
  <2>. QED  BY <1>13, <1>14, <2>1
<1>. QED  BY <1>4, <1>8, <1>11, <1>12, <1>15, <1>16, <1>17, <1>18, BattleKeepsPaper

LEMMA PaperRound ==
  ASSUME IInv, PaperInv, NEW x \in Battle, Round(x)
  PROVE  PaperInv'
<1>1. pc[x] = "second"
  BY DEF Round
<1>2. PICK c \in Process, d \in Process :
        /\ c = tar_id[x][1] /\ d = tar_id[x][2] /\ c # x /\ d # x /\ c # d
        /\ Children(x) = {c, d} /\ Link(x, 1) /\ Link(x, 2)
  BY <1>1, Kids
<1>3. PICK h : h = Head(up[d])
  OBVIOUS
<1>4. PICK held : held = [player[x] EXCEPT ![2] = h]
  OBVIOUS
<1>5. PICK s : s = Fight(x, held)
  OBVIOUS
<1>6. /\ up[d] # <<>>
      /\ up' = [up EXCEPT ![d] = Tail(up[d])]
      /\ player' = [player EXCEPT ![x] = s]
      /\ loser' = [loser EXCEPT ![x] = IF s[1].HP <= 0 THEN 1
                                       ELSE IF s[2].HP <= 0 THEN 2 ELSE loser[x]]
      /\ down' = [down EXCEPT ![c] = Append(@, s[1]), ![d] = Append(@, s[2])]
      /\ pc' = [pc EXCEPT ![x] = IF s[1].battle_ended_flag THEN "wait" ELSE "first"]
      /\ UNCHANGED <<stat, full_hp, fifo, reaped, champion>>
  BY <1>2, <1>3, <1>4, <1>5 DEF Round, Told
<1>7. /\ up \in [Process -> Seq(Status)] /\ down \in [Process -> Seq(Status)] /\ x \in Process
      /\ player \in [Battle -> [1..2 -> Status \cup {NoStatus}]]
      /\ loser \in [Battle -> 1..2]
  BY Names DEF IInv, TypeOK
<1>8. GoesOn(d) /\ Waits(c)
  BY <1>1, <1>2 DEF Link, Listens, Holds
<1>9. /\ pc[d] \in Expecting /\ down[d] = <<>> /\ Fit(h) /\ Tail(up[d]) = <<>>
      /\ pc[c] \in Expecting /\ down[c] = <<>> /\ up[c] = <<>>
  BY <1>3, <1>6, <1>7, <1>8, ReadsChild DEF Waits, Quiet
<1>10. /\ First' = First /\ Paper' = Paper /\ RealsRight' /\ AgentsRight'
       /\ pc'[x] = (IF s[1].battle_ended_flag THEN "wait" ELSE "first")
       /\ \A p \in Process : p # x => pc'[p] = pc[p]
  BY <1>6, BattleOnPaper
<1>11. /\ Entrance(First) /\ Paper \in Sheets(First) /\ Ready(Paper) \subseteq DOMAIN Paper
       /\ \A b \in DOMAIN Paper : Right(First, Paper, b)
  BY PaperIs DEF PaperInv
<1>12. Due(First, Paper, d, player[x][2], h) /\ Bout(x)
  BY <1>2, <1>3, <1>6 DEF PaperInv, Talks, Talk, Bouts
<1>13. held[1] = player[x][1] /\ held[2] = h
  BY <1>4, <1>7
<1>14. PICK k \in Nat : Fought(First, Paper, x, k, held)
  <2>1. CASE Started(First, Paper, x, player[x])
    <3>1. /\ Known(Paper, c) /\ held[1] = Enters(First, Paper, c)
          /\ Known(Paper, d) /\ held[2] = Enters(First, Paper, d)
      BY <1>2, <1>12, <1>13, <2>1 DEF Started, Due
    <3>2. x \in DOMAIN Paper
      BY <1>2, <1>11, <3>1 DEF Ready
    <3>3. PICK s0 \in Pair : s0 = Entrants(First, Paper, x)
      BY <1>11, <3>2, EntrantsFresh DEF Right, Fresh
    <3>4. held = s0
      <4>1. s0[1] = held[1] /\ s0[2] = held[2]
        BY <1>2, <3>1, <3>3 DEF Entrants
      <4>2. held \in [1..2 -> Status \cup {NoStatus}] /\ s0 \in [1..2 -> Status]
        BY <1>4, <1>7, <1>9 DEF Pair, Fit
      <4>. QED  BY <4>1, <4>2
    <3>5. Rounds(x, s0)[0] = s0
      BY RoundsGoOn
    <3>6. Fought(First, Paper, x, 0, held)
      BY <3>2, <3>3, <3>4, <3>5 DEF Fought
    <3>. QED  BY <3>6
  <2>2. CASE \E k \in Nat \ {0} : Fought(First, Paper, x, k, player[x])
    <3>1. PICK k \in Nat \ {0} : Fought(First, Paper, x, k, player[x])
      BY <2>2
    <3>2. Fresh(player[x])
      BY <1>11, <3>1, RoundOnPaper
    <3>3. player[x][2] \in Status /\ ~player[x][2].battle_ended_flag
      BY <3>2 DEF Fresh, Fit
    <3>4. h = player[x][2]
      BY <1>11, <1>12, <3>3, NotNoStatus, RefreshedIs DEF Due
    <3>5. held = player[x]
      BY <1>4, <1>7, <3>4
    <3>. QED  BY <3>1, <3>5
  <2>. QED  BY <1>1, <1>12, <2>1, <2>2 DEF Bout
<1>15. /\ s \in Pair
       /\ \A i \in 1..2 : Sound(First, Paper, s[i])
       /\ Dead(s) => s = Paper[x] /\ Over(x, s)
       /\ ~Dead(s) => Fought(First, Paper, x, k + 1, s) /\ Fresh(s)
       /\ x \in DOMAIN Paper
  BY <1>5, <1>11, <1>14, RoundOnPaper DEF Fought
<1>16. /\ player'[x] = s /\ \A b \in Battle : b # x => player'[b] = player[b]
       /\ \A b \in Battle : b # x => loser'[b] = loser[b]
       /\ loser'[x] = IF s[1].HP <= 0 THEN 1 ELSE IF s[2].HP <= 0 THEN 2 ELSE loser[x]
  BY <1>6, <1>7
<1>17. \A i \in 1..2 : i = 1 \/ i = 2
  OBVIOUS
<1>18. Bout(x)'
  <2>1. \A i \in 1..2 : Sound(First', Paper', player'[x][i])
    BY <1>10, <1>15, <1>16
  <2>2. CASE Dead(s)
    <3>1. s[1].battle_ended_flag /\ Lost(s) \in 1..2
      BY <1>15, <2>2 DEF Over
    <3>2. s[1].HP <= 0 <=> Lost(s) = 1
      BY <1>15, <2>2 DEF Over
    <3>3. s[2].HP <= 0 <=> Lost(s) = 2
      BY <1>15, <2>2 DEF Over
    <3>4. loser'[x] = Lost(s)
      BY <1>16, <1>17, <3>1, <3>2, <3>3
    <3>5. player'[x][Winner(x)'] # NoStatus
      <4>1. 3 - Lost(s) \in 1..2
        BY <3>1
      <4>. QED  BY <1>15, <1>16, <3>4, <4>1, NotNoStatus DEF Winner, Pair
    <3>6. pc'[x] = "wait"
      BY <1>10, <3>1
    <3>. QED  BY <1>10, <1>15, <1>16, <2>1, <2>2, <3>4, <3>5, <3>6 DEF Bout
  <2>3. CASE ~Dead(s)
    <3>1. pc'[x] = "first"
      BY <1>10, <1>15, <2>3 DEF Fresh, Fit
    <3>2. k + 1 \in Nat \ {0}
      OBVIOUS
    <3>3. \E n \in Nat \ {0} : Fought(First', Paper', x, n, player'[x])
      BY <1>10, <1>15, <1>16, <2>3, <3>2
    <3>. QED  BY <2>1, <3>1, <3>3 DEF Bout
  <2>. QED  BY <2>2, <2>3
<1>19. s[1] \in Status /\ s[2] \in Status
  BY <1>15 DEF Pair
<1>20. Talk(x, 1)'
  <2>1. up'[c] = <<>> /\ down'[c] = Append(<<>>, s[1]) /\ pc'[c] = pc[c]
    BY <1>2, <1>6, <1>7, <1>9, <1>10
  <2>2. Head(down'[c]) = s[1]
    BY <1>7, <1>9, <1>19, <2>1, Pipes
  <2>3. pc[c] \notin Early \cup {"send", "unborn", "upward"}
    BY <1>9 DEF Expecting, Early
  <2>. QED  BY <1>2, <1>16, <2>1, <2>2, <2>3 DEF Talk
<1>21. Talk(x, 2)'
  <2>1. up'[d] = <<>> /\ down'[d] = Append(<<>>, s[2]) /\ pc'[d] = pc[d]
    BY <1>2, <1>6, <1>7, <1>9, <1>10
  <2>2. Head(down'[d]) = s[2]
    BY <1>7, <1>9, <1>19, <2>1, Pipes
  <2>3. pc[d] \notin Early \cup {"send", "unborn", "upward"}
    BY <1>9 DEF Expecting, Early
  <2>. QED  BY <1>2, <1>16, <2>1, <2>2, <2>3 DEF Talk
<1>22. ASSUME NEW b \in Battle, NEW i \in 1..2, tar_id[b][i] = x, b # x
       PROVE  Talk(b, i)'
  <2>1. Talk(b, i)
    BY DEF PaperInv, Talks
  <2>2. up'[x] = up[x] /\ down'[x] = down[x] /\ player'[b] = player[b]
    BY <1>2, <1>6, <1>7, <1>16, <1>22
  <2>3. pc'[x] \in {"wait", "first"}
    BY <1>10
  <2>. QED  BY <1>1, <1>10, <1>22, <2>1, <2>2, <2>3, Names DEF Talk, Early
<1>23. \A p \in Process : p # x /\ p \notin Children(x) => up'[p] = up[p] /\ down'[p] = down[p]
  BY <1>2, <1>6, <1>7
<1>24. ChampionRight'
  BY <1>6, <1>10 DEF PaperInv, ChampionRight
<1>25. \A i \in 1..2 : Talk(x, i)'
  BY <1>17, <1>20, <1>21
<1>. QED  BY <1>6, <1>10, <1>16, <1>18, <1>22, <1>23, <1>24, <1>25, BattleKeepsPaper

\* Whoever will send has empty pipes.
LEMMA OwesQuiet ==
  ASSUME IInv, NEW c \in Process, c # Root, pc[c] \in Owing
  PROVE  up[c] = <<>> /\ down[c] = <<>>
<1>1. PICK b \in Battle, i \in 1..2 : c = tar_id[b][i]
  BY OneParent
<1>2. Idle(b) \/ Holds(b, i) \/ Listens(b, i) \/ Parted(b, i)
  <2>1. pc[b] \in BattlePlace /\ loser[b] \in 1..2 /\ (i = 1 \/ i = 2)
    BY DEF IInv, TypeOK, Places
  <2>. QED  BY <2>1 DEF Idle, Holds, Listens, Parted, BattlePlace
<1>3. pc[c] \notin Expecting \cup Parting \cup {"unborn"}
  BY DEF Owing, Expecting, Parting
<1>4. Owes(c)
  BY <1>1, <1>2, <1>3 DEF IInv, Links, Link, GoesOn, Ended, Unborn, Waits, Offers, Answered, Done
<1>. QED  BY <1>4 DEF Owes, Quiet

LEMMA PaperWait ==
  ASSUME IInv, PaperInv, NEW x \in Battle, Wait(x)
  PROVE  PaperInv'
<1>1. /\ pc[x] = "wait"
      /\ champion' = IF x = Root THEN Champion(x) ELSE champion
      /\ pc' = [pc EXCEPT ![x] = IF x = Root THEN "leave" ELSE "upward"]
      /\ UNCHANGED <<player, loser, stat, full_hp, up, down, fifo>>
  BY DEF Wait
<1>2. /\ First' = First /\ Paper' = Paper /\ RealsRight' /\ AgentsRight'
      /\ pc'[x] = (IF x = Root THEN "leave" ELSE "upward")
      /\ \A p \in Process : p # x => pc'[p] = pc[p]
  BY <1>1, BattleOnPaper
<1>3. /\ x \in DOMAIN Paper /\ loser[x] = Lost(Paper[x]) /\ player[x] = Paper[x]
      /\ Bout(x) /\ Winner(x)' = Winner(x)
  BY <1>1 DEF PaperInv, Bouts, Bout, Winner
<1>4. Over(x, Paper[x])
  BY <1>3, PaperIs DEF PaperInv, Right
<1>5. Bout(x)'
  BY <1>1, <1>2, <1>3 DEF Bout
<1>6. ChampionRight'
  BY <1>1, <1>2, <1>3 DEF PaperInv, ChampionRight, Champion, Winner
<1>7. ASSUME NEW i \in 1..2 PROVE Talk(x, i)'
  <2>1. PICK c \in Process : c = tar_id[x][i] /\ c # x
    <3>1. PICK j \in 1..2 : i # j
      <4>1. 3 - i \in 1..2 /\ i # 3 - i
        OBVIOUS
      <4>. QED  BY <4>1
    <3>. QED  BY <1>1, <3>1, Kids
  <2>2. Talk(x, i)
    BY DEF PaperInv, Talks
  <2>. QED  BY <1>1, <1>2, <2>1, <2>2, TalkStays
<1>8. ASSUME NEW b \in Battle, NEW i \in 1..2, tar_id[b][i] = x, b # x
      PROVE  Talk(b, i)'
  <2>1. Talk(b, i)
    BY DEF PaperInv, Talks
  <2>2. pc'[x] = "upward"
    BY <1>2, <1>8, ChildIsProcess
  <2>3. player[b][i] = NoStatus
    BY <1>1, <1>8, <2>1 DEF Talk, Early
  <2>4. Refreshed(First, player[x][Winner(x)]) = Enters(First, Paper, x)
    <3>1. Winner(x) = 3 - Lost(Paper[x])
      BY <1>3 DEF Winner
    <3>. QED  BY <1>3, <1>4, <3>1, RefreshedWinner, EntersIs
  <2>5. Due(First, Paper, x, player[b][i], Refreshed(First, player[x][Winner(x)]))
    BY <1>3, <2>3, <2>4 DEF Due, Known
  <2>. QED  BY <1>1, <1>2, <1>3, <1>8, <2>1, <2>2, <2>5, Names DEF Talk, Early
<1>. QED  BY <1>1, <1>2, <1>5, <1>6, <1>7, <1>8, BattleKeepsPaper

LEMMA PaperLeave ==
  ASSUME IInv, PaperInv, NEW x \in Battle, Leave(x)
  PROVE  PaperInv'
<1>1. /\ pc[x] = "leave" /\ pc' = [pc EXCEPT ![x] = "exited"]
      /\ UNCHANGED <<player, loser, stat, full_hp, up, down, fifo, champion>>
  BY DEF Leave
<1>2. /\ First' = First /\ Paper' = Paper /\ RealsRight' /\ AgentsRight'
      /\ pc'[x] = "exited"
      /\ \A p \in Process : p # x => pc'[p] = pc[p]
  BY <1>1, BattleOnPaper
<1>3. Bout(x)'
  BY <1>1, <1>2 DEF PaperInv, Bouts, Bout
<1>4. ChampionRight'
  BY <1>1, <1>2 DEF PaperInv, ChampionRight
<1>5. ASSUME NEW i \in 1..2 PROVE Talk(x, i)'
  <2>1. PICK c \in Process : c = tar_id[x][i] /\ c # x
    <3>1. PICK j \in 1..2 : i # j
      <4>1. 3 - i \in 1..2 /\ i # 3 - i
        OBVIOUS
      <4>. QED  BY <4>1
    <3>. QED  BY <1>1, <3>1, Kids
  <2>2. Talk(x, i)
    BY DEF PaperInv, Talks
  <2>. QED  BY <1>1, <1>2, <2>1, <2>2, TalkStays
<1>6. ASSUME NEW b \in Battle, NEW i \in 1..2, tar_id[b][i] = x, b # x
      PROVE  Talk(b, i)'
  <2>1. Talk(b, i)
    BY DEF PaperInv, Talks
  <2>. QED  BY <1>1, <1>2, <1>6, <2>1, Names DEF Talk, Early
<1>. QED  BY <1>1, <1>2, <1>3, <1>4, <1>5, <1>6, BattleKeepsPaper

LEMMA PaperRelayUp ==
  ASSUME IInv, PaperInv, NEW x \in Battle, RelayUp(x)
  PROVE  PaperInv'
<1>1. pc[x] = "upward"
  BY DEF RelayUp
<1>2. PICK w \in 1..2, k \in 1..2, c \in Process, d \in Process :
           /\ w = Winner(x) /\ k = loser[x] /\ w # k /\ \A i \in 1..2 : i = w \/ i = k
           /\ c = tar_id[x][w] /\ d = tar_id[x][k]
           /\ c # x /\ d # x /\ c # d /\ Children(x) = {c, d} /\ Link(x, w)
           /\ Ended(d)
  BY <1>1, Relay
<1>3. PICK h : h = Head(up[c])
  OBVIOUS
<1>4. /\ up[c] # <<>>
      /\ player' = [player EXCEPT ![x][w] = h]
      /\ up' = [up EXCEPT ![c] = Tail(up[c]), ![x] = Append(up[x], h)]
      /\ pc' = [pc EXCEPT ![x] = "downward"]
      /\ UNCHANGED <<loser, stat, full_hp, down, fifo, reaped, champion>>
  BY <1>2, <1>3 DEF RelayUp, News, Finalist
<1>5. /\ up \in [Process -> Seq(Status)] /\ x \in Process
      /\ player \in [Battle -> [1..2 -> Status \cup {NoStatus}]]
      /\ x # Root
  BY <1>1, Names DEF IInv, TypeOK, Places
<1>6. GoesOn(c)
  BY <1>1, <1>2 DEF Link, Listens
<1>7. pc[c] \in Expecting /\ down[c] = <<>> /\ Fit(h) /\ Tail(up[c]) = <<>>
  BY <1>3, <1>4, <1>5, <1>6, ReadsChild
<1>8. up[x] = <<>> /\ down[x] = <<>>
  BY <1>1, <1>5, OwesQuiet DEF Owing
<1>9. /\ First' = First /\ Paper' = Paper /\ RealsRight' /\ AgentsRight'
      /\ pc'[x] = "downward" /\ \A p \in Process : p # x => pc'[p] = pc[p]
  BY <1>4, BattleOnPaper
<1>10. Entrance(First) /\ Paper \in Sheets(First)
  BY PaperIs DEF PaperInv
<1>11. /\ Due(First, Paper, c, player[x][w], h) /\ Talk(x, k) /\ Bout(x)
       /\ player[x][w] # NoStatus
  BY <1>1, <1>2, <1>3, <1>4 DEF PaperInv, Talks, Talk, Bouts, Bout
<1>12. h = Refreshed(First, player[x][w])
  BY <1>11 DEF Due
<1>13. /\ player'[x][w] = h /\ player'[x][k] = player[x][k]
       /\ \A b \in Battle : b # x => player'[b] = player[b]
  BY <1>2, <1>4, <1>5
<1>14. /\ up'[c] = <<>> /\ up'[x] = Append(<<>>, h)
       /\ \A p \in Process : p # x /\ p # c => up'[p] = up[p]
  BY <1>2, <1>4, <1>5, <1>7, <1>8
<1>15. Bout(x)'
  <2>1. Sound(First, Paper, h)
    BY <1>10, <1>11, DueIsSound DEF Bout
  <2>2. \A i \in 1..2 : player'[x][i] = NoStatus \/ Sound(First, Paper, player'[x][i])
    BY <1>2, <1>11, <1>13, <2>1 DEF Bout
  <2>3. Winner(x)' = w
    BY <1>2, <1>4 DEF Winner
  <2>4. h # NoStatus
    BY <1>7, NotNoStatus DEF Fit
  <2>. QED  BY <1>1, <1>4, <1>9, <1>11, <1>13, <2>2, <2>3, <2>4 DEF Bout
<1>16. Talk(x, w)'
  <2>1. down'[c] = <<>> /\ pc'[c] = pc[c]
    BY <1>2, <1>4, <1>7, <1>9
  <2>2. pc[c] \notin Early \cup {"send", "unborn", "upward"}
    BY <1>7 DEF Expecting, Early
  <2>. QED  BY <1>2, <1>14, <2>1, <2>2 DEF Talk
<1>17. Talk(x, k)'
  <2>1. up'[d] = up[d] /\ down'[d] = down[d] /\ pc'[d] = pc[d]
    BY <1>2, <1>4, <1>9, <1>14
  <2>2. d \in Battle => player'[d] = player[d]
    BY <1>2, <1>13
  <2>. QED  BY <1>2, <1>4, <1>9, <1>11, <1>13, <2>1, <2>2 DEF Talk, Winner
<1>18. ASSUME NEW b \in Battle, NEW i \in 1..2, tar_id[b][i] = x, b # x
       PROVE  Talk(b, i)'
  <2>1. Talk(b, i)
    BY DEF PaperInv, Talks
  <2>2. Due(First, Paper, x, player[b][i], h)
    BY <1>1, <1>2, <1>12, <1>18, <2>1 DEF Talk
  <2>3. Head(up'[x]) = h
    <3>1. <<>> \in Seq(Status) /\ h \in Status
      BY <1>7 DEF Fit
    <3>. QED  BY <1>14, <3>1, Pipes
  <2>4. down'[x] = <<>> /\ player'[b] = player[b]
    BY <1>4, <1>8, <1>13, <1>18
  <2>. QED  BY <1>9, <1>18, <2>2, <2>3, <2>4, Names DEF Talk, Early
<1>19. \A p \in Process : p # x /\ p \notin Children(x) => up'[p] = up[p] /\ down'[p] = down[p]
  BY <1>2, <1>4, <1>14
<1>20. ChampionRight'
  BY <1>4, <1>9 DEF PaperInv, ChampionRight
<1>21. \A i \in 1..2 : Talk(x, i)'
  BY <1>2, <1>16, <1>17
<1>. QED  BY <1>4, <1>9, <1>13, <1>15, <1>18, <1>19, <1>20, <1>21, BattleKeepsPaper

LEMMA PaperRelayDown ==
  ASSUME IInv, PaperInv, NEW x \in Battle, RelayDown(x)
  PROVE  PaperInv'
<1>1. pc[x] = "downward" /\ down[x] # <<>>
  BY DEF RelayDown
<1>2. PICK w \in 1..2, k \in 1..2, c \in Process, d \in Process :
           /\ w = Winner(x) /\ k = loser[x] /\ w # k /\ \A i \in 1..2 : i = w \/ i = k
           /\ c = tar_id[x][w] /\ d = tar_id[x][k]
           /\ c # x /\ d # x /\ c # d /\ Children(x) = {c, d} /\ Link(x, w)
           /\ Ended(d)
  BY <1>1, Relay
<1>3. PICK s : s = Head(down[x])
  OBVIOUS
<1>4. PICK t \in {"leave", "upward"} : t = IF IsLast(s) THEN "leave" ELSE "upward"
  OBVIOUS
<1>5. /\ player' = [player EXCEPT ![x][w] = s]
      /\ down' = [down EXCEPT ![x] = Tail(down[x]), ![c] = Append(down[c], s)]
      /\ pc' = [pc EXCEPT ![x] = t]
      /\ UNCHANGED <<loser, stat, full_hp, up, fifo, reaped, champion>>
  BY <1>2, <1>3, <1>4 DEF RelayDown, Finalist
<1>6. /\ up \in [Process -> Seq(Status)] /\ down \in [Process -> Seq(Status)] /\ x \in Process
      /\ player \in [Battle -> [1..2 -> Status \cup {NoStatus}]]
      /\ x # Root
  BY <1>1, Names DEF IInv, TypeOK, Places
<1>7. Answered(x)
  BY <1>1, <1>6, HasAnswer DEF Expecting
<1>8. up[x] = <<>> /\ Tail(down[x]) = <<>> /\ s \in Status
  BY <1>3, <1>6, <1>7, Pipes DEF Answered, Answer
<1>9. Waits(c)
  BY <1>1, <1>2 DEF Link, Holds
<1>10. pc[c] \in Expecting /\ up[c] = <<>> /\ down[c] = <<>>
  BY <1>9 DEF Waits, Quiet
<1>11. /\ First' = First /\ Paper' = Paper /\ RealsRight' /\ AgentsRight'
       /\ pc'[x] = t /\ \A p \in Process : p # x => pc'[p] = pc[p]
  BY <1>5, BattleOnPaper
<1>12. PICK a \in Battle, j \in 1..2 : x = tar_id[a][j]
  BY <1>6, OneParent
<1>13. player[a][j] = s
  BY <1>1, <1>3, <1>12 DEF PaperInv, Talks, Talk
<1>14. Sound(First, Paper, s) /\ s # NoStatus
  BY <1>8, <1>13, NotNoStatus DEF PaperInv, Bouts, Bout
<1>15. Talk(x, k) /\ Bout(x)
  BY DEF PaperInv, Talks, Bouts
<1>16. /\ player'[x][w] = s /\ player'[x][k] = player[x][k]
       /\ \A b \in Battle : b # x => player'[b] = player[b]
  BY <1>2, <1>5, <1>6
<1>17. /\ down'[x] = <<>> /\ down'[c] = Append(<<>>, s)
       /\ \A p \in Process : p # x /\ p # c => down'[p] = down[p]
  BY <1>2, <1>5, <1>6, <1>8, <1>10
<1>18. Bout(x)'
  <2>1. \A i \in 1..2 : player'[x][i] = NoStatus \/ Sound(First, Paper, player'[x][i])
    BY <1>2, <1>14, <1>15, <1>16 DEF Bout
  <2>2. Winner(x)' = w
    BY <1>2, <1>5 DEF Winner
  <2>. QED  BY <1>1, <1>5, <1>11, <1>14, <1>15, <1>16, <2>1, <2>2 DEF Bout
<1>19. Talk(x, w)'
  <2>1. up'[c] = <<>> /\ pc'[c] = pc[c]
    BY <1>2, <1>5, <1>10, <1>11
  <2>2. pc[c] \notin Early \cup {"send", "unborn", "upward"}
    BY <1>10 DEF Expecting, Early
  <2>3. Head(down'[c]) = s
    <3>1. <<>> \in Seq(Status)
      OBVIOUS
    <3>. QED  BY <1>8, <1>17, <3>1, Pipes
  <2>. QED  BY <1>2, <1>16, <2>1, <2>2, <2>3 DEF Talk
<1>20. Talk(x, k)'
  <2>1. up'[d] = up[d] /\ down'[d] = down[d] /\ pc'[d] = pc[d]
    BY <1>2, <1>5, <1>11, <1>17
  <2>2. d \in Battle => player'[d] = player[d]
    BY <1>2, <1>16
  <2>. QED  BY <1>2, <1>5, <1>11, <1>15, <1>16, <2>1, <2>2 DEF Talk, Winner
<1>21. ASSUME NEW b \in Battle, NEW i \in 1..2, tar_id[b][i] = x, b # x
       PROVE  Talk(b, i)'
  <2>1. b = a /\ i = j
    BY <1>12, <1>21, OneParent
  <2>2. player'[b][i] = s
    BY <1>13, <1>16, <1>21, <2>1
  <2>3. Winner(x)' = w
    BY <1>2, <1>5 DEF Winner
  <2>4. Due(First', Paper', x, player'[b][i], Refreshed(First', player'[x][Winner(x)']))
    BY <1>14, <1>16, <2>2, <2>3 DEF Due
  <2>5. up'[x] = <<>>
    BY <1>5, <1>8
  <2>. QED  BY <1>11, <1>17, <1>21, <2>4, <2>5, Names DEF Talk, Early
<1>22. \A p \in Process : p # x /\ p \notin Children(x) => up'[p] = up[p] /\ down'[p] = down[p]
  BY <1>2, <1>5, <1>17
<1>23. ChampionRight'
  BY <1>5, <1>11 DEF PaperInv, ChampionRight
<1>24. \A i \in 1..2 : Talk(x, i)'
  BY <1>2, <1>19, <1>20
<1>. QED  BY <1>5, <1>11, <1>16, <1>18, <1>21, <1>22, <1>23, <1>24, BattleKeepsPaper

LEMMA PaperFork ==
  ASSUME IInv, PaperInv, NEW x \in Battle, Fork(x)
  PROVE  PaperInv'
<1>1. PICK c \in Process, d \in Process : c = tar_id[x][1] /\ d = tar_id[x][2]
  BY ChildIsProcess
<1>2. /\ pc[x] = "fork"
      /\ pc' = [p \in Process |-> IF p = x THEN "first"
                                  ELSE IF p \in {c, d} THEN Entry(p) ELSE pc[p]]
      /\ UNCHANGED <<player, loser, stat, full_hp, up, down, fifo, reaped, champion>>
  BY <1>1 DEF Fork
<1>3. /\ c # x /\ d # x /\ c # d /\ Children(x) = {c, d} /\ Link(x, 1) /\ Link(x, 2)
  BY <1>1, <1>2, Kids
<1>4. Unborn(c) /\ Unborn(d)
  BY <1>1, <1>2, <1>3 DEF Link, Idle
<1>5. x \in Process /\ pc'[x] = "first" /\ pc'[c] = Entry(c) /\ pc'[d] = Entry(d)
      /\ \A p \in Process : p \notin {x, c, d} => pc'[p] = pc[p]
  BY <1>2, <1>3, Names
<1>6. ASSUME NEW e \in {c, d}
      PROVE  /\ e \in Process /\ pc[e] = "unborn"
             /\ e \in Battle => pc'[e] = "fork"
             /\ e \in Real => pc'[e] = "send"
             /\ e \in Agent => pc'[e] = "open"
  BY <1>4, <1>5, Names DEF Entry, Unborn
<1>7. First' = First /\ Paper' = Paper /\ RealsRight' /\ AgentsRight'
  <2>1. \A p \in Real : pc'[p] = "hand" => pc[p] = "hand"
    BY <1>5, <1>6, Names
  <2>2. \A a \in Agent : pc'[a] \in {"take", "send", "receive"} => pc'[a] = pc[a]
    BY <1>5, <1>6, Names
  <2>. QED  BY <1>2, <2>1, <2>2, OthersStay DEF PaperInv
<1>8. ASSUME NEW i \in 1..2 PROVE Talk(x, i)'
  <2>1. PICK e \in {c, d} : e = tar_id[x][i]
    <3>1. i = 1 \/ i = 2
      OBVIOUS
    <3>. QED  BY <1>1, <3>1
  <2>2. up'[e] = <<>> /\ down'[e] = <<>>
    BY <1>2, <1>4 DEF Unborn, Quiet
  <2>3. Talk(x, i)
    BY DEF PaperInv, Talks
  <2>4. player'[x][i] = NoStatus
    BY <1>2, <1>6, <2>1, <2>3 DEF Talk, Early
  <2>5. e \in Real => Due(First', Paper', e, player'[x][i], stat'[e])
    BY <1>2, <1>6, <1>7, <2>1, <2>3, Names DEF Talk
  <2>6. e \in Player => e \in Real \/ pc'[e] \notin {"send", "unborn"}
    BY <1>6, <2>1, Names
  <2>7. e \in Battle => pc'[e] # "upward"
    BY <1>6
  <2>. QED  BY <2>1, <2>2, <2>4, <2>5, <2>6, <2>7 DEF Talk
<1>9. ASSUME NEW b \in Battle, NEW i \in 1..2, tar_id[b][i] = x, b # x
      PROVE  Talk(b, i)'
  <2>1. Talk(b, i)
    BY DEF PaperInv, Talks
  <2>. QED  BY <1>2, <1>5, <1>7, <1>9, <2>1, Names DEF Talk, Early
<1>10. Talks'
  <2>1. \A p \in Process : p # x /\ p \notin Children(x)
           => pc'[p] = pc[p] /\ up'[p] = up[p] /\ down'[p] = down[p]
    BY <1>2, <1>3, <1>5
  <2>. QED  BY <1>2, <1>7, <1>8, <1>9, <2>1, BattleTalks DEF PaperInv
<1>11. ASSUME NEW b \in Battle PROVE Bout(b)'
  <2>1. Bout(b) /\ b \in Process
    BY Names DEF PaperInv, Bouts
  <2>2. CASE b \notin {x, c, d}
    BY <1>2, <1>5, <1>7, <2>1, <2>2, BoutStays
  <2>3. CASE b = x
    BY <1>2, <1>5, <1>7, <2>1, <2>3 DEF Bout
  <2>4. CASE b \in {c, d} /\ b # x
    <3>1. pc[b] = "unborn" /\ pc'[b] = "fork"
      BY <1>6, <2>4
    <3>. QED  BY <1>2, <1>7, <2>1, <3>1 DEF Bout
  <2>. QED  BY <2>2, <2>3, <2>4
<1>12. ChampionRight'
  BY <1>2, <1>7 DEF PaperInv, ChampionRight
<1>. QED  BY <1>7, <1>10, <1>11, <1>12 DEF PaperInv, Bouts

\* A step of players or agents.
LEMMA PlayerKeepsPaper ==
  ASSUME First' = First, Paper' = Paper, RealsRight', AgentsRight',
         PaperInv, NEW X, X \subseteq Player,
         player' = player, loser' = loser, champion' = champion,
         \A p \in Process : p \notin X => pc'[p] = pc[p] /\ up'[p] = up[p] /\ down'[p] = down[p],
         \A p \in Player : p \notin X => stat'[p] = stat[p],
         \A b \in Battle, i \in 1..2 : tar_id[b][i] \in X => Talk(b, i)'
  PROVE  PaperInv'
<1>1. Talks'
  BY PlayerTalks DEF PaperInv
<1>2. Bouts'
  <2>. SUFFICES ASSUME NEW b \in Battle PROVE Bout(b)'
    BY DEF Bouts
  <2>1. Bout(b) /\ b \in Process /\ b \notin X
    BY Names DEF PaperInv, Bouts
  <2>. QED  BY <2>1, BoutStays
<1>3. ChampionRight'
  BY DEF PaperInv, ChampionRight
<1>. QED  BY <1>1, <1>2, <1>3 DEF PaperInv

LEMMA PaperSend ==
  ASSUME IInv, PaperInv, NEW p \in Player, Send(p)
  PROVE  PaperInv'
<1>1. /\ pc[p] = "send" /\ up' = [up EXCEPT ![p] = Append(up[p], stat[p])]
      /\ pc' = [pc EXCEPT ![p] = "receive"]
      /\ UNCHANGED <<player, loser, stat, full_hp, down, fifo, reaped, champion>>
  BY DEF Send
<1>2. p \in Process /\ p \in Real \cup Agent /\ p \notin Battle /\ p # Root
  BY Names
<1>3. /\ pc'[p] = "receive" /\ \A q \in Process : q # p => pc'[q] = pc[q]
      /\ up'[p] = Append(up[p], stat[p]) /\ \A q \in Process : q # p => up'[q] = up[q]
  BY <1>1, <1>2 DEF IInv, TypeOK
<1>4. up[p] = <<>> /\ down[p] = <<>>
  BY <1>1, <1>2, OwesQuiet DEF Owing
<1>5. stat[p] \in Status /\ Head(up'[p]) = stat[p]
  <2>1. stat[p] \in Status
    BY <1>1, <1>2 DEF IInv, PlayersHold
  <2>2. <<>> \in Seq(Status)
    OBVIOUS
  <2>. QED  BY <1>3, <1>4, <2>1, <2>2, Pipes
<1>6. First' = First /\ Paper' = Paper
  <2>1. First' = First
    BY <1>1 DEF First
  <2>. QED  BY <2>1 DEF Paper
<1>7. RealsRight'
  BY <1>1, <1>3, <1>6, Names DEF PaperInv, RealsRight
<1>8. AgentsRight'
  <2>1. \A a \in Agent : /\ pc'[a] = "take" => pc[a] = "take"
                         /\ pc'[a] \in {"send", "receive"} => pc[a] \in {"send", "receive"}
    BY <1>1, <1>3, Names
  <2>. QED  BY <1>1, <1>6, <2>1 DEF PaperInv, AgentsRight
<1>9. ASSUME NEW b \in Battle, NEW i \in 1..2, tar_id[b][i] \in {p}
      PROVE  Talk(b, i)'
  <2>1. Talk(b, i)
    BY DEF PaperInv, Talks
  <2>2. Due(First', Paper', p, player'[b][i], Head(up'[p]))
    BY <1>1, <1>5, <1>6, <1>9, <2>1 DEF Talk
  <2>. QED  BY <1>1, <1>2, <1>3, <1>4, <1>9, <2>2 DEF Talk, Early
<1>. QED  BY <1>1, <1>3, <1>6, <1>7, <1>8, <1>9, PlayerKeepsPaper

LEMMA PaperReceive ==
  ASSUME IInv, PaperInv, NEW p \in Player, Receive(p)
  PROVE  PaperInv'
<1>1. PICK s : s = Head(down[p])
  OBVIOUS
<1>2. /\ pc[p] = "receive" /\ down[p] # <<>> /\ down' = [down EXCEPT ![p] = Tail(down[p])]
      /\ UNCHANGED <<player, loser, full_hp, up, fifo, reaped, champion>>
  BY DEF Receive
<1>3. p \in Process /\ p \in Real \cup Agent /\ p \notin Battle /\ p # Root
  BY Names
<1>4. /\ s \in Status /\ (s.HP > 0 \/ s.battle_ended_flag)
      /\ s.real_player_id = stat[p].real_player_id
      /\ up[p] = <<>> /\ Tail(down[p]) = <<>>
  <2>1. Answered(p)
    BY <1>2, <1>3, HasAnswer DEF Expecting
  <2>2. /\ s \in Status /\ (s.HP > 0 \/ s.battle_ended_flag)
        /\ s.real_player_id = stat[p].real_player_id
        /\ up[p] = <<>> /\ Len(down[p]) = 1
    BY <1>1, <1>3, <2>1 DEF Answered, Answer, Number
  <2>3. down[p] \in Seq(Status)
    BY <1>3 DEF IInv, TypeOK
  <2>. QED  BY <2>2, <2>3, Pipes
<1>5. PICK b \in Battle, i \in 1..2 : p = tar_id[b][i]
  BY <1>3, OneParent
<1>6. player[b][i] = s
  BY <1>1, <1>2, <1>5 DEF PaperInv, Talks, Talk
<1>7. Sound(First, Paper, s) /\ s # NoStatus
  BY <1>4, <1>6, NotNoStatus DEF PaperInv, Bouts, Bout
<1>8. /\ Entrance(First) /\ \A c \in DOMAIN Paper : Right(First, Paper, c)
      /\ \A r \in Real : /\ First[r].HP = full_hp[r]
                         /\ First[r].ATK = stat[r].ATK /\ First[r].attr = stat[r].attr
  BY PaperIs DEF PaperInv
<1>9. stat[p] \in Status /\ stat[p].real_player_id \in Real
      /\ (p \in Real => stat[p].real_player_id = p)
  BY <1>2, <1>3 DEF IInv, PlayersHold, Status
<1>10. full_hp[p] = First[s.real_player_id].HP
  BY <1>2, <1>3, <1>4, <1>8, <1>9 DEF PaperInv, AgentsRight
<1>11. s.HP \in Int /\ s.battle_ended_flag \in BOOLEAN
  BY <1>4 DEF Status
<1>12. \E t \in {"send", "exited", "hand"}, v \in Status :
         /\ pc' = [pc EXCEPT ![p] = t] /\ stat' = [stat EXCEPT ![p] = v]
         /\ Same(v, s)
         /\ t = "send" => v = Refreshed(First, s)
         /\ t = "hand" => /\ v.current_battle_id \in DOMAIN Paper
                          /\ v = LoserOf(First, Paper[v.current_battle_id])
  <2>1. CASE ~s.battle_ended_flag
    <3>1. stat' = [stat EXCEPT ![p] = s] /\ pc' = [pc EXCEPT ![p] = "send"]
      BY <1>1, <2>1 DEF Receive, EndsAll
    <3>2. s = Refreshed(First, s)
      BY <1>4, <1>8, <2>1, RefreshedIs
    <3>. QED  BY <1>4, <3>1, <3>2 DEF Same
  <2>2. CASE EndsAll(s)
    <3>1. stat' = [stat EXCEPT ![p] = s] /\ pc' = [pc EXCEPT ![p] = "exited"]
      BY <1>1, <2>2 DEF Receive, EndsAll
    <3>. QED  BY <1>4, <3>1 DEF Same
  <2>3. CASE s.battle_ended_flag /\ ~EndsAll(s) /\ s.HP > 0
    <3>1. PICK v : v = Refreshed(First, s)
      OBVIOUS
    <3>2. v \in Status /\ Same(v, s)
      BY <1>4, <1>8, <3>1, RefreshedIs
    <3>3. Recovered(p, s) = v
      BY <1>10, <2>3, <3>1, Zenon DEF Recovered, Refreshed
    <3>4. stat' = [stat EXCEPT ![p] = v] /\ pc' = [pc EXCEPT ![p] = "send"]
      BY <1>1, <1>11, <2>3, <3>3 DEF Receive
    <3>. QED  BY <3>1, <3>2, <3>4
  <2>4. CASE s.battle_ended_flag /\ ~EndsAll(s) /\ s.HP <= 0
    <3>1. CASE p \notin Real
      <4>1. stat' = [stat EXCEPT ![p] = s] /\ pc' = [pc EXCEPT ![p] = "exited"]
        BY <1>1, <1>11, <2>4, <3>1 DEF Receive
      <4>. QED  BY <1>4, <4>1 DEF Same
    <3>2. CASE p \in Real
      <4>1. PICK v : v = Restored(p, s)
        OBVIOUS
      <4>2. stat' = [stat EXCEPT ![p] = v] /\ pc' = [pc EXCEPT ![p] = "hand"]
        BY <1>1, <1>11, <2>4, <3>2, <4>1 DEF Receive
      <4>3. PICK c \in DOMAIN Paper, j \in 1..2 : c = s.current_battle_id /\ s = Paper[c][j]
        BY <1>7, <2>4 DEF Sound
      <4>4. j = Lost(Paper[c])
        BY <1>8, <2>4, <4>3 DEF Right, Over
      <4>5. v = LoserOf(First, Paper[c])
        <5>1. Paper[c][Lost(Paper[c])] = s
          BY <4>3, <4>4
        <5>2. LoserOf(First, Paper[c]) = [s EXCEPT !.HP = First[s.real_player_id].HP,
                                                   !.battle_ended_flag = FALSE]
          BY <5>1, Zenon DEF LoserOf
        <5>. QED  BY <1>10, <4>1, <5>2, Zenon DEF Restored
      <4>6. PICK h \in Int : h = full_hp[p]
        BY <1>3 DEF IInv, TypeOK
      <4>7. v = [s EXCEPT !.HP = h, !.battle_ended_flag = FALSE]
        BY <4>1, <4>6, Zenon DEF Restored
      <4>8. v \in Status /\ Same(v, s) /\ v.current_battle_id = s.current_battle_id
        BY <1>4, <4>7 DEF Status, Same
      <4>. QED  BY <4>2, <4>3, <4>5, <4>8
    <3>. QED  BY <3>1, <3>2
  <2>. QED  BY <1>4, <1>11, <2>1, <2>2, <2>3, <2>4
<1>13. PICK t \in {"send", "exited", "hand"}, v \in Status :
         /\ pc' = [pc EXCEPT ![p] = t] /\ stat' = [stat EXCEPT ![p] = v]
         /\ Same(v, s)
         /\ t = "send" => v = Refreshed(First, s)
         /\ t = "hand" => /\ v.current_battle_id \in DOMAIN Paper
                          /\ v = LoserOf(First, Paper[v.current_battle_id])
  BY <1>12
<1>14. /\ pc'[p] = t /\ stat'[p] = v /\ down'[p] = <<>>
       /\ \A q \in Process : q # p => pc'[q] = pc[q] /\ down'[q] = down[q]
       /\ \A q \in Player : q # p => stat'[q] = stat[q]
  BY <1>2, <1>3, <1>4, <1>13 DEF IInv, TypeOK
<1>15. v.real_player_id = stat[p].real_player_id
       /\ (p \in Real => Same(v, stat[p]))
  BY <1>4, <1>7, <1>8, <1>9, <1>13 DEF Same, Sound, Genuine
<1>16. First' = First /\ Paper' = Paper
  <2>1. ASSUME NEW r \in Real
        PROVE  /\ stat[r] \in Status /\ stat'[r] \in Status /\ Same(stat'[r], stat[r])
               /\ full_hp[r] \in Int /\ full_hp'[r] = full_hp[r]
    <3>1. stat[r] \in Status /\ full_hp[r] \in Int /\ r \in Player
      BY Names DEF IInv, PlayersHold, TypeOK
    <3>2. CASE r = p
      BY <1>2, <1>14, <1>15, <3>1, <3>2
    <3>3. CASE r # p
      BY <1>2, <1>14, <3>1, <3>3 DEF Same
    <3>. QED  BY <3>2, <3>3
  <2>. QED  BY <2>1, PaperStays
<1>17. RealsRight'
  <2>. SUFFICES ASSUME NEW r \in Real
       PROVE /\ stat'[r].ATK > 0
             /\ pc'[r] = "hand" => /\ stat'[r].current_battle_id \in DOMAIN Paper'
                                   /\ stat'[r] = LoserOf(First', Paper'[stat'[r].current_battle_id])
    BY DEF RealsRight
  <2>1. r \in Process /\ r \in Player
    BY Names
  <2>2. CASE r = p
    <3>1. stat'[r].ATK > 0
      BY <1>14, <1>15, <2>2 DEF Same, PaperInv, RealsRight
    <3>. QED  BY <1>13, <1>14, <1>16, <2>2, <3>1
  <2>3. CASE r # p
    BY <1>14, <1>16, <2>1, <2>3 DEF PaperInv, RealsRight
  <2>. QED  BY <2>2, <2>3
<1>18. AgentsRight'
  <2>. SUFFICES ASSUME NEW a \in Agent
       PROVE /\ pc'[a] = "take" => Known(Paper', a) /\ Head(fifo'[a]) = Enters(First', Paper', a)
             /\ pc'[a] \in {"send", "receive"} => full_hp'[a] = First'[stat'[a].real_player_id].HP
    BY DEF AgentsRight
  <2>1. a \in Process /\ a \in Player
    BY Names
  <2>2. CASE a = p
    BY <1>2, <1>4, <1>10, <1>13, <1>14, <1>15, <1>16, <2>2
  <2>3. CASE a # p
    BY <1>2, <1>14, <1>16, <2>1, <2>3 DEF PaperInv, AgentsRight
  <2>. QED  BY <2>2, <2>3
<1>19. ASSUME NEW d \in Battle, NEW j \in 1..2, tar_id[d][j] \in {p}
       PROVE  Talk(d, j)'
  <2>1. d = b /\ j = i
    BY <1>5, <1>19, OneParent
  <2>2. t = "send" => Due(First', Paper', p, player'[d][j], stat'[p])
    BY <1>2, <1>6, <1>7, <1>13, <1>14, <1>16, <2>1 DEF Due
  <2>3. pc'[p] \notin Early
    BY <1>13, <1>14 DEF Early
  <2>4. pc'[p] # "unborn"
    BY <1>13, <1>14
  <2>. QED  BY <1>2, <1>3, <1>4, <1>14, <1>19, <2>2, <2>3, <2>4 DEF Talk
<1>. QED  BY <1>2, <1>14, <1>16, <1>17, <1>18, <1>19, PlayerKeepsPaper

LEMMA PaperHandOver ==
  ASSUME IInv, PaperInv, NEW p \in Real, HandOver(p)
  PROVE  PaperInv'
<1>1. PICK a \in Agent : a = Successor(p)
  BY DEF HandOver
<1>2. /\ pc[p] = "hand" /\ pc[a] = "open"
      /\ fifo' = [fifo EXCEPT ![a] = Append(fifo[a], stat[p])]
      /\ pc' = [pc EXCEPT ![p] = "exited", ![a] = "take"]
      /\ UNCHANGED <<player, loser, stat, full_hp, up, down, reaped, champion>>
  BY <1>1 DEF HandOver, Succeeded
<1>3. /\ p \in Process /\ p \in Player /\ a \in Process /\ a \in Player /\ p # a
      /\ p \notin Agent /\ a \notin Real
  BY Names
<1>4. /\ pc'[p] = "exited" /\ pc'[a] = "take"
      /\ \A q \in Process : q \notin {p, a} => pc'[q] = pc[q]
  BY <1>2, <1>3 DEF IInv, TypeOK
<1>5. stat[p] \in Status /\ fifo[a] = <<>>
  BY <1>2 DEF IInv, PlayersHold
<1>6. Head(fifo'[a]) = stat[p] /\ \A q \in Agent : q # a => fifo'[q] = fifo[q]
  <2>1. fifo[a] \in Seq(Status) /\ fifo'[a] = Append(fifo[a], stat[p])
    BY <1>2 DEF IInv, TypeOK
  <2>2. Head(fifo'[a]) = stat[p]
    BY <1>5, <2>1, Pipes
  <2>. QED  BY <1>2, <2>2 DEF IInv, TypeOK
<1>7. First' = First /\ Paper' = Paper
  <2>1. First' = First
    BY <1>2 DEF First
  <2>. QED  BY <2>1 DEF Paper
<1>8. Known(Paper, a) /\ stat[p] = Enters(First, Paper, a)
  <2>1. PICK c \in DOMAIN Paper : c = stat[p].current_battle_id /\ stat[p] = LoserOf(First, Paper[c])
    BY <1>2 DEF PaperInv, RealsRight
  <2>2. c \in Battle
    BY <2>1, PaperIs DEF PaperInv
  <2>3. agent[c] = a
    BY <1>1, <2>1 DEF Successor
  <2>4. Source(a) = c
    BY <2>2, <2>3, OneSource
  <2>. QED  BY <2>1, <2>3, <2>4, EntersIs DEF Known
<1>9. RealsRight'
  BY <1>2, <1>4, <1>7, Names DEF PaperInv, RealsRight
<1>10. AgentsRight'
  <2>. SUFFICES ASSUME NEW q \in Agent
       PROVE /\ pc'[q] = "take" => Known(Paper', q) /\ Head(fifo'[q]) = Enters(First', Paper', q)
             /\ pc'[q] \in {"send", "receive"} => full_hp'[q] = First'[stat'[q].real_player_id].HP
    BY DEF AgentsRight
  <2>1. CASE q = a
    BY <1>4, <1>6, <1>7, <1>8, <2>1
  <2>2. CASE q # a
    <3>1. pc'[q] = pc[q]
      BY <1>3, <1>4, <2>2, Names
    <3>. QED  BY <1>2, <1>6, <1>7, <2>2, <3>1 DEF PaperInv, AgentsRight
  <2>. QED  BY <2>1, <2>2
<1>11. ASSUME NEW b \in Battle, NEW i \in 1..2, tar_id[b][i] \in {p, a}
       PROVE  Talk(b, i)'
  <2>1. Talk(b, i)
    BY DEF PaperInv, Talks
  <2>2. PICK c \in {p, a} : c = tar_id[b][i]
    BY <1>11
  <2>3. /\ c \notin Battle /\ pc'[c] \notin {"send", "unborn"}
        /\ pc'[c] \in Early => pc[c] \in Early
    BY <1>2, <1>3, <1>4, Names DEF Early
  <2>. QED  BY <1>2, <1>7, <2>1, <2>2, <2>3 DEF Talk
<1>12. {p, a} \subseteq Player
  BY <1>3
<1>. QED  BY <1>2, <1>4, <1>7, <1>9, <1>10, <1>11, <1>12, PlayerKeepsPaper

LEMMA PaperTakeOver ==
  ASSUME IInv, PaperInv, NEW a \in Agent, TakeOver(a)
  PROVE  PaperInv'
<1>1. PICK v : v = Head(fifo[a])
  OBVIOUS
<1>2. /\ pc[a] = "take" /\ pc' = [pc EXCEPT ![a] = "send"]
      /\ stat' = [stat EXCEPT ![a] = v] /\ full_hp' = [full_hp EXCEPT ![a] = v.HP]
      /\ fifo' = [fifo EXCEPT ![a] = Tail(fifo[a])]
      /\ UNCHANGED <<player, loser, up, down, reaped, champion>>
  BY <1>1 DEF TakeOver
<1>3. a \in Process /\ a \in Player /\ a \notin Real /\ a \notin Battle /\ a # Root
  BY Names
<1>4. /\ pc'[a] = "send" /\ \A q \in Process : q # a => pc'[q] = pc[q]
      /\ stat'[a] = v /\ \A q \in Player : q # a => stat'[q] = stat[q]
      /\ full_hp'[a] = v.HP /\ \A q \in Player : q # a => full_hp'[q] = full_hp[q]
      /\ \A q \in Agent : q # a => fifo'[q] = fifo[q]
  BY <1>2, <1>3 DEF IInv, TypeOK
<1>5. Known(Paper, a) /\ v = Enters(First, Paper, a)
  BY <1>1, <1>2 DEF PaperInv, AgentsRight
<1>6. /\ Entrance(First) /\ Paper \in Sheets(First) /\ DOMAIN Paper \subseteq Battle
      /\ \A c \in DOMAIN Paper : Right(First, Paper, c)
  BY PaperIs DEF PaperInv
<1>7. v.HP = First[v.real_player_id].HP
  <2>1. PICK c \in DOMAIN Paper : agent[c] = a
    BY <1>3, <1>5 DEF Known
  <2>2. Source(a) = c
    BY <1>6, <2>1, OneSource
  <2>3. v = LoserOf(First, Paper[c])
    BY <1>5, <2>2, EntersIs
  <2>4. PICK l \in Status : l = Paper[c][Lost(Paper[c])]
    BY <1>6, <2>1 DEF Right, Over, Pair
  <2>5. v = [l EXCEPT !.HP = First[l.real_player_id].HP, !.battle_ended_flag = FALSE]
    BY <2>3, <2>4, Zenon DEF LoserOf
  <2>. QED  BY <2>4, <2>5 DEF Status
<1>8. First' = First /\ Paper' = Paper
  <2>1. ASSUME NEW r \in Real
        PROVE  /\ stat[r] \in Status /\ stat'[r] \in Status /\ Same(stat'[r], stat[r])
               /\ full_hp[r] \in Int /\ full_hp'[r] = full_hp[r]
    <3>1. stat[r] \in Status /\ full_hp[r] \in Int /\ r \in Player /\ r # a
      BY Names DEF IInv, PlayersHold, TypeOK
    <3>. QED  BY <1>4, <3>1 DEF Same
  <2>. QED  BY <2>1, PaperStays
<1>9. RealsRight'
  <2>1. \A r \in Real : r \in Process /\ r \in Player /\ r # a
    BY Names
  <2>. QED  BY <1>4, <1>8, <2>1 DEF PaperInv, RealsRight
<1>10. AgentsRight'
  <2>. SUFFICES ASSUME NEW q \in Agent
       PROVE /\ pc'[q] = "take" => Known(Paper', q) /\ Head(fifo'[q]) = Enters(First', Paper', q)
             /\ pc'[q] \in {"send", "receive"} => full_hp'[q] = First'[stat'[q].real_player_id].HP
    BY DEF AgentsRight
  <2>1. CASE q = a
    BY <1>4, <1>7, <1>8, <2>1
  <2>2. CASE q # a
    <3>1. pc'[q] = pc[q] /\ stat'[q] = stat[q] /\ full_hp'[q] = full_hp[q] /\ fifo'[q] = fifo[q]
      BY <1>4, <2>2, Names
    <3>. QED  BY <1>8, <3>1 DEF PaperInv, AgentsRight
  <2>. QED  BY <2>1, <2>2
<1>11. ASSUME NEW b \in Battle, NEW i \in 1..2, tar_id[b][i] \in {a}
       PROVE  Talk(b, i)'
  <2>1. Talk(b, i)
    BY DEF PaperInv, Talks
  <2>2. player'[b][i] = NoStatus
    BY <1>2, <1>11, <2>1 DEF Talk, Early
  <2>3. Due(First', Paper', a, player'[b][i], stat'[a])
    BY <1>4, <1>5, <1>8, <2>2 DEF Due
  <2>4. up'[a] = <<>> /\ down'[a] = <<>>
    BY <1>2, <1>3, OwesQuiet DEF Owing
  <2>. QED  BY <1>3, <1>4, <1>11, <2>2, <2>3, <2>4 DEF Talk
<1>12. {a} \subseteq Player
  BY <1>3
<1>. QED  BY <1>2, <1>4, <1>8, <1>9, <1>10, <1>11, <1>12, PlayerKeepsPaper

LEMMA PaperInit == Init => PaperInv
<1>. SUFFICES ASSUME Init PROVE PaperInv
  OBVIOUS
<1>1. PICK lineup \in Lineup :
        /\ stat = [p \in Player |-> IF p \in Real THEN FirstStatus(p, lineup[p]) ELSE NoStatus]
        /\ full_hp = [p \in Player |-> IF p \in Real THEN lineup[p].HP ELSE 0]
  BY DEF Init
<1>2. /\ pc = [p \in Process |-> IF p = Root THEN "fork" ELSE "unborn"]
      /\ player = [b \in Battle |-> <<NoStatus, NoStatus>>]
      /\ up = [p \in Process |-> <<>>] /\ down = [p \in Process |-> <<>>]
      /\ champion = NoPlayer
  BY DEF Init
<1>3. \A r \in Real : /\ lineup[r].HP \in Int /\ lineup[r].ATK \in Nat /\ lineup[r].ATK > 0
                      /\ lineup[r].attr \in Attribute
  BY LineupAssumption
<1>4. ASSUME NEW r \in Real
      PROVE  stat[r].ATK > 0 /\ stat[r] = First[r] /\ pc[r] = "unborn"
  <2>1. stat[r] = FirstStatus(r, lineup[r]) /\ full_hp[r] = lineup[r].HP
    BY <1>1, Names
  <2>2. First[r] = [stat[r] EXCEPT !.HP = full_hp[r], !.current_battle_id = Parent(r),
                                   !.battle_ended_flag = FALSE]
    BY DEF First
  <2>3. PICK s \in Status : s = FirstStatus(r, lineup[r])
    BY <1>3, ParentIsBattle DEF FirstStatus, Status
  <2>4. s.HP = lineup[r].HP /\ s.current_battle_id = Parent(r) /\ s.battle_ended_flag = FALSE
        /\ s.ATK = lineup[r].ATK
    BY <2>3 DEF FirstStatus
  <2>5. [s EXCEPT !.HP = s.HP, !.current_battle_id = s.current_battle_id,
                  !.battle_ended_flag = s.battle_ended_flag] = s
    BY DEF Status
  <2>6. pc[r] = "unborn"
    BY <1>2, Names
  <2>7. First[r] = [s EXCEPT !.HP = s.HP, !.current_battle_id = s.current_battle_id,
                             !.battle_ended_flag = s.battle_ended_flag]
    BY <2>1, <2>2, <2>3, <2>4
  <2>8. stat[r] = First[r]
    BY <2>1, <2>3, <2>5, <2>7
  <2>9. stat[r].ATK > 0
    BY <1>3, <2>1, <2>3, <2>4
  <2>. QED  BY <2>6, <2>8, <2>9
<1>5. ASSUME NEW b \in Battle, NEW i \in 1..2 PROVE Talk(b, i)
  <2>1. PICK c \in Process : c = tar_id[b][i] /\ c # Root
    BY ChildIsProcess
  <2>2. up[c] = <<>> /\ down[c] = <<>> /\ pc[c] = "unborn" /\ player[b][i] = NoStatus
    BY <1>2, <2>1
  <2>3. c \in Real => Due(First, Paper, c, player[b][i], stat[c])
    BY <1>4, <2>2, EntersIs DEF Due, Known
  <2>. QED  BY <2>1, <2>2, <2>3 DEF Talk
<1>6. ASSUME NEW b \in Battle PROVE Bout(b)
  <2>1. player[b] = <<NoStatus, NoStatus>> /\ pc[b] \in {"unborn", "fork"}
    BY <1>2, Names
  <2>2. Blank(player[b]) /\ \A i \in 1..2 : player[b][i] = NoStatus
    BY <2>1 DEF Blank
  <2>. QED  BY <2>1, <2>2 DEF Bout
<1>7. RealsRight
  BY <1>4 DEF RealsRight
<1>8. AgentsRight
  <2>1. \A a \in Agent : pc[a] = "unborn"
    BY <1>2, Names
  <2>. QED  BY <2>1 DEF AgentsRight
<1>9. ChampionRight
  BY <1>2 DEF ChampionRight
<1>. QED  BY <1>5, <1>6, <1>7, <1>8, <1>9 DEF PaperInv, Talks, Bouts

LEMMA PaperNext == IInv /\ PaperInv /\ [Next]_vars => PaperInv'
<1>. SUFFICES ASSUME IInv, PaperInv, [Next]_vars PROVE PaperInv'
  OBVIOUS
<1>1. CASE UNCHANGED vars
  <2>1. First' = First
    BY <1>1 DEF vars, First
  <2>2. Paper' = Paper
    BY <2>1 DEF Paper
  <2>3. Talks'
    BY <1>1, <2>1, <2>2, TalkStays DEF vars, PaperInv, Talks
  <2>4. Bouts'
    BY <1>1, <2>1, <2>2, BoutStays DEF vars, PaperInv, Bouts
  <2>5. RealsRight' /\ AgentsRight' /\ ChampionRight'
    BY <1>1, <2>1, <2>2 DEF vars, PaperInv, RealsRight, AgentsRight, ChampionRight
  <2>. QED  BY <2>3, <2>4, <2>5 DEF PaperInv
<1>2. CASE Next
  <2>1. PICK p \in Process : Step(p)
    BY <1>2 DEF Next
  <2>2. CASE p \in Battle
    BY <2>1, <2>2, Names, PaperFork, PaperReadFirst, PaperRound, PaperWait, PaperRelayUp,
       PaperRelayDown, PaperLeave DEF Step
  <2>3. CASE p \in Player
    BY <2>1, <2>3, Names, PaperSend, PaperReceive, PaperHandOver, PaperTakeOver DEF Step
  <2>. QED  BY <2>2, <2>3, Names
<1>. QED  BY <1>1, <1>2

-----------------------------------------------------------------------------
(* What holds in every state.                                              *)

\* Every variable of hw2 keeps its type: in particular only a Status is ever
\* sent, and the root announces a player, never what was not read.
THEOREM TypeCorrect == Spec => []TypeOK
<1>1. IInv => TypeOK
  BY DEF IInv
<1>. QED  BY <1>1, Always, PTL

\* In every behaviour of every tournament a child and its parent take turns on
\* their pipes: at most one message is in both, and none when the child has
\* exited.
THEOREM PipesHoldOne == Spec => []OneMessage
<1>. QED  BY InvOneMessage, Always, PTL

\* No read of battle.c meets the end of a stream: whoever it reads from has
\* written, or will.
THEOREM NoReadMeetsTheEnd == Spec => []NoReadAtEnd
<1>. QED  BY InvNoReadAtEnd, Always, PTL

\* The first wait of every battle but the root takes the loser's exit, although
\* wait would take either child's.
THEOREM FirstWaitTakesLoser == Spec => []WaitsForLoser
<1>. QED  BY InvWaitsForLoser, Always, PTL

\* However often players hand over to agents, nobody is played for twice.
THEOREM NobodyPlaysTwice == Spec => []OneVoice
<1>. QED  BY InvOneVoice, Always, PTL

\* Whoever hands over in the winners' bracket has an agent to hand over to, for
\* every table in which that bracket reaches up to the root.
THEOREM SuccessorAlways == Spec => []SuccessorExists
<1>1. BracketInv => SuccessorExists
  <2> SUFFICES ASSUME BracketInv, NEW p \in Real, pc[p] = "hand" PROVE Successor(p) \in Agent
    BY DEF SuccessorExists
  <2>1. stat[p].current_battle_id \in Battle /\ agent[stat[p].current_battle_id] # NoAgent
    BY DEF BracketInv, Bracket
  <2> QED  BY <2>1, TableAssumption DEF Successor
<1> QED  BY <1>1, BracketInit, BracketStep, Always, PTL DEF Spec

\* Whatever the order of the processes, every battle ends as on paper, and the
\* champion is the one on paper: the program is a tournament, for every tree,
\* every table of agents and every line-up.
THEOREM TournamentIsRight == Spec => []ResultsAreRight
<1>1. PaperInv => ResultsAreRight
  <2>. SUFFICES ASSUME PaperInv PROVE ResultsAreRight
    OBVIOUS
  <2>1. \A b \in Battle : pc[b] = "wait" => b \in DOMAIN Paper /\ player[b] = Paper[b]
    BY DEF PaperInv, Bouts, Bout
  <2>. QED  BY <2>1 DEF PaperInv, ChampionRight, ResultsAreRight
<1>. QED  BY <1>1, PaperInit, PaperNext, Always, PTL DEF Spec

=============================================================================
