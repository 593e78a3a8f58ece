------------------------- MODULE TournamentProperties -----------------------
(***************************************************************************)
(* How the processes of Tournament get along: their pipes, their waits and *)
(* whom each of them plays for.                                            *)
(***************************************************************************)
EXTENDS Tournament

Children(b) == {tar_id[b][1], tar_id[b][2]}

\* Whoever loses in the winners' bracket has an agent to go to: the index into
\* path_name is never out of its bounds.
SuccessorExists ==
  \A p \in Real : pc[p] = "hand" => Successor(p) \in Agent

\* A process that reads from a pipe finds a message there or a process at the
\* other end: no read meets the end of the stream and leaves an old Status.
NoReadAtEnd ==
  \A b \in Battle :
    /\ pc[b] = "first" => up[tar_id[b][1]] # <<>> \/ pc[tar_id[b][1]] # "exited"
    /\ pc[b] = "second" => up[tar_id[b][2]] # <<>> \/ pc[tar_id[b][2]] # "exited"
    /\ pc[b] = "upward" => up[Finalist(b)] # <<>> \/ pc[Finalist(b)] # "exited"
    /\ pc[b] = "exited" => \A c \in Children(b) : pc[c] = "exited"

\* A child and its parent take turns: their pipes never hold two messages, so
\* that no write waits, and none is left when both have exited.
OneMessage ==
  \A b \in Battle : \A c \in Children(b) :
    /\ Len(up[c]) + Len(down[c]) <= 1
    /\ pc[c] = "exited" => up[c] = <<>> /\ down[c] = <<>>

\* wait(NULL) names no child.  A battle other than the root waits for the one
\* that lost, although it would take any: the winner is still there.
WaitsForLoser ==
  \A b \in Battle \ {Root} :
    pc[b] \in {"wait", "upward", "downward"} => Finalist(b) \notin reaped

\* Whom a process plays for.
Speaks(p) ==
  p \in Player /\ pc[p] \in {"send", "receive", "hand"} /\ stat[p] # NoStatus

\* Nobody plays twice: two players or agents that are alive carry different
\* numbers.
OneVoice ==
  \A p, q \in Player :
    /\ Speaks(p)
    /\ Speaks(q)
    /\ stat[p].real_player_id = stat[q].real_player_id
    => p = q

\* The tournament ends: everybody exits, and a champion is announced.
Ends == <>(champion # NoPlayer /\ \A p \in Process : pc[p] = "exited")

=============================================================================
