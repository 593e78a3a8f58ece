------------------------------- MODULE MCMovies -----------------------------
(* Small files for the two servers of hw4.  A profile has two genres.      *)
EXTENDS Integers, Sequences

Row(t, g) == [title |-> t, genres |-> g, whole |-> TRUE]
Asks(t, g) == [star |-> FALSE, titles |-> t, genres |-> g]
AsksAll(g) == [star |-> TRUE, titles |-> {}, genres |-> g]

Heading == Row(0, <<>>)

\* Equal titles, equal profiles, profiles that differ in length only, and a
\* movie without any genre.
Five == <<Heading, Row(1, <<1, 1>>), Row(2, <<2, 2>>), Row(2, <<1, 1>>), Row(3, <<0, 1>>),
          Row(1, <<1, 0, 1>>)>>
Mixed == <<Heading, Row(4, <<0, 0>>), Row(3, <<2, 1>>), Row(2, <<1, 0>>), Row(1, <<1, 2>>),
           Row(1, <<1, 0>>)>>

\* Files that initialize does not return from.
Cut == [Five EXCEPT ![6].whole = FALSE]
Short == [Five EXCEPT ![2].genres = <<1>>]
Spoilt == {[lines |-> l, requests |-> <<AsksAll(<<1, 0>>)>>] :
             l \in {<<>>, Cut, Short, Append(Append(Five, Five[2]), Five[3])}}
          \cup {[lines |-> Five, requests |-> r] :
             r \in {<<AsksAll(<<1>>)>>,
                    <<AsksAll(<<1, 0>>), AsksAll(<<1, 0>>), AsksAll(<<1, 0>>)>>}}
=============================================================================
