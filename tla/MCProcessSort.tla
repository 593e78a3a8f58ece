---------------------------- MODULE MCProcessSort ---------------------------
(* Instances of ProcessSort for TLC.                                       *)
EXTENDS ProcessSort, MCMovies

\* All, some and no movies match; grades that tie, that are all 0 and that are
\* below 0, in all pieces and in some; a second request, and none at all.
Inputs ==
  [lines : {Five, Mixed},
   requests : {<<AsksAll(<<1, 0>>)>>, <<AsksAll(<<0, 0>>)>>, <<AsksAll(<<1, -2>>)>>,
               <<AsksAll(<<-1, -1>>)>>, <<Asks({1, 3}, <<0, 1>>), AsksAll(<<1, 0>>)>>,
               <<Asks({2}, <<1, -1>>)>>, <<Asks({}, <<1, 1>>)>>, <<>>}]
  \cup [lines : {Mixed}, requests : {<<AsksAll(<<1, 1>>)>>}]
  \cup Spoilt
=============================================================================
