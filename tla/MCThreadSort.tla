---------------------------- MODULE MCThreadSort ----------------------------
(* Instances of ThreadSort for TLC.                                        *)
EXTENDS ThreadSort, MCMovies

\* All movies and some, all movies of grade 0 and none, none and some, some and
\* none, all movies alone, grades that are 0 or below, and no request.
Requests ==
  [Five  |-> {<<AsksAll(<<1, 0>>), Asks({2}, <<0, 1>>)>>,
              <<Asks({2, 3}, <<0, 1>>), Asks({1}, <<1, 1>>)>>,
              <<Asks({}, <<1, 1>>), Asks({2, 3}, <<1, 0>>)>>, <<>>},
   Mixed |-> {<<AsksAll(<<0, 0>>), Asks({}, <<0, 1>>)>>, <<AsksAll(<<1, 1>>)>>,
              <<Asks({2, 3}, <<1, 0>>), Asks({}, <<1, 0>>)>>,
              <<Asks({1, 2}, <<1, -1>>), Asks({1}, <<-1, 0>>)>>}]

Inputs ==
  [lines : {Five}, requests : Requests.Five] \cup [lines : {Mixed}, requests : Requests.Mixed]
  \cup Spoilt

\* Two requests that match movies.
PlainInputs ==
  {[lines |-> Five, requests |-> <<AsksAll(<<1, 1>>), Asks({2, 3}, <<0, 1>>)>>]}
=============================================================================
