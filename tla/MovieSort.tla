------------------------------ MODULE MovieSort -----------------------------
(***************************************************************************)
(* What the two servers of hw4 share: the entries they sort, the library   *)
(* lib.c that sorts one piece, and what an answer should be.               *)
(*                                                                         *)
(* Appending the secret to two titles does not change their order, since   *)
(* it starts with a tab; an entry counts how often that was done.          *)
(***************************************************************************)
EXTENDS MovieFiles

\* A title with its points.  Which movie it comes from is history.
Entry == [movie : 0..MAX_MOVIES, title : Nat, pts : Int, secrets : Nat]

\* A slot of the tables that was never filled.
NoEntry == [movie |-> 0, title |-> 0, pts |-> 0, secrets |-> 0]

\* The order of argmax and of the merges: more points, or the smaller title.  In
\* the code a mark is part of a title; it decides only between equal titles of
\* which one has more marks than the other.
Better(x, y) == x.pts > y.pts \/ (x.pts = y.pts /\ x.title < y.title)

\* The movies that match a request, as they are collected: each behind those
\* of the file before it.
Matches(f, q, rounding) ==
  LET Behind(m) == Cardinality({x \in Hit(f, q) : x < m})
      Graded(m) == [movie |-> m, title |-> movie(f, m).title,
                    pts |-> grade(f, q, rounding, profile(movie(f, m))), secrets |-> 0]
  IN  [k \in 1..Cardinality(Hit(f, q)) |-> Graded(CHOOSE m \in Hit(f, q) : Behind(m) = k - 1)]

Roundings(f, q) == [Rounded(f, q) -> {-1, 0, 1}]

-----------------------------------------------------------------------------
(* lib.c.                                                                  *)

\* The first of the best entries of q from start to end.
argmax(q, start, end) ==
  CHOOSE k \in start..end :
    \A j \in start..end : Better(q[k], q[j]) \/ (~Better(q[j], q[k]) /\ k <= j)

\* The assertion of argmax fails; the last entry is not looked at.
Aborts(q, start, end) == start < end /\ q[argmax(q, start, end)].pts < 0

add_secret(x) == [x EXCEPT !.secrets = @ + 1]

\* One iteration of sort: the best of the rest moves to k and is marked.  The
\* last entry is only marked.
SortAt(q, k, end) ==
  LET best == argmax(q, k, end)
  IN  [q EXCEPT ![best] = q[k], ![k] = add_secret(q[best])]

-----------------------------------------------------------------------------
(* The answer to request q.                                                *)

\* It lists the movies that match, each of them once.
IsComplete(answer, f, q) ==
  /\ Len(answer) = Cardinality(Hit(f, q))
  /\ {answer[k].movie : k \in 1..Len(answer)} = Hit(f, q)

\* Each is marked once, and none stands behind one that belongs after it.
IsSorted(answer, f, q) ==
  /\ \A k \in 1..Len(answer) : answer[k].secrets = 1
  /\ \A j, k \in 1..Len(answer) : j < k => ~Before(f, q, answer[k].movie, answer[j].movie)
=============================================================================
