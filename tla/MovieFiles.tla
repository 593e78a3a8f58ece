------------------------------ MODULE MovieFiles ----------------------------
(***************************************************************************)
(* What the two servers of hw4 are given, what initialize and read_request *)
(* make of it, and what the grade of a movie is worth.                     *)
(*                                                                         *)
(* A title is a number, in the order of strcmp; the keyword of a request   *)
(* is the set of titles it is found in, or the star.  Genres are integers. *)
(***************************************************************************)
EXTENDS Integers, Sequences, FiniteSets, Functions

CONSTANTS
  NUM_OF_GENRE,   \* 19 in the code
  MAX_MOVIES,     \* 70000 in the code
  MAX_REQ         \* 255 in the code

ASSUME LimitAssumption ==
  /\ NUM_OF_GENRE \in Nat \ {0}
  /\ MAX_MOVIES \in Nat \ {0}
  /\ MAX_REQ \in Nat \ {0}

\* A line of movies.txt; it is whole if it has an id, a title and a list and
\* fits the buffer of fgets.
Line == [title : Nat, genres : Seq(Int), whole : BOOLEAN]

\* A request on the standard input.
Query == [star : BOOLEAN, titles : SUBSET Nat, genres : Seq(Int)]

\* The first line of the file is a heading.  A missing file has no lines.
Files == [lines : Seq(Line), requests : Seq(Query)]

num_of(f) == Len(f.lines) - 1
movie(f, m) == f.lines[m + 1]

\* strtok finds a token for each genre; those behind are left alone.
HasGenres(x) == Len(x.genres) >= NUM_OF_GENRE

\* Does initialize return?  It exits without a file, fails an assertion when
\* there are too many movies or requests, and dies of a null pointer for want
\* of a token: in a line that is cut, and in a list that is short.
Loads(f) ==
  /\ Len(f.lines) >= 1
  /\ num_of(f) <= MAX_MOVIES
  /\ \A m \in 1..num_of(f) : movie(f, m).whole /\ HasGenres(movie(f, m))
  /\ Len(f.requests) <= MAX_REQ
  /\ \A q \in Range(f.requests) : HasGenres(q)

\* The movies that match a request.
Hit(f, q) == {m \in 1..num_of(f) : q.star \/ movie(f, m).title \in q.titles}

-----------------------------------------------------------------------------
(* Grades.  Profiles are divided by their length and multiplied, so that a *)
(* grade is the cosine of the angle between two lists of genres, and 0 if  *)
(* one of them is all zeros.  Here cosines are compared without dividing.  *)

profile(x) == SubSeq(x.genres, 1, NUM_OF_GENRE)
Zero == [k \in 1..NUM_OF_GENRE |-> 0]

Dot(g, h) ==
  LET Sum[k \in 0..NUM_OF_GENRE] == IF k = 0 THEN 0 ELSE Sum[k - 1] + g[k] * h[k]
  IN  Sum[NUM_OF_GENRE]

Square(g) == IF g = Zero THEN 1 ELSE Dot(g, g)

Signed(n) == IF n < 0 THEN -(n * n) ELSE n * n

\* The exact grade of g for a request with the profile q is above that of h.
Above(g, h, q) == Signed(Dot(g, q)) * Square(h) > Signed(Dot(h, q)) * Square(g)

\* No genre in common: the grade is 0.
Apart(g, q) == \A k \in 1..NUM_OF_GENRE : g[k] * q[k] = 0

\* Products that add up to 0, which a sum of doubles may miss.
Cancels(g, q) == Dot(g, q) = 0 /\ ~Apart(g, q)

Profiles(f, q) == {profile(movie(f, m)) : m \in Hit(f, q)}

\* Profiles whose grades differ, if at all, by what is lost in rounding.
Rounded(f, q) ==
  {g \in Profiles(f, q) :
     \/ Cancels(g, profile(q))
     \/ \E h \in Profiles(f, q) : h # g /\ Dot(g, profile(q)) # 0
                                  /\ ~Above(g, h, profile(q)) /\ ~Above(h, g, profile(q))}

\* The grade of a profile as a number: the order and the sign of the cosines,
\* and between equal ones the order that rounding gives.
grade(f, q, rounding, g) ==
  LET Below(h) == Cardinality({k \in Profiles(f, q) \cup {Zero} : Above(h, k, profile(q))})
  IN  3 * (Below(g) - Below(Zero)) + (IF g \in DOMAIN rounding THEN rounding[g] ELSE 0)

\* A grade may come out below 0.
MayBeNegative(f, q) ==
  \E g \in Profiles(f, q) : Dot(g, profile(q)) < 0 \/ Cancels(g, profile(q))

\* Movie m belongs before movie n: it is more alike, or, if the grades cannot
\* differ, its title is smaller.
Before(f, q, m, n) ==
  LET g == profile(movie(f, m))
      h == profile(movie(f, n))
      Same == g = h \/ (Apart(g, profile(q)) /\ Apart(h, profile(q)))
  IN  Above(g, h, profile(q)) \/ (Same /\ movie(f, m).title < movie(f, n).title)
=============================================================================
