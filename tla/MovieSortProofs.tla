---------------------------- MODULE MovieSortProofs --------------------------
(* Lemmas about MovieSort, for both servers of hw4: the best entry of a    *)
(* piece is in the piece, matching movies are entries, an answer that      *)
(* names every movie that matches names each of them once, the grades are  *)
(* in the order of the cosines, and one step of sort or of a merge leaves  *)
(* what it has done in order.                                              *)
EXTENDS MovieSort, NaturalRecursion, FiniteSetTheorems, SequenceTheorems

-----------------------------------------------------------------------------
(* argmax.                                                                 *)

\* Entry k is the one that argmax looks for.
First(q, start, end, k) ==
  /\ k \in start..end
  /\ \A j \in start..end : Better(q[k], q[j]) \/ (~Better(q[j], q[k]) /\ k <= j)

\* There is a first among the best of a piece: the shortest piece from start
\* without one would be one entry longer than a piece that has one.
LEMMA FirstExists ==
  ASSUME NEW q, NEW start \in Int, NEW end \in Int, start <= end,
         \A k \in start..end : q[k].pts \in Int /\ q[k].title \in Int
  PROVE  \E k : First(q, start, end, k)
<1>. DEFINE Without == {n \in Nat : start + n <= end /\ ~\E k : First(q, start, start + n, k)}
<1>1. CASE Without = {}
  <2>1. PICK n \in Nat : start + n = end
    <3>1. end - start \in Nat /\ start + (end - start) = end
      OBVIOUS
    <3>. QED  BY <3>1
  <2>2. \E k : First(q, start, start + n, k)
    <3>1. n \notin Without
      BY <1>1
    <3>2. n \in Nat /\ start + n <= end
      BY <2>1
    <3>. QED  BY <3>1, <3>2
  <2>. QED  BY <2>1, <2>2
<1>2. CASE Without # {}
  <2>1. PICK n \in Without : \A x \in Without : n <= x
    BY <1>2, LeastNat
  <2>2. n # 0
    <3>. SUFFICES ASSUME n = 0 PROVE FALSE
      OBVIOUS
    <3>1. First(q, start, start, start)
      BY DEF First, Better
    <3>. QED  BY <3>1
  <2>3. n - 1 \in Nat /\ n - 1 \notin Without /\ start + (n - 1) <= end
    BY <2>1, <2>2
  <2>4. PICK k : First(q, start, start + (n - 1), k)
    BY <2>3
  <2>. DEFINE e == start + n
  <2>5. /\ e \in start..end /\ k \in start..(e - 1) /\ start + (n - 1) = e - 1
        /\ q[e].pts \in Int /\ q[e].title \in Int /\ q[k].pts \in Int /\ q[k].title \in Int
    BY <2>1, <2>2, <2>4 DEF First
  <2>6. \A j \in start..(e - 1) : Better(q[k], q[j]) \/ (~Better(q[j], q[k]) /\ k <= j)
    BY <2>4, <2>5 DEF First
  <2>. HIDE DEF e
  <2>7. ASSUME ~Better(q[e], q[k]) PROVE First(q, start, e, k)
    <3>1. \A j \in start..e : j \in start..(e - 1) \/ j = e
      BY <2>5
    <3>2. Better(q[k], q[e]) \/ (~Better(q[e], q[k]) /\ k <= e)
      BY <2>5, <2>7
    <3>3. \A j \in start..e : Better(q[k], q[j]) \/ (~Better(q[j], q[k]) /\ k <= j)
      BY <2>6, <3>1, <3>2
    <3>4. k \in start..e
      BY <2>5
    <3>. QED  BY <3>3, <3>4 DEF First
  <2>8. ASSUME Better(q[e], q[k]) PROVE First(q, start, e, e)
    <3>. SUFFICES ASSUME NEW j \in start..e
         PROVE Better(q[e], q[j]) \/ (~Better(q[j], q[e]) /\ e <= j)
      BY <2>5 DEF First
    <3>1. CASE j = e
      BY <2>5, <3>1 DEF Better
    <3>2. CASE j \in start..(e - 1)
      <4>1. Better(q[k], q[j]) \/ ~Better(q[j], q[k])
        BY <2>6, <3>2
      <4>2. q[j].pts \in Int /\ q[j].title \in Int
        BY <2>5, <3>2
      <4>. QED  BY <2>5, <2>8, <4>1, <4>2 DEF Better
    <3>. QED  BY <2>5, <3>1, <3>2
  <2>. QED  BY <2>1, <2>7, <2>8 DEF e
<1>. QED  BY <1>1, <1>2

LEMMA ArgmaxInside ==
  ASSUME NEW q, NEW start \in Int, NEW end \in Int, start <= end,
         \A k \in start..end : q[k].pts \in Int /\ q[k].title \in Int
  PROVE  First(q, start, end, argmax(q, start, end))
<1>1. PICK k : First(q, start, end, k)
  BY FirstExists
<1>. QED  BY <1>1 DEF First, argmax

\* w is q with the best entry from k to end marked and swapped with that at k.
Swapped(S, q, k, end, w) ==
  \E best \in k..end :
    /\ First(q, k, end, best)
    /\ w \in [S -> Entry]
    /\ w[k] = add_secret(q[best])
    /\ best # k => w[best] = q[k]
    /\ \A j \in S : j # k /\ j # best => w[j] = q[j]

LEMMA SortSwaps ==
  ASSUME NEW S, S \subseteq Int, NEW q \in [S -> Entry], NEW k \in Int, NEW end \in Int,
         k <= end, k..end \subseteq S
  PROVE  Swapped(S, q, k, end, SortAt(q, k, end))
<1>. DEFINE best == argmax(q, k, end)
<1>1. \A j \in k..end : q[j].pts \in Int /\ q[j].title \in Int
  BY DEF Entry
<1>2. First(q, k, end, best)
  BY <1>1, ArgmaxInside
<1>3. best \in k..end /\ best \in S /\ k \in S
  BY <1>2 DEF First
<1>4. SortAt(q, k, end) = [q EXCEPT ![best] = q[k], ![k] = add_secret(q[best])]
  BY DEF SortAt
<1>5. q[best] \in Entry /\ q[k] \in Entry
  BY <1>3
<1>6. add_secret(q[best]) \in Entry
  BY <1>5 DEF add_secret, Entry
<1>. HIDE DEF best
<1>. QED  BY <1>2, <1>3, <1>4, <1>5, <1>6 DEF Swapped

\* Marking a title does not make it another movie.
LEMMA MarkedMovie ==
  ASSUME NEW x \in Entry
  PROVE  add_secret(x) \in Entry /\ add_secret(x).movie = x.movie
BY DEF add_secret, Entry

-----------------------------------------------------------------------------
(* The movies that match a request.                                        *)

LEMMA HitFinite ==
  ASSUME NEW f \in Files, NEW q
  PROVE  /\ num_of(f) \in Int /\ Hit(f, q) \subseteq 1..num_of(f)
         /\ IsFiniteSet(Hit(f, q)) /\ Cardinality(Hit(f, q)) \in Nat
         /\ Loads(f) => Cardinality(Hit(f, q)) \in 0..MAX_MOVIES
         /\ Cardinality(Hit(f, q)) = 0 <=> Hit(f, q) = {}
<1>1. num_of(f) \in Int
  BY DEF Files, num_of
<1>2. Hit(f, q) \subseteq 1..num_of(f)
  BY DEF Hit
<1>3. IsFiniteSet(1..num_of(f)) /\ Cardinality(1..num_of(f)) = IF 1 > num_of(f) THEN 0 ELSE num_of(f)
  BY <1>1, FS_Interval
<1>4. IsFiniteSet(Hit(f, q)) /\ Cardinality(Hit(f, q)) <= Cardinality(1..num_of(f))
  BY <1>2, <1>3, FS_Subset
<1>5. Cardinality(Hit(f, q)) \in Nat
  BY <1>4, FS_CardinalityType
<1>6. Loads(f) => num_of(f) <= MAX_MOVIES
  BY DEF Loads
<1>7. Cardinality(Hit(f, q)) = 0 <=> Hit(f, q) = {}
  BY <1>4, FS_EmptySet
<1>. QED  BY <1>1, <1>2, <1>3, <1>4, <1>5, <1>6, <1>7, LimitAssumption

LEMMA GradeIsInt ==
  ASSUME NEW f \in Files, NEW q, NEW rounding \in Roundings(f, q), NEW g
  PROVE  grade(f, q, rounding, g) \in Int
<1>. DEFINE P == Profiles(f, q)
            B(h) == {k \in P \cup {Zero} : Above(h, k, profile(q))}
<1>1. IsFiniteSet(P)
  <2>. DEFINE F == [m \in Hit(f, q) |-> profile(movie(f, m))]
  <2>1. F \in Surjection(Hit(f, q), P)
    BY DEF Surjection, Profiles
  <2>. HIDE DEF F, P
  <2>. QED  BY <2>1, HitFinite, FS_Surjection
<1>2. IsFiniteSet(P \cup {Zero})
  BY <1>1, FS_AddElement
<1>. HIDE DEF P
<1>3. \A h : Cardinality(B(h)) \in Nat
  <2>. SUFFICES ASSUME NEW h PROVE Cardinality(B(h)) \in Nat
    OBVIOUS
  <2>1. B(h) \in SUBSET (P \cup {Zero})
    OBVIOUS
  <2>2. IsFiniteSet(B(h))
    BY <1>2, <2>1, FS_Subset
  <2>. QED  BY <2>2, FS_CardinalityType
<1>4. g \in DOMAIN rounding => rounding[g] \in Int
  BY DEF Roundings
<1>5. (IF g \in DOMAIN rounding THEN rounding[g] ELSE 0) \in Int
  BY <1>4
<1>6. grade(f, q, rounding, g) =
        3 * (Cardinality(B(g)) - Cardinality(B(Zero))) + (IF g \in DOMAIN rounding THEN rounding[g] ELSE 0)
  BY DEF grade, P
<1>7. Cardinality(B(g)) \in Nat /\ Cardinality(B(Zero)) \in Nat
  BY <1>3
<1>. HIDE DEF B
<1>. QED  BY <1>5, <1>6, <1>7

\* How many of the movies that match come before movie m in the file.
Behind(f, q, m) == Cardinality({x \in Hit(f, q) : x < m})

\* Movies are collected in places of their own, one behind the other.
LEMMA PlacesDiffer ==
  ASSUME NEW f \in Files, NEW q
  PROVE  /\ \A m \in Hit(f, q) : Behind(f, q, m) \in 0..(Cardinality(Hit(f, q)) - 1)
         /\ \A m, n \in Hit(f, q) : Behind(f, q, m) = Behind(f, q, n) => m = n
<1>. DEFINE H == Hit(f, q)
            U(m) == {x \in H : x < m}
<1>1. IsFiniteSet(H) /\ Cardinality(H) \in Nat /\ H \subseteq Int
  BY HitFinite
<1>. HIDE DEF H
<1>2. ASSUME NEW m \in H
      PROVE  /\ IsFiniteSet(U(m)) /\ Cardinality(U(m)) \in Nat
             /\ Cardinality(U(m)) < Cardinality(H)
  <2>1. U(m) \in SUBSET H /\ U(m) # H
    BY <1>1
  <2>2. IsFiniteSet(U(m)) /\ Cardinality(U(m)) <= Cardinality(H) /\ Cardinality(U(m)) # Cardinality(H)
    BY <1>1, <2>1, FS_Subset
  <2>3. Cardinality(U(m)) \in Nat
    BY <2>2, FS_CardinalityType
  <2>. QED  BY <1>1, <2>2, <2>3
<1>3. ASSUME NEW m \in H, NEW n \in H, m < n PROVE Cardinality(U(m)) # Cardinality(U(n))
  <2>1. \A x \in H : x < m => x < n
    BY <1>1, <1>3
  <2>2. U(m) \in SUBSET U(n)
    BY <2>1
  <2>3. m \in U(n) /\ m \notin U(m)
    BY <1>1, <1>3
  <2>. QED  BY <1>2, <2>2, <2>3, FS_Subset
<1>4. \A m, n \in H : Cardinality(U(m)) = Cardinality(U(n)) => m = n
  BY <1>1, <1>3
<1>5. \A m : Behind(f, q, m) = Cardinality(U(m))
  BY DEF Behind, H
<1>6. ASSUME NEW m \in H PROVE Behind(f, q, m) \in 0..(Cardinality(H) - 1)
  <2>1. Cardinality(U(m)) \in Nat /\ Cardinality(U(m)) < Cardinality(H)
    BY <1>2
  <2>2. Behind(f, q, m) \in Nat /\ Behind(f, q, m) < Cardinality(H)
    BY <1>5, <2>1
  <2>. QED  BY <1>1, <2>2
<1>. QED  BY <1>4, <1>5, <1>6 DEF H

\* Every movie that matches is collected, as an entry.
LEMMA MatchesAll ==
  ASSUME NEW f \in Files, NEW q, NEW rounding \in Roundings(f, q)
  PROVE  /\ Len(Matches(f, q, rounding)) = Cardinality(Hit(f, q))
         /\ \A m \in Hit(f, q) : \E k \in 1..Cardinality(Hit(f, q)) :
              Matches(f, q, rounding)[k].movie = m
         /\ Loads(f) => \A k \in 1..Cardinality(Hit(f, q)) : Matches(f, q, rounding)[k] \in Entry
<1>. DEFINE H == Hit(f, q)
            c == Cardinality(H)
            B(m) == Behind(f, q, m)
            At(k) == CHOOSE m \in H : B(m) = k - 1
            G(m) == [movie |-> m, title |-> movie(f, m).title,
                     pts |-> grade(f, q, rounding, profile(movie(f, m))), secrets |-> 0]
<1>1. Matches(f, q, rounding) = [k \in 1..c |-> G(At(k))]
  BY DEF Matches, Behind
<1>2. c \in Nat /\ IsFiniteSet(H) /\ H \subseteq 1..num_of(f) /\ num_of(f) \in Int
  BY HitFinite
<1>3. /\ \A m \in H : B(m) \in 0..(c - 1)
      /\ \A m, n \in H : B(m) = B(n) => m = n
  BY PlacesDiffer
<1>4. Len(Matches(f, q, rounding)) = c
  BY <1>1, <1>2
<1>. HIDE DEF H, c, B
<1>5. ASSUME NEW m \in H PROVE B(m) + 1 \in 1..c /\ At(B(m) + 1) = m
  <2>1. B(m) + 1 \in 1..c /\ (B(m) + 1) - 1 = B(m)
    BY <1>2, <1>3
  <2>2. \A n \in H : B(n) = (B(m) + 1) - 1 => n = m
    BY <1>3, <2>1
  <2>. QED  BY <2>1, <2>2
<1>6. \A k \in 1..c : At(k) \in H
  <2>. DEFINE F == [m \in H |-> B(m) + 1]
  <2>1. F \in Injection(H, 1..c)
    <3>1. F \in [H -> 1..c]
      BY <1>5
    <3>2. \A m, n \in H : F[m] = F[n] => m = n
      BY <1>2, <1>3
    <3>. QED  BY <3>1, <3>2 DEF Injection, IsInjective
  <2>2. IsFiniteSet(1..c) /\ Cardinality(1..c) = c
    BY <1>2, FS_Interval
  <2>3. F \in Surjection(H, 1..c)
    BY <1>2, <2>1, <2>2, FS_Injection DEF c
  <2>4. \A k \in 1..c : \E m \in H : F[m] = k
    BY <2>3 DEF Surjection
  <2>5. \A k \in 1..c : \E m \in H : B(m) = k - 1
    <3>. SUFFICES ASSUME NEW k \in 1..c PROVE \E m \in H : B(m) = k - 1
      OBVIOUS
    <3>1. PICK m \in H : F[m] = k
      BY <2>4
    <3>2. B(m) + 1 = k /\ B(m) \in Int
      BY <1>3, <3>1
    <3>. QED  BY <3>2
  <2>. QED  BY <2>5
<1>. HIDE DEF At
<1>7. \A m \in H : \E k \in 1..c : Matches(f, q, rounding)[k].movie = m
  <2>. SUFFICES ASSUME NEW m \in H PROVE \E k \in 1..c : Matches(f, q, rounding)[k].movie = m
    OBVIOUS
  <2>1. Matches(f, q, rounding)[B(m) + 1] = G(m)
    BY <1>1, <1>5
  <2>. QED  BY <1>5, <2>1
<1>8. ASSUME Loads(f), NEW k \in 1..c PROVE Matches(f, q, rounding)[k] \in Entry
  <2>1. At(k) \in 1..num_of(f)
    BY <1>2, <1>6
  <2>2. num_of(f) <= MAX_MOVIES /\ MAX_MOVIES \in Nat
    BY <1>8, LimitAssumption DEF Loads
  <2>3. At(k) \in 0..MAX_MOVIES
    BY <1>2, <2>1, <2>2
  <2>4. movie(f, At(k)).title \in Nat
    <3>1. f.lines \in Seq(Line) /\ num_of(f) = Len(f.lines) - 1
      BY DEF Files, num_of
    <3>2. At(k) + 1 \in 1..Len(f.lines)
      BY <1>2, <2>1, <3>1
    <3>3. f.lines[At(k) + 1] \in Line
      BY <3>1, <3>2
    <3>. QED  BY <3>3 DEF movie, Line
  <2>5. grade(f, q, rounding, profile(movie(f, At(k)))) \in Int
    BY GradeIsInt
  <2>. QED  BY <1>1, <2>3, <2>4, <2>5 DEF Entry
<1>. QED  BY <1>4, <1>7, <1>8 DEF H, c

\* An answer with as many entries as movies match, among them every movie that
\* matches, has no other entries and none twice.
LEMMA AnswerOfAll ==
  ASSUME NEW f \in Files, NEW q, NEW answer, Len(answer) = Cardinality(Hit(f, q)),
         \A m \in Hit(f, q) : \E k \in 1..Len(answer) : answer[k].movie = m
  PROVE  IsComplete(answer, f, q)
<1>. DEFINE H == Hit(f, q)
            c == Len(answer)
            A == {answer[k].movie : k \in 1..c}
            F == [k \in 1..c |-> answer[k].movie]
<1>1. IsFiniteSet(H) /\ Cardinality(H) = c /\ c \in Nat
  BY HitFinite
<1>2. H \subseteq A
  <2>. SUFFICES ASSUME NEW m \in H PROVE m \in A
    OBVIOUS
  <2>1. \E k \in 1..c : answer[k].movie = m
    OBVIOUS
  <2>. QED  BY <2>1
<1>3. F \in Surjection(1..c, A)
  BY DEF Surjection
<1>4. IsFiniteSet(1..c) /\ Cardinality(1..c) = c
  BY <1>1, FS_Interval
<1>. HIDE DEF F, c, H, A
<1>5. IsFiniteSet(A) /\ Cardinality(A) <= c
  BY <1>3, <1>4, FS_Surjection
<1>6. Cardinality(A) = Cardinality(H)
  <2>1. Cardinality(A) \in Nat /\ Cardinality(H) <= Cardinality(A)
    BY <1>2, <1>5, FS_Subset, FS_CardinalityType
  <2>. QED  BY <1>1, <1>5, <2>1
<1>7. A = H
  BY <1>2, <1>5, <1>6, FS_Subset
<1>. QED  BY <1>1, <1>7 DEF IsComplete, H, c, A

-----------------------------------------------------------------------------
(* A merge, and the tree of the pieces.                                   *)

\* What the numbers of a merge are after it has taken the entry at k.
Further(s, e, ls, le, rs, len, k, ls2, rs2) ==
  /\ ls2 \in Int /\ rs2 \in Int
  /\ s <= ls2 /\ ls2 <= le + 1 /\ le < rs2 /\ rs2 <= e + 1
  /\ len + 1 = (ls2 - s) + (rs2 - (le + 1))
  /\ \A j \in Int : (s <= j /\ j < ls2) \/ (le < j /\ j < rs2) =>
       j = k \/ (s <= j /\ j < ls) \/ (le < j /\ j < rs)
  /\ len = e - s => ls2 = le + 1 /\ rs2 = e + 1

\* It is at ls of s..le and at rs of le+1..e, has taken len
\* entries, and takes the one at k.
LEMMA OneFurther ==
  ASSUME NEW s \in Int, NEW e \in Int, NEW ls \in Int, NEW le \in Int, NEW rs \in Int,
         NEW len \in Int, NEW k, NEW ls2, NEW rs2,
         s <= ls, ls <= le + 1, le < rs, rs <= e + 1,
         len = (ls - s) + (rs - (le + 1)),
         \/ k = ls /\ ls <= le /\ ls2 = ls + 1 /\ rs2 = rs
         \/ k = rs /\ rs <= e /\ ls2 = ls /\ rs2 = rs + 1
  PROVE  Further(s, e, ls, le, rs, len, k, ls2, rs2)
<1>1. CASE k = ls /\ ls <= le /\ ls2 = ls + 1 /\ rs2 = rs
  BY <1>1 DEF Further
<1>2. CASE k = rs /\ rs <= e /\ ls2 = ls /\ rs2 = rs + 1
  BY <1>2 DEF Further
<1>. QED  BY <1>1, <1>2

\* The way to a node of a binary tree, 0 to the left and 1 to the right, leads
\* through its parent.
LEMMA WayUp ==
  ASSUME NEW x \in Seq({0, 1}), x # <<>>
  PROVE  \E p \in Seq({0, 1}), a \in {0, 1} : Append(p, a) = x /\ Len(x) = Len(p) + 1
<1>. DEFINE e == Len(x) - 1
            p == SubSeq(x, 1, e)
            a == x[Len(x)]
<1>1. Len(x) \in Nat /\ Len(x) # 0 /\ \A k \in 1..Len(x) : x[k] \in {0, 1}
  OBVIOUS
<1>2. e \in Int /\ 0 <= e /\ Len(x) = e + 1 /\ \A k \in 1..e : x[k] \in {0, 1}
  BY <1>1
<1>3. a \in {0, 1}
  BY <1>1
<1>. HIDE DEF e
<1>4. p \in Seq({0, 1}) /\ Len(p) = e /\ \A k \in 1..e : p[k] = x[k]
  <2>1. /\ SubSeq(x, 1, e) \in Seq({0, 1})
        /\ Len(SubSeq(x, 1, e)) = IF 1 <= e THEN e - 1 + 1 ELSE 0
        /\ \A k \in 1..(e - 1 + 1) : SubSeq(x, 1, e)[k] = x[1 + k - 1]
    BY <1>2, SubSeqProperties
  <2>2. e - 1 + 1 = e /\ \A k \in 1..e : 1 + k - 1 = k
    BY <1>2
  <2>3. Len(SubSeq(x, 1, e)) = e
    BY <1>2, <2>1
  <2>. QED  BY <2>1, <2>2, <2>3
<1>. HIDE DEF p
<1>5. Append(p, a) = x
  <2>1. Append(p, a) \in Seq({0, 1}) /\ Len(Append(p, a)) = Len(x)
    BY <1>2, <1>3, <1>4
  <2>2. ASSUME NEW k \in 1..Len(x) PROVE Append(p, a)[k] = x[k]
    <3>1. CASE k = Len(x)
      BY <1>2, <1>3, <1>4, <3>1
    <3>2. CASE k # Len(x)
      BY <1>2, <1>3, <1>4, <3>2
    <3>. QED  BY <3>1, <3>2
  <2>. QED  BY <2>1, <2>2, SeqEqual
<1>. HIDE DEF a
<1>. QED  BY <1>2, <1>3, <1>4, <1>5

-----------------------------------------------------------------------------
(* Grades.                                                                 *)

Profile == [1..NUM_OF_GENRE -> Int]

\* The sums that lead to a dot product.
DotSums(S, g, h) ==
  /\ S[0] = 0
  /\ \A k \in 0..NUM_OF_GENRE : S[k] \in Int
  /\ \A k \in 1..NUM_OF_GENRE : S[k] = S[k - 1] + g[k] * h[k]

LEMMA DotIsSum ==
  ASSUME NEW g \in Profile, NEW h \in Profile
  PROVE  \E S : DotSums(S, g, h) /\ Dot(g, h) = S[NUM_OF_GENRE]
<1>. DEFINE m == NUM_OF_GENRE
            step == [n \in Nat |-> [v \in Int |-> IF n + 1 \in 1..m THEN v + g[n + 1] * h[n + 1] ELSE v]]
<1>1. m \in Nat /\ \A n \in 1..m : g[n] * h[n] \in Int
  BY LimitAssumption DEF Profile
<1>. DEFINE Adds(S) == S = [k \in 0..m |-> IF k = 0 THEN 0 ELSE S[k - 1] + g[k] * h[k]]
<1>2. Dot(g, h) = (CHOOSE S : Adds(S))[m]
  BY DEF Dot
<1>. HIDE DEF m
<1>3. step \in [Nat -> [Int -> Int]]
  <2>1. \A n \in Nat, v \in Int : (IF n + 1 \in 1..m THEN v + g[n + 1] * h[n + 1] ELSE v) \in Int
    BY <1>1
  <2>. QED  BY <2>1
<1>4. \A n \in 0..(m - 1), v \in Int : step[n][v] = v + g[n + 1] * h[n + 1]
  <2>1. \A n \in 0..(m - 1) : n \in Nat /\ n + 1 \in 1..m
    BY <1>1
  <2>. QED  BY <2>1
<1>. HIDE DEF step
<1>5. Recursion(Int, 0, step)
  <2>1. 0 \in Int
    OBVIOUS
  <2>. QED  BY <1>3, <2>1, Zenon DEF Recursion
<1>6. PICK f : Recurs(f, Int, 0, step)
  BY <1>5, RecursionExists
<1>7. /\ \A n \in 0..m : f[n] \in Int
      /\ f[0] = 0
      /\ \A n \in 1..m : f[n] = f[n - 1] + g[n] * h[n]
  <2>1. f \in [Nat -> Int] /\ f[0] = 0 /\ \A n \in Nat : f[n + 1] = step[n][f[n]]
    BY <1>6 DEF Recurs
  <2>2. \A n \in 0..m : f[n] \in Int
    BY <1>1, <2>1
  <2>3. ASSUME NEW n \in 1..m PROVE f[n] = f[n - 1] + g[n] * h[n]
    <3>1. n - 1 \in 0..(m - 1) /\ n - 1 \in Nat /\ (n - 1) + 1 = n
      BY <1>1
    <3>2. f[n - 1] \in Int /\ f[n] = step[n - 1][f[n - 1]]
      BY <2>1, <3>1
    <3>3. step[n - 1][f[n - 1]] = f[n - 1] + g[(n - 1) + 1] * h[(n - 1) + 1]
      BY <1>4, <3>1, <3>2, Zenon
    <3>. QED  BY <3>1, <3>2, <3>3, Zenon
  <2>. QED  BY <2>1, <2>2, <2>3
<1>. DEFINE S == [k \in 0..m |-> f[k]]
<1>8. Adds(S)
  <2>1. ASSUME NEW k \in 0..m PROVE S[k] = IF k = 0 THEN 0 ELSE S[k - 1] + g[k] * h[k]
    <3>1. CASE k = 0
      BY <1>1, <1>7, <3>1
    <3>2. CASE k # 0
      <4>1. k - 1 \in 0..m /\ k \in 1..m
        BY <1>1, <3>2
      <4>2. S[k] = f[k] /\ S[k - 1] = f[k - 1]
        BY <4>1
      <4>. HIDE DEF S
      <4>. QED  BY <1>7, <3>2, <4>1, <4>2
    <3>. QED  BY <3>1, <3>2
  <2>2. S = [k \in 0..m |-> S[k]]
    OBVIOUS
  <2>. HIDE DEF S
  <2>. QED  BY <2>1, <2>2
<1>9. Adds(CHOOSE T : Adds(T))
  <2>. HIDE DEF Adds, S
  <2>. QED  BY <1>8
<1>. DEFINE D == CHOOSE T : Adds(T)
<1>10. D = [k \in 0..m |-> IF k = 0 THEN 0 ELSE D[k - 1] + g[k] * h[k]]
  BY <1>9
<1>. HIDE DEF D
<1>. DEFINE A == {k \in 0..m : D[k] = f[k]}
<1>11. 0..m \subseteq A
  <2>1. 0 \in A
    BY <1>1, <1>7, <1>10
  <2>2. ASSUME NEW k \in 0..(m - 1), k \in A PROVE k + 1 \in A
    <3>1. k + 1 \in 0..m /\ k + 1 # 0 /\ (k + 1) - 1 = k /\ k + 1 \in 1..m
      BY <1>1
    <3>2. D[k + 1] = D[k] + g[k + 1] * h[k + 1]
      BY <1>10, <3>1
    <3>3. f[k + 1] = f[k] + g[k + 1] * h[k + 1]
      BY <1>7, <3>1
    <3>. QED  BY <2>2, <3>1, <3>2, <3>3
  <2>. HIDE DEF A
  <2>. QED  BY <1>1, <2>1, <2>2, AllUpTo
<1>12. m \in 0..m
  BY <1>1
<1>13. Dot(g, h) = f[m]
  BY <1>2, <1>11, <1>12 DEF D
<1>. QED  BY <1>7, <1>13 DEF DotSums, m

LEMMA DotIsInt ==
  ASSUME NEW g \in Profile, NEW h \in Profile
  PROVE  Dot(g, h) \in Int
<1>1. PICK S : DotSums(S, g, h) /\ Dot(g, h) = S[NUM_OF_GENRE]
  BY DotIsSum
<1>2. NUM_OF_GENRE \in 0..NUM_OF_GENRE
  BY LimitAssumption
<1>. QED  BY <1>1, <1>2 DEF DotSums

\* Products that are all 0 add up to 0.
LEMMA ApartIsZero ==
  ASSUME NEW g \in Profile, NEW h \in Profile, Apart(g, h)
  PROVE  Dot(g, h) = 0
<1>1. PICK S : DotSums(S, g, h) /\ Dot(g, h) = S[NUM_OF_GENRE]
  BY DotIsSum
<1>. DEFINE m == NUM_OF_GENRE
            A == {k \in 0..m : S[k] = 0}
<1>2. m \in Nat /\ m \in 0..m
  BY LimitAssumption
<1>3. 0 \in A
  BY <1>1, <1>2 DEF DotSums
<1>4. ASSUME NEW k \in 0..(m - 1), k \in A PROVE k + 1 \in A
  <2>1. k + 1 \in 0..m /\ (k + 1) - 1 = k /\ k + 1 \in 1..m
    BY <1>2
  <2>2. S[k + 1] = S[k] + g[k + 1] * h[k + 1] /\ g[k + 1] * h[k + 1] = 0
    BY <1>1, <2>1 DEF DotSums, Apart
  <2>. QED  BY <1>4, <2>1, <2>2
<1>5. 0..m \subseteq A
  <2>. HIDE DEF A, m
  <2>. QED  BY <1>2, <1>3, <1>4, AllUpTo
<1>. QED  BY <1>1, <1>2, <1>5

LEMMA SquareOfInt == \A x \in Int : x * x \in Int /\ x * x >= 0 /\ (x # 0 => x * x > 0)
OBVIOUS

\* A list with a genre has a length.
LEMMA SquarePositive ==
  ASSUME NEW g \in Profile
  PROVE  Square(g) \in Int /\ Square(g) > 0
<1>1. CASE g = Zero
  BY <1>1 DEF Square
<1>2. CASE g # Zero
  <2>. DEFINE m == NUM_OF_GENRE
  <2>1. PICK S : DotSums(S, g, g) /\ Dot(g, g) = S[m]
    BY DotIsSum
  <2>2. PICK i \in 1..m : g[i] # 0
    BY <1>2 DEF Profile, Zero
  <2>3. m \in Nat /\ m \in 0..m /\ \A k \in 1..m : g[k] \in Int
    BY LimitAssumption DEF Profile
  <2>. DEFINE A == {k \in 0..m : S[k] >= 0 /\ (i <= k => S[k] > 0)}
  <2>. HIDE DEF m
  <2>4. 0 \in A
    BY <2>1, <2>2, <2>3 DEF DotSums
  <2>5. ASSUME NEW k \in 0..(m - 1), k \in A PROVE k + 1 \in A
    <3>1. k + 1 \in 0..m /\ (k + 1) - 1 = k /\ k + 1 \in 1..m /\ k \in 0..m
      BY <2>3
    <3>2. S[k + 1] = S[k] + g[k + 1] * g[k + 1] /\ S[k] \in Int
      BY <2>1, <3>1 DEF DotSums, m
    <3>3. g[k + 1] * g[k + 1] \in Int /\ g[k + 1] * g[k + 1] >= 0
      BY <2>3, <3>1, SquareOfInt
    <3>4. i = k + 1 => g[k + 1] * g[k + 1] > 0
      BY <2>2, <2>3, <3>1, SquareOfInt
    <3>. DEFINE z == g[k + 1] * g[k + 1]
    <3>. HIDE DEF z
    <3>5. S[k + 1] = S[k] + z /\ z \in Int /\ z >= 0 /\ (i = k + 1 => z > 0)
      BY <3>2, <3>3, <3>4 DEF z
    <3>6. S[k] >= 0 /\ (i <= k => S[k] > 0)
      BY <2>5
    <3>7. i <= k + 1 => i <= k \/ i = k + 1
      BY <2>2, <2>3
    <3>8. S[k + 1] >= 0 /\ (i <= k + 1 => S[k + 1] > 0)
      BY <3>2, <3>5, <3>6, <3>7
    <3>. QED  BY <3>1, <3>8
  <2>6. 0..m \subseteq A
    <3>. HIDE DEF A
    <3>. QED  BY <2>3, <2>4, <2>5, AllUpTo
  <2>7. S[m] \in Int /\ S[m] > 0
    BY <2>1, <2>2, <2>3, <2>6 DEF DotSums, m
  <2>. QED  BY <1>2, <2>1, <2>7 DEF Square
<1>. QED  BY <1>1, <1>2
-----------------------------------------------------------------------------
(* The order of the grades.                                                *)

LEMMA Multiplied ==
  \A a, b, c \in Int : c > 0 => (a > b <=> a * c > b * c)
OBVIOUS

LEMMA SignedIsInt ==
  ASSUME NEW n \in Int
  PROVE  /\ Signed(n) \in Int
         /\ Signed(n) < 0 <=> n < 0
         /\ Signed(n) > 0 <=> n > 0
         /\ Signed(n) = 0 <=> n = 0
BY DEF Signed

LEMMA AboveTransitive ==
  ASSUME NEW g \in Profile, NEW h \in Profile, NEW k \in Profile, NEW q \in Profile,
         Above(g, h, q), Above(h, k, q)
  PROVE  Above(g, k, q)
<1>1. PICK a, b, c, u, v, w \in Int :
        /\ a = Signed(Dot(g, q)) /\ b = Signed(Dot(h, q)) /\ c = Signed(Dot(k, q))
        /\ u = Square(g) /\ v = Square(h) /\ w = Square(k)
  BY DotIsInt, SignedIsInt, SquarePositive
<1>2. u > 0 /\ v > 0 /\ w > 0
  BY <1>1, SquarePositive
<1>3. a * v > b * u /\ b * w > c * v
  BY <1>1 DEF Above
<1>4. (a * v) * w > (b * u) * w /\ (b * w) * u > (c * v) * u
  BY <1>2, <1>3, Multiplied
<1>5. (b * u) * w = (b * w) * u /\ (a * v) * w = (a * w) * v /\ (c * v) * u = (c * u) * v
  OBVIOUS
<1>6. (a * w) * v > (c * u) * v
  BY <1>4, <1>5
<1>7. a * w > c * u
  <2>1. a * w \in Int /\ c * u \in Int
    OBVIOUS
  <2>. QED  BY <1>2, <1>6, <2>1, Multiplied
<1>. QED  BY <1>1, <1>7 DEF Above

LEMMA AboveZero ==
  ASSUME NEW g \in Profile, NEW q \in Profile
  PROVE  /\ Zero \in Profile /\ Apart(Zero, q) /\ Dot(Zero, q) = 0
         /\ Above(g, Zero, q) <=> Dot(g, q) > 0
         /\ Dot(g, q) = 0 => \A k \in Profile : Above(g, k, q) <=> Dot(k, q) < 0
<1>1. Zero \in Profile /\ Apart(Zero, q)
  BY DEF Zero, Profile, Apart
<1>2. Dot(Zero, q) = 0
  BY <1>1, ApartIsZero
<1>3. Dot(g, q) \in Int /\ Signed(0) = 0 /\ Square(Zero) = 1 /\ Square(g) \in Int
  BY DotIsInt, SquarePositive DEF Signed, Square
<1>4. Above(g, Zero, q) <=> Dot(g, q) > 0
  <2>1. Above(g, Zero, q) <=> Signed(Dot(g, q)) * 1 > 0 * Square(g)
    BY <1>2, <1>3 DEF Above
  <2>. QED  BY <1>3, <2>1, SignedIsInt
<1>5. ASSUME Dot(g, q) = 0, NEW k \in Profile PROVE Above(g, k, q) <=> Dot(k, q) < 0
  <2>1. PICK d, u, v \in Int : d = Signed(Dot(k, q)) /\ u = Square(g) /\ v = Square(k)
    BY <1>3, DotIsInt, SignedIsInt, SquarePositive
  <2>2. u > 0 /\ (d < 0 <=> Dot(k, q) < 0)
    BY <2>1, DotIsInt, SignedIsInt, SquarePositive
  <2>3. Above(g, k, q) <=> 0 * v > d * u
    BY <1>3, <1>5, <2>1 DEF Above
  <2>4. 0 * v = 0 /\ 0 * u = 0
    OBVIOUS
  <2>5. 0 > d <=> 0 * u > d * u
    BY <2>2, Multiplied
  <2>. QED  BY <2>2, <2>3, <2>4, <2>5
<1>. QED  BY <1>1, <1>2, <1>4, <1>5

\* Files and a request of theirs that initialize has read.
Loaded(f, q) == f \in Files /\ Loads(f) /\ q \in Range(f.requests)

LEMMA ProfilesAre ==
  ASSUME NEW f, NEW q, Loaded(f, q)
  PROVE  /\ profile(q) \in Profile
         /\ \A m \in Hit(f, q) : profile(movie(f, m)) \in Profile /\ movie(f, m).title \in Nat
         /\ Profiles(f, q) \subseteq Profile /\ IsFiniteSet(Profiles(f, q))
<1>1. ASSUME NEW s \in Seq(Int), Len(s) >= NUM_OF_GENRE PROVE SubSeq(s, 1, NUM_OF_GENRE) \in Profile
  <2>1. NUM_OF_GENRE \in Nat /\ Len(s) \in Nat /\ \A k \in 1..Len(s) : s[k] \in Int
    BY LimitAssumption
  <2>2. PICK m \in Nat : m = NUM_OF_GENRE
    BY <2>1
  <2>3. SubSeq(s, 1, m) \in Seq(Int) /\ Len(SubSeq(s, 1, m)) = m
    <3>1. m >= 1 /\ m - 1 + 1 = m
      BY <2>2, LimitAssumption
    <3>2. \A k \in 1..m : s[k] \in Int
      BY <1>1, <2>1, <2>2
    <3>. QED  BY <3>1, <3>2, SubSeqProperties
  <2>4. \A x \in Seq(Int) : x \in [1..Len(x) -> Int]
    OBVIOUS
  <2>. QED  BY <2>2, <2>3, <2>4 DEF Profile
<1>2. /\ f.lines \in Seq(Line) /\ f.requests \in Seq(Query)
      /\ num_of(f) \in Int /\ Hit(f, q) \subseteq 1..num_of(f)
  BY HitFinite DEF Loaded, Files
<1>3. q \in Query /\ HasGenres(q)
  <2>1. \A k \in 1..Len(f.requests) : f.requests[k] \in Query
    BY <1>2
  <2>2. q \in Query
    BY <1>2, <2>1 DEF Loaded, Range
  <2>. QED  BY <2>2 DEF Loaded, Loads
<1>4. profile(q) \in Profile
  BY <1>1, <1>3 DEF profile, HasGenres, Query
<1>5. ASSUME NEW m \in Hit(f, q) PROVE profile(movie(f, m)) \in Profile /\ movie(f, m).title \in Nat
  <2>1. m \in 1..num_of(f) /\ HasGenres(movie(f, m))
    BY <1>2 DEF Loaded, Loads
  <2>2. m + 1 \in 1..Len(f.lines)
    BY <1>2, <2>1 DEF num_of
  <2>3. movie(f, m) \in Line
    BY <1>2, <2>2 DEF movie
  <2>. QED  BY <1>1, <2>1, <2>3 DEF profile, HasGenres, Line
<1>6. Profiles(f, q) \subseteq Profile
  BY <1>5 DEF Profiles
<1>7. IsFiniteSet(Profiles(f, q))
  <2>. DEFINE P == Profiles(f, q)
              F == [m \in Hit(f, q) |-> profile(movie(f, m))]
  <2>1. F \in Surjection(Hit(f, q), P)
    BY DEF Surjection, Profiles
  <2>2. IsFiniteSet(Hit(f, q))
    BY HitFinite DEF Loaded
  <2>. HIDE DEF F, P
  <2>. QED  BY <2>1, <2>2, FS_Surjection DEF P
<1>. QED  BY <1>4, <1>5, <1>6, <1>7
\* How many profiles the one of a grade is above.
Below(f, q, g) == Cardinality({k \in Profiles(f, q) \cup {Zero} : Above(g, k, profile(q))})

LEMMA GradeIs ==
  ASSUME NEW f, NEW q, Loaded(f, q), NEW rounding \in Roundings(f, q), NEW g
  PROVE  /\ Below(f, q, g) \in Nat /\ Below(f, q, Zero) \in Nat
         /\ \E e \in {-1, 0, 1} :
              /\ grade(f, q, rounding, g) = 3 * (Below(f, q, g) - Below(f, q, Zero)) + e
              /\ g \notin Rounded(f, q) => e = 0
<1>. DEFINE K == Profiles(f, q) \cup {Zero}
            e == IF g \in DOMAIN rounding THEN rounding[g] ELSE 0
<1>1. IsFiniteSet(K)
  BY ProfilesAre, FS_AddElement
<1>2. ASSUME NEW h PROVE Below(f, q, h) \in Nat
  <2>. DEFINE B == {k \in K : Above(h, k, profile(q))}
  <2>1. B \subseteq K
    OBVIOUS
  <2>2. Below(f, q, h) = Cardinality(B)
    BY DEF Below
  <2>. HIDE DEF B, K
  <2>. QED  BY <1>1, <2>1, <2>2, FS_Subset, FS_CardinalityType
<1>3. e \in {-1, 0, 1} /\ (g \notin Rounded(f, q) => e = 0)
  BY DEF Roundings
<1>4. grade(f, q, rounding, g) = 3 * (Below(f, q, g) - Below(f, q, Zero)) + e
  BY DEF grade, Below
<1>. HIDE DEF e
<1>. QED  BY <1>2, <1>3, <1>4

\* A profile above another is above more profiles.
LEMMA AboveMore ==
  ASSUME NEW f, NEW q, Loaded(f, q), NEW g \in Profile,
         NEW h \in Profiles(f, q) \cup {Zero}, Above(g, h, profile(q))
  PROVE  Below(f, q, h) < Below(f, q, g)
<1>. DEFINE K == Profiles(f, q) \cup {Zero}
            G == {k \in K : Above(g, k, profile(q))}
            H == {k \in K : Above(h, k, profile(q))}
<1>1. IsFiniteSet(K) /\ K \subseteq Profile /\ profile(q) \in Profile /\ h \in Profile
  <2>1. Zero \in Profile
    BY DEF Zero, Profile
  <2>2. IsFiniteSet(K)
    BY ProfilesAre, FS_AddElement
  <2>3. Profiles(f, q) \subseteq Profile /\ profile(q) \in Profile
    BY ProfilesAre
  <2>. QED  BY <2>1, <2>2, <2>3
<1>2. H \subseteq G
  BY <1>1, AboveTransitive
<1>3. h \in G /\ h \notin H
  <2>1. ~Above(h, h, profile(q))
    <3>1. Signed(Dot(h, profile(q))) * Square(h) \in Int
      BY <1>1, DotIsInt, SignedIsInt, SquarePositive
    <3>. QED  BY <3>1 DEF Above
  <2>. QED  BY <2>1
<1>4. G \subseteq K
  OBVIOUS
<1>5. Below(f, q, g) = Cardinality(G) /\ Below(f, q, h) = Cardinality(H)
  BY DEF Below
<1>. HIDE DEF G, H, K
<1>6. IsFiniteSet(G) /\ Cardinality(G) \in Nat
  BY <1>1, <1>4, FS_Subset, FS_CardinalityType
<1>7. Cardinality(H) \in Nat /\ Cardinality(H) <= Cardinality(G) /\ Cardinality(H) # Cardinality(G)
  <2>1. IsFiniteSet(H) /\ Cardinality(H) <= Cardinality(G) /\ (Cardinality(H) = Cardinality(G) => H = G)
    BY <1>2, <1>6, FS_Subset
  <2>. QED  BY <1>3, <2>1, FS_CardinalityType
<1>. QED  BY <1>5, <1>6, <1>7

\* Whatever is lost in rounding, a higher grade is a greater number,
LEMMA HigherGrade ==
  ASSUME NEW f, NEW q, Loaded(f, q), NEW rounding \in Roundings(f, q),
         NEW g \in Profile, NEW h \in Profiles(f, q), Above(g, h, profile(q))
  PROVE  grade(f, q, rounding, g) > grade(f, q, rounding, h)
<1>1. PICK d \in {-1, 0, 1} : grade(f, q, rounding, g) = 3 * (Below(f, q, g) - Below(f, q, Zero)) + d
  BY GradeIs
<1>2. PICK e \in {-1, 0, 1} : grade(f, q, rounding, h) = 3 * (Below(f, q, h) - Below(f, q, Zero)) + e
  BY GradeIs
<1>3. Below(f, q, g) \in Nat /\ Below(f, q, h) \in Nat /\ Below(f, q, Zero) \in Nat
  BY GradeIs
<1>4. Below(f, q, h) < Below(f, q, g)
  BY AboveMore
<1>. QED  BY <1>1, <1>2, <1>3, <1>4

\* a profile without a genre of the request has the grade 0,
LEMMA ApartGrade ==
  ASSUME NEW f, NEW q, Loaded(f, q), NEW rounding \in Roundings(f, q),
         NEW g \in Profile, Apart(g, profile(q))
  PROVE  grade(f, q, rounding, g) = 0
<1>1. profile(q) \in Profile /\ Profiles(f, q) \subseteq Profile
  BY ProfilesAre
<1>2. Dot(g, profile(q)) = 0 /\ Dot(Zero, profile(q)) = 0 /\ Zero \in Profile
  BY <1>1, ApartIsZero, AboveZero
<1>3. \A k \in Profiles(f, q) \cup {Zero} : Above(g, k, profile(q)) <=> Above(Zero, k, profile(q))
  BY <1>1, <1>2, AboveZero
<1>4. Below(f, q, g) = Below(f, q, Zero)
  <2>1. {k \in Profiles(f, q) \cup {Zero} : Above(g, k, profile(q))}
          = {k \in Profiles(f, q) \cup {Zero} : Above(Zero, k, profile(q))}
    BY <1>3
  <2>. QED  BY <2>1 DEF Below
<1>5. g \notin Rounded(f, q)
  BY <1>2 DEF Rounded, Cancels
<1>6. Below(f, q, Zero) \in Nat
  BY GradeIs
<1>. QED  BY <1>4, <1>5, <1>6, GradeIs

\* and no grade is below 0 if none can come out below 0.
LEMMA GradeNotNegative ==
  ASSUME NEW f, NEW q, Loaded(f, q), NEW rounding \in Roundings(f, q), ~MayBeNegative(f, q),
         NEW g \in Profiles(f, q)
  PROVE  grade(f, q, rounding, g) \in Int /\ grade(f, q, rounding, g) >= 0
<1>1. profile(q) \in Profile /\ g \in Profile
  BY ProfilesAre
<1>2. Dot(g, profile(q)) \in Int /\ ~(Dot(g, profile(q)) < 0) /\ ~Cancels(g, profile(q))
  BY <1>1, DotIsInt DEF MayBeNegative
<1>3. CASE Dot(g, profile(q)) = 0
  BY <1>1, <1>2, <1>3, ApartGrade DEF Cancels
<1>4. CASE Dot(g, profile(q)) > 0
  <2>1. Below(f, q, Zero) < Below(f, q, g)
    BY <1>1, <1>4, AboveZero, AboveMore
  <2>2. PICK e \in {-1, 0, 1} : grade(f, q, rounding, g) = 3 * (Below(f, q, g) - Below(f, q, Zero)) + e
    BY GradeIs
  <2>3. Below(f, q, g) \in Nat /\ Below(f, q, Zero) \in Nat
    BY GradeIs
  <2>. QED  BY <2>1, <2>2, <2>3
<1>. QED  BY <1>2, <1>3, <1>4

\* Entry x is one that a filter made, marked or not.
Of(f, q, rounding, x) ==
  /\ x \in Entry /\ x.movie \in Hit(f, q)
  /\ x.title = movie(f, x.movie).title
  /\ x.pts = grade(f, q, rounding, profile(movie(f, x.movie)))

\* A movie that belongs before another has the better entry.
LEMMA BeforeIsBetter ==
  ASSUME NEW f, NEW q, Loaded(f, q), NEW rounding \in Roundings(f, q),
         NEW x, NEW y, Of(f, q, rounding, x), Of(f, q, rounding, y),
         Before(f, q, x.movie, y.movie)
  PROVE  Better(x, y)
<1>. DEFINE g == profile(movie(f, x.movie))
            h == profile(movie(f, y.movie))
<1>1. /\ x.movie \in Hit(f, q) /\ y.movie \in Hit(f, q)
      /\ x.pts = grade(f, q, rounding, g) /\ y.pts = grade(f, q, rounding, h)
      /\ x.title = movie(f, x.movie).title /\ y.title = movie(f, y.movie).title
  BY DEF Of
<1>2. /\ g \in Profile /\ h \in Profile /\ h \in Profiles(f, q)
  BY <1>1, ProfilesAre DEF Profiles
<1>3. \/ Above(g, h, profile(q))
      \/ /\ g = h \/ (Apart(g, profile(q)) /\ Apart(h, profile(q)))
         /\ movie(f, x.movie).title < movie(f, y.movie).title
  BY DEF Before
<1>. HIDE DEF g, h
<1>4. CASE Above(g, h, profile(q))
  BY <1>1, <1>2, <1>4, HigherGrade DEF Better
<1>5. CASE g = h \/ (Apart(g, profile(q)) /\ Apart(h, profile(q)))
  <2>1. x.pts = y.pts
    BY <1>1, <1>2, <1>5, ApartGrade
  <2>. QED  BY <1>1, <1>3, <1>4, <2>1 DEF Better
<1>. QED  BY <1>3, <1>4, <1>5

\* The entries of a filter are of that kind, and not marked.
LEMMA MatchesAre ==
  ASSUME NEW f, NEW q, Loaded(f, q), NEW rounding \in Roundings(f, q)
  PROVE  \A k \in 1..Cardinality(Hit(f, q)) :
           /\ Of(f, q, rounding, Matches(f, q, rounding)[k])
           /\ Matches(f, q, rounding)[k].secrets = 0
<1>. SUFFICES ASSUME NEW k \in 1..Cardinality(Hit(f, q))
     PROVE /\ Of(f, q, rounding, Matches(f, q, rounding)[k])
           /\ Matches(f, q, rounding)[k].secrets = 0
  OBVIOUS
<1>. DEFINE H == Hit(f, q)
            c == Cardinality(H)
            At(j) == CHOOSE m \in H : Cardinality({x \in H : x < m}) = j - 1
            G(m) == [movie |-> m, title |-> movie(f, m).title,
                     pts |-> grade(f, q, rounding, profile(movie(f, m))), secrets |-> 0]
<1>1. Matches(f, q, rounding) = [j \in 1..c |-> G(At(j))]
  BY DEF Matches
<1>2. Matches(f, q, rounding)[k] = G(At(k))
  BY <1>1
<1>. HIDE DEF At
<1>3. /\ Matches(f, q, rounding)[k].movie = At(k)
      /\ Matches(f, q, rounding)[k].title = movie(f, At(k)).title
      /\ Matches(f, q, rounding)[k].pts = grade(f, q, rounding, profile(movie(f, At(k))))
      /\ Matches(f, q, rounding)[k].secrets = 0
  BY <1>2
<1>4. Matches(f, q, rounding)[k] \in Entry
  BY MatchesAll DEF Loaded
<1>5. At(k) \in H
  <2>1. IsComplete(Matches(f, q, rounding), f, q)
    BY MatchesAll, AnswerOfAll DEF Loaded
  <2>2. Len(Matches(f, q, rounding)) = c
    BY MatchesAll DEF Loaded
  <2>3. Matches(f, q, rounding)[k].movie \in H
    BY <2>1, <2>2 DEF IsComplete
  <2>. QED  BY <1>3, <2>3
<1>. QED  BY <1>3, <1>4, <1>5 DEF Of
-----------------------------------------------------------------------------
(* Sorting.  An array is in order when no entry is better than one before  *)
(* it.                                                                     *)

NotWorse(x, y) == ~Better(y, x)

Ordered(w, from, to) == \A i, j \in from..to : i < j => NotWorse(w[i], w[j])

Marked(w, from, to) == \A i \in from..to : w[i].secrets = 1
Unmarked(w, from, to) == \A i \in from..to : w[i].secrets = 0

LEMMA NotWorseOrder ==
  ASSUME NEW x \in Entry, NEW y \in Entry, NEW z \in Entry
  PROVE  /\ NotWorse(x, y) /\ NotWorse(y, z) => NotWorse(x, z)
         /\ Better(x, y) => NotWorse(x, y)
         /\ NotWorse(x, x)
<1>1. /\ x.pts \in Int /\ y.pts \in Int /\ z.pts \in Int
      /\ x.title \in Nat /\ y.title \in Nat /\ z.title \in Nat
  BY DEF Entry
<1>. QED  BY <1>1 DEF NotWorse, Better

\* Marking an entry leaves it in its place.
LEMMA MarkedOrder ==
  ASSUME NEW x \in Entry, NEW y
  PROVE  /\ NotWorse(add_secret(x), y) <=> NotWorse(x, y)
         /\ NotWorse(y, add_secret(x)) <=> NotWorse(y, x)
         /\ add_secret(x) \in Entry /\ add_secret(x).secrets = x.secrets + 1
<1>1. /\ add_secret(x).pts = x.pts /\ add_secret(x).title = x.title
      /\ add_secret(x) \in Entry /\ add_secret(x).secrets = x.secrets + 1
  BY DEF add_secret, Entry
<1>. QED  BY <1>1 DEF NotWorse, Better

\* What sort has done to the slots from start to end when it is at k: those
\* before k are marked, in order, and not worse than any behind them.
SortedTo(w, start, k, end) ==
  /\ \A i \in start..(k - 1), j \in start..end : i < j => NotWorse(w[i], w[j])
  /\ Marked(w, start, k - 1)
  /\ Unmarked(w, k, end)

LEMMA SortGoesOn ==
  ASSUME NEW S, S \subseteq Int, NEW q \in [S -> Entry], NEW start \in Int, NEW k \in Int,
         NEW end \in Int, start <= k, k <= end, start..end \subseteq S, SortedTo(q, start, k, end)
  PROVE  SortedTo(SortAt(q, k, end), start, k + 1, end)
<1>. DEFINE w == SortAt(q, k, end)
<1>1. Swapped(S, q, k, end, w)
  <2>1. k..end \subseteq S
    OBVIOUS
  <2>. QED  BY <2>1, SortSwaps
<1>. HIDE DEF w
<1>2. PICK best \in k..end :
        /\ First(q, k, end, best)
        /\ w \in [S -> Entry]
        /\ w[k] = add_secret(q[best])
        /\ best # k => w[best] = q[k]
        /\ \A j \in S : j # k /\ j # best => w[j] = q[j]
  BY <1>1 DEF Swapped
<1>3. /\ \A i \in start..end : i \in S /\ q[i] \in Entry /\ w[i] \in Entry
      /\ best \in start..end /\ k \in start..end /\ best \in Int
  BY <1>2
<1>4. ASSUME NEW j \in k..end PROVE NotWorse(q[best], q[j])
  <2>1. Better(q[best], q[j]) \/ ~Better(q[j], q[best])
    BY <1>2 DEF First
  <2>2. q[best] \in Entry /\ q[j] \in Entry
    BY <1>3
  <2>. QED  BY <2>1, <2>2, NotWorseOrder DEF NotWorse
\* What is now behind k was there before.
<1>5. ASSUME NEW j \in (k + 1)..end PROVE \E b \in k..end : w[j] = q[b]
  <2>1. CASE j = best
    BY <1>2, <1>5, <2>1
  <2>2. CASE j # best
    BY <1>2, <1>3, <1>5, <2>2
  <2>. QED  BY <2>1, <2>2
<1>6. ASSUME NEW i \in start..k, NEW j \in start..end, i < j PROVE NotWorse(w[i], w[j])
  <2>1. CASE i = k
    <3>1. PICK b \in k..end : w[j] = q[b]
      BY <1>5, <1>6, <2>1
    <3>2. NotWorse(q[best], q[b])
      BY <1>4
    <3>. QED  BY <1>2, <1>3, <2>1, <3>1, <3>2, MarkedOrder
  <2>2. CASE i # k
    <3>1. i \in start..(k - 1) /\ w[i] = q[i]
      BY <1>2, <1>3, <1>6, <2>2
    <3>2. CASE j = k
      <4>1. NotWorse(q[i], q[best])
        <5>1. i < best
          BY <1>2, <3>1
        <5>. QED  BY <1>3, <3>1, <5>1 DEF SortedTo
      <4>. QED  BY <1>2, <1>3, <3>1, <3>2, <4>1, MarkedOrder
    <3>3. CASE j < k
      <4>1. w[j] = q[j]
        BY <1>2, <1>3, <3>3
      <4>. QED  BY <1>6, <3>1, <4>1 DEF SortedTo
    <3>4. CASE j > k
      <4>1. PICK b \in k..end : w[j] = q[b]
        BY <1>5, <3>4
      <4>2. b \in start..end /\ i < b
        BY <3>1, <4>1
      <4>. QED  BY <3>1, <4>1, <4>2 DEF SortedTo
    <3>. QED  BY <3>2, <3>3, <3>4
  <2>. QED  BY <2>1, <2>2
<1>7. Marked(w, start, k)
  <2>. SUFFICES ASSUME NEW i \in start..k PROVE w[i].secrets = 1
    BY DEF Marked
  <2>1. CASE i = k
    <3>1. q[best].secrets = 0
      BY <1>2 DEF SortedTo, Unmarked
    <3>. QED  BY <1>2, <1>3, <2>1, <3>1, MarkedOrder
  <2>2. CASE i # k
    <3>1. i \in start..(k - 1) /\ w[i] = q[i]
      BY <1>2, <1>3, <2>2
    <3>. QED  BY <3>1 DEF SortedTo, Marked
  <2>. QED  BY <2>1, <2>2
<1>8. Unmarked(w, k + 1, end)
  <2>. SUFFICES ASSUME NEW j \in (k + 1)..end PROVE w[j].secrets = 0
    BY DEF Unmarked
  <2>1. PICK b \in k..end : w[j] = q[b]
    BY <1>5
  <2>. QED  BY <2>1 DEF SortedTo, Unmarked
<1>9. (k + 1) - 1 = k
  OBVIOUS
<1>. QED  BY <1>6, <1>7, <1>8, <1>9 DEF SortedTo, w

\* What a merge has done when it is at l of l..le and at s of s..re: what it
\* has taken is in order and not worse than what it has not.
MergedTo(w, t, l, le, s, re) ==
  /\ Ordered(w, l, le) /\ Marked(w, l, le)
  /\ Ordered(w, s, re) /\ Marked(w, s, re)
  /\ Ordered(t, 1, Len(t)) /\ Marked(t, 1, Len(t))
  /\ \A i \in 1..Len(t) : /\ \A j \in l..le : NotWorse(t[i], w[j])
                          /\ \A j \in s..re : NotWorse(t[i], w[j])

\* It takes the entry at k.
TakesBetter(w, l, le, s, re, k, l2, s2) ==
  \/ /\ k = l /\ l <= le /\ l2 = l + 1 /\ s2 = s
     /\ s <= re => Better(w[l], w[s])
  \/ /\ k = s /\ s <= re /\ l2 = l /\ s2 = s + 1
     /\ l <= le => ~Better(w[l], w[s])

LEMMA MergeGoesOn ==
  ASSUME NEW S, S \subseteq Int, NEW w \in [S -> Entry], NEW t \in Seq(Entry),
         NEW l \in Int, NEW le \in Int, NEW s \in Int, NEW re \in Int,
         l..le \subseteq S, s..re \subseteq S, MergedTo(w, t, l, le, s, re),
         NEW k, NEW l2, NEW s2, TakesBetter(w, l, le, s, re, k, l2, s2)
  PROVE  w[k] \in Entry /\ MergedTo(w, Append(t, w[k]), l2, le, s2, re)
<1>1. /\ l2 \in Int /\ s2 \in Int /\ l <= l2 /\ s <= s2
      /\ k \in (l..le) \cup (s..re)
  BY DEF TakesBetter
<1>2. /\ \A j \in l..le : w[j] \in Entry
      /\ \A j \in s..re : w[j] \in Entry
      /\ w[k] \in Entry
  BY <1>1
<1>3. w[k].secrets = 1
  BY <1>1 DEF MergedTo, Marked
\* The entry at k is not worse than those that remain.
<1>4. \A j \in l2..le : NotWorse(w[k], w[j])
  <2>. SUFFICES ASSUME NEW j \in l2..le PROVE NotWorse(w[k], w[j])
    OBVIOUS
  <2>1. CASE k = l /\ l <= le /\ l2 = l + 1
    BY <2>1 DEF MergedTo, Ordered
  <2>2. CASE k = s /\ s <= re /\ l2 = l /\ (l <= le => ~Better(w[l], w[s]))
    <3>1. l <= le /\ NotWorse(w[s], w[l])
      BY <2>2 DEF NotWorse
    <3>2. j = l \/ NotWorse(w[l], w[j])
      BY <2>2 DEF MergedTo, Ordered
    <3>3. w[s] \in Entry /\ w[l] \in Entry /\ w[j] \in Entry
      BY <1>2, <2>2, <3>1
    <3>. QED  BY <2>2, <3>1, <3>2, <3>3, NotWorseOrder
  <2>. QED  BY <2>1, <2>2 DEF TakesBetter
<1>5. \A j \in s2..re : NotWorse(w[k], w[j])
  <2>. SUFFICES ASSUME NEW j \in s2..re PROVE NotWorse(w[k], w[j])
    OBVIOUS
  <2>1. CASE k = s /\ s <= re /\ s2 = s + 1
    BY <2>1 DEF MergedTo, Ordered
  <2>2. CASE k = l /\ l <= le /\ s2 = s /\ (s <= re => Better(w[l], w[s]))
    <3>1. s <= re
      BY <2>2
    <3>2. w[s] \in Entry /\ w[l] \in Entry /\ w[j] \in Entry
      BY <1>2, <2>2, <3>1
    <3>3. NotWorse(w[l], w[s])
      BY <2>2, <3>1, <3>2, NotWorseOrder
    <3>4. j = s \/ NotWorse(w[s], w[j])
      BY <2>2 DEF MergedTo, Ordered
    <3>. QED  BY <2>2, <3>2, <3>3, <3>4, NotWorseOrder
  <2>. QED  BY <2>1, <2>2 DEF TakesBetter
<1>. DEFINE u == Append(t, w[k])
<1>6. /\ Len(t) \in Nat /\ Len(u) = Len(t) + 1 /\ u[Len(t) + 1] = w[k]
      /\ \A i \in 1..Len(t) : u[i] = t[i]
  BY <1>2
<1>. HIDE DEF u
<1>7. \A i \in 1..Len(u) : i = Len(t) + 1 \/ i \in 1..Len(t)
  BY <1>6
<1>8. Marked(u, 1, Len(u))
  BY <1>3, <1>6, <1>7 DEF Marked, MergedTo
<1>9. Ordered(u, 1, Len(u))
  <2>. SUFFICES ASSUME NEW i \in 1..Len(u), NEW j \in 1..Len(u), i < j PROVE NotWorse(u[i], u[j])
    BY DEF Ordered
  <2>1. i \in 1..Len(t) /\ u[i] = t[i]
    BY <1>6
  <2>2. CASE j \in 1..Len(t)
    BY <1>6, <2>1, <2>2 DEF MergedTo, Ordered
  <2>3. CASE j = Len(t) + 1
    BY <1>1, <1>6, <2>1, <2>3 DEF MergedTo
  <2>. QED  BY <1>7, <2>2, <2>3
<1>10. ASSUME NEW i \in 1..Len(u)
       PROVE  (\A j \in l2..le : NotWorse(u[i], w[j])) /\ (\A j \in s2..re : NotWorse(u[i], w[j]))
  <2>1. CASE i \in 1..Len(t)
    <3>1. l2..le \subseteq l..le /\ s2..re \subseteq s..re
      BY <1>1
    <3>. QED  BY <1>6, <2>1, <3>1 DEF MergedTo
  <2>2. CASE i = Len(t) + 1
    BY <1>4, <1>5, <1>6, <2>2
  <2>. QED  BY <1>7, <2>1, <2>2
<1>11. Ordered(w, l2, le) /\ Marked(w, l2, le) /\ Ordered(w, s2, re) /\ Marked(w, s2, re)
  <2>1. l2..le \subseteq l..le /\ s2..re \subseteq s..re
    BY <1>1
  <2>. QED  BY <2>1 DEF MergedTo, Ordered, Marked
<1>. QED  BY <1>2, <1>8, <1>9, <1>10, <1>11 DEF MergedTo, u

\* What is in an array that got one more entry.
LEMMA OneMore ==
  ASSUME NEW t \in Seq(Entry), NEW v \in Entry, NEW g \in 1..Len(Append(t, v))
  PROVE  Append(t, v)[g] = v \/ (g \in 1..Len(t) /\ Append(t, v)[g] = t[g])
<1>1. Len(Append(t, v)) = Len(t) + 1 /\ Len(t) \in Nat
  OBVIOUS
<1>2. CASE g = Len(t) + 1
  BY <1>2
<1>3. CASE g # Len(t) + 1
  <2>1. g \in 1..Len(t)
    BY <1>1, <1>3
  <2>. QED  BY <2>1
<1>. QED  BY <1>2, <1>3

\* An answer of entries that a filter made, in order and marked, is what it
\* should be.
LEMMA AnswerInOrder ==
  ASSUME NEW f, NEW q, Loaded(f, q), NEW rounding \in Roundings(f, q), NEW answer,
         \A k \in 1..Len(answer) : Of(f, q, rounding, answer[k]),
         Ordered(answer, 1, Len(answer)), Marked(answer, 1, Len(answer))
  PROVE  IsSorted(answer, f, q)
<1>1. ASSUME NEW j \in 1..Len(answer), NEW k \in 1..Len(answer), j < k
      PROVE  ~Before(f, q, answer[k].movie, answer[j].movie)
  <2>1. ~Better(answer[k], answer[j])
    BY <1>1 DEF Ordered, NotWorse
  <2>. QED  BY <2>1, BeforeIsBetter
<1>. QED  BY <1>1 DEF IsSorted, Marked
=============================================================================
