--------------------------- MODULE ThreadSortProofs --------------------------
(***************************************************************************)
(* Theorems about tserver of hw4: whatever the number of movies, levels    *)
(* and threads, and of requests with a row of the tables each, two threads *)
(* that sort a row never work on the same slot, no answer loses or repeats *)
(* a movie, and the answer of a request that got all its threads is in     *)
(* order.                                                                  *)
(***************************************************************************)
EXTENDS ThreadSort, MovieSortProofs

-----------------------------------------------------------------------------
(* The tree of pieces.                                                     *)

\* Pieces that may be split.
Inner == {n \in Node : Len(n) <= MaxLevel}

LEMMA NodeSeq == \A n : n \in Node <=> n \in Seq({0, 1}) /\ Len(n) <= MaxLevel + 1
<1>. SUFFICES ASSUME NEW n PROVE n \in Node <=> n \in Seq({0, 1}) /\ Len(n) <= MaxLevel + 1
  OBVIOUS
<1>1. ASSUME n \in Node PROVE n \in Seq({0, 1}) /\ Len(n) <= MaxLevel + 1
  <2>1. PICK k \in 0..(MaxLevel + 1) : n \in [1..k -> {0, 1}]
    BY <1>1 DEF Node
  <2>2. k \in Nat /\ MaxLevel \in Nat
    BY SortAssumption
  <2>3. n \in Seq({0, 1}) /\ Len(n) = k
    BY <2>1, <2>2
  <2>. QED  BY <2>2, <2>3
<1>2. ASSUME n \in Seq({0, 1}), Len(n) <= MaxLevel + 1 PROVE n \in Node
  <2>1. n \in [1..Len(n) -> {0, 1}] /\ Len(n) \in Nat
    BY <1>2
  <2>2. Len(n) \in 0..(MaxLevel + 1)
    BY <1>2, <2>1, SortAssumption
  <2>. QED  BY <2>1, <2>2 DEF Node
<1>. QED  BY <1>1, <1>2

LEMMA Children ==
  ASSUME NEW n \in Inner
  PROVE  /\ n \in Node
         /\ Left(n) \in Node /\ Right(n) \in Node
         /\ Len(Left(n)) = Len(n) + 1 /\ Len(Right(n)) = Len(n) + 1
         /\ Left(n) # Right(n) /\ Left(n) # n /\ Right(n) # n
<1>1. n \in Node /\ n \in Seq({0, 1}) /\ Len(n) <= MaxLevel
  BY NodeSeq DEF Inner
<1>2. Left(n) \in Seq({0, 1}) /\ Right(n) \in Seq({0, 1})
  BY <1>1 DEF Left, Right
<1>3. Len(Left(n)) = Len(n) + 1 /\ Len(Right(n)) = Len(n) + 1
  BY <1>1 DEF Left, Right
<1>4. Left(n) \in Node /\ Right(n) \in Node
  BY <1>1, <1>2, <1>3, NodeSeq, SortAssumption
<1>5. Left(n)[Len(n) + 1] = 0 /\ Right(n)[Len(n) + 1] = 1
  BY <1>1 DEF Left, Right
<1>6. Left(n) # n /\ Right(n) # n
  BY <1>1, <1>3
<1>. QED  BY <1>1, <1>3, <1>4, <1>5, <1>6

\* Is m a half of n?
Half(m, n) == m = Left(n) \/ m = Right(n)

LEMMA OneParent ==
  ASSUME NEW n \in Inner, NEW p \in Inner, NEW m, Half(m, n), Half(m, p)
  PROVE  n = p
<1>1. n \in Seq({0, 1}) /\ p \in Seq({0, 1})
  BY NodeSeq DEF Inner
<1>2. \E a, b \in {0, 1} : Append(n, a) = Append(p, b)
  BY DEF Half, Left, Right
<1>3. PICK a, b \in {0, 1} : Append(n, a) = Append(p, b)
  BY <1>2
<1>. QED  BY <1>1, <1>3

LEMMA RootIsNoHalf ==
  /\ Root \in Node
  /\ Len(Root) = 0
  /\ \A n \in Inner : ~Half(Root, n)
<1>1. Root \in Seq({0, 1}) /\ Len(Root) = 0
  BY DEF Root
<1>2. Root \in Node
  <2>1. 0 <= MaxLevel + 1
    BY SortAssumption
  <2>2. Root \in Node <=> Root \in Seq({0, 1}) /\ Len(Root) <= MaxLevel + 1
    BY NodeSeq
  <2>. QED  BY <1>1, <2>1, <2>2
<1>3. ASSUME NEW n \in Inner PROVE ~Half(Root, n)
  BY <1>1, Children DEF Half, Inner, Node
<1>. QED  BY <1>1, <1>2, <1>3

-----------------------------------------------------------------------------
(* The inductive invariant, for one row: c says where the call on each of  *)
(* its pieces is, q what the pieces are.                                   *)

State == {"idle", "start", "sort", "mark", "join", "merge", "copy", "done"}
Working == {"start", "sort", "mark", "merge", "copy"}
Piece == [start : Int, end : Int, level : Int]

Within(k, p) == p.start <= k /\ k <= p.end

\* A piece owns its slots while its call works on them, and, when its parent
\* waits for it, before it has begun and after it is done.
Owns(c, n) ==
  \/ c[n] \in Working
  \/ c[n] \in {"idle", "done"} /\ \E p \in Inner : c[p] = "join" /\ Half(n, p)

RowTyped(c, q) == c \in [Node -> State] /\ q \in [Node -> Piece]

RowDisjoint(c, q) ==
  \A m, n \in Node : m # n /\ Owns(c, m) /\ Owns(c, n) =>
    \A k \in Int : ~(Within(k, q[m]) /\ Within(k, q[n]))

Levels(c, q) ==
  \A n \in Node : /\ c[n] # "idle" => q[n].level = Len(n)
                  /\ c[n] \in {"join", "merge"} => n \in Inner

\* What the halves of a piece that is not at its join do.
Resting(c) ==
  \A n \in Inner :
    /\ c[n] \in {"idle", "start"} => c[Left(n)] = "idle" /\ c[Right(n)] = "idle"
    /\ c[n] \in {"sort", "mark", "merge", "copy", "done"} =>
         c[Left(n)] \in {"idle", "done"} /\ c[Right(n)] \in {"idle", "done"}

\* While a piece waits its halves are still halves.
Halved(c, q) ==
  \A n \in Inner : c[n] = "join" =>
    /\ q[Left(n)].start = q[n].start
    /\ q[Right(n)].start = q[Left(n)].end + 1
    /\ q[Right(n)].end = q[n].end

RowInv(c, q) ==
  RowTyped(c, q) /\ RowDisjoint(c, q) /\ Levels(c, q) /\ Resting(c) /\ Halved(c, q)

\* A call goes on with its own piece, or ends.
LEMMA GoesOn ==
  ASSUME NEW c, NEW q, RowInv(c, q), NEW n \in Node, c[n] \in Working,
         NEW s \in {"sort", "mark", "merge", "copy", "done"}, s = "merge" => c[n] = "merge"
  PROVE  RowInv([c EXCEPT ![n] = s], q)
<1>. DEFINE d == [c EXCEPT ![n] = s]
<1>1. c \in [Node -> State] /\ q \in [Node -> Piece]
  BY DEF RowInv, RowTyped
<1>2. d \in [Node -> State] /\ d[n] = s /\ \A m \in Node : m # n => d[m] = c[m]
  BY <1>1 DEF State
<1>. HIDE DEF d
<1>3. ASSUME NEW m \in Node, Owns(d, m) PROVE Owns(c, m)
  BY <1>2, <1>3, Children DEF Owns, Working, Inner
<1>4. RowDisjoint(d, q)
  BY <1>3 DEF RowInv, RowDisjoint
<1>5. Levels(d, q)
  BY <1>2 DEF RowInv, Levels, Working
<1>6. Resting(d)
  <2>. SUFFICES ASSUME NEW p \in Inner
       PROVE /\ d[p] \in {"idle", "start"} => d[Left(p)] = "idle" /\ d[Right(p)] = "idle"
             /\ d[p] \in {"sort", "mark", "merge", "copy", "done"} =>
                  d[Left(p)] \in {"idle", "done"} /\ d[Right(p)] \in {"idle", "done"}
    BY DEF Resting
  <2>1. /\ c[p] \in {"idle", "start"} => c[Left(p)] = "idle" /\ c[Right(p)] = "idle"
        /\ c[p] \in {"sort", "mark", "merge", "copy", "done"} =>
             c[Left(p)] \in {"idle", "done"} /\ c[Right(p)] \in {"idle", "done"}
    BY DEF RowInv, Resting
  <2>2. p \in Node /\ Left(p) \in Node /\ Right(p) \in Node /\ Left(p) # p /\ Right(p) # p
    BY Children
  <2>3. CASE p = n
    BY <1>2, <2>1, <2>2, <2>3 DEF Working
  <2>4. CASE p # n
    <3>1. d[p] = c[p]
      BY <1>2, <2>2, <2>4
    <3>2. Half(n, p) => c[p] = "join"
      BY <1>1, <2>1, <2>2 DEF Half, Working, State
    <3>. QED  BY <1>2, <2>1, <2>2, <3>1, <3>2 DEF Half
  <2>. QED  BY <2>3, <2>4
<1>7. Halved(d, q)
  BY <1>2, Children DEF RowInv, Halved
<1>. QED  BY <1>1, <1>2, <1>4, <1>5, <1>6, <1>7 DEF RowInv, RowTyped, d

\* A merge advances the start of a half, which nobody works on.
LEMMA Advances ==
  ASSUME NEW c, NEW q, RowInv(c, q), NEW n \in Node, c[n] = "merge",
         NEW h \in {Left(n), Right(n)}
  PROVE  RowInv(c, [q EXCEPT ![h].start = @ + 1])
<1>. DEFINE t == [q EXCEPT ![h].start = @ + 1]
<1>1. c \in [Node -> State] /\ q \in [Node -> Piece]
  BY DEF RowInv, RowTyped
<1>2. n \in Inner
  BY DEF RowInv, Levels
<1>3. h \in Node /\ Half(h, n)
  BY <1>2, Children DEF Half
<1>4. c[h] \in {"idle", "done"}
  BY <1>2 DEF RowInv, Resting
<1>5. q[h] \in Piece
  BY <1>1, <1>3
<1>6. /\ t \in [Node -> Piece]
      /\ \A m \in Node : m # h => t[m] = q[m]
      /\ t[h].level = q[h].level
  BY <1>1, <1>3, <1>5 DEF Piece
<1>. HIDE DEF t
<1>7. ~Owns(c, h)
  <2>1. c[h] \notin Working
    BY <1>4 DEF Working
  <2>2. ASSUME NEW p \in Inner, Half(h, p) PROVE p = n
    BY <1>2, <1>3, <2>2, OneParent
  <2>. QED  BY <2>1, <2>2 DEF Owns
<1>8. RowDisjoint(c, t)
  BY <1>6, <1>7 DEF RowInv, RowDisjoint
<1>9. Levels(c, t)
  BY <1>6 DEF RowInv, Levels
<1>10. Halved(c, t)
  <2>. SUFFICES ASSUME NEW p \in Inner, c[p] = "join"
       PROVE t[p] = q[p] /\ t[Left(p)] = q[Left(p)] /\ t[Right(p)] = q[Right(p)]
    BY DEF RowInv, Halved
  <2>1. p # h /\ p # n
    BY <1>4
  <2>2. ~Half(h, p)
    BY <1>2, <1>3, <2>1, OneParent
  <2>. QED  BY <1>6, <2>1, <2>2, Children DEF Half
<1>. QED  BY <1>1, <1>6, <1>8, <1>9, <1>10 DEF RowInv, RowTyped, t

\* A split gives a piece to its halves; the right one may get no thread.
LEMMA Splits ==
  ASSUME NEW c, NEW q, RowInv(c, q), NEW n \in Node, c[n] = "start", ~IsSmall(q[n]),
         NEW s \in {"start", "idle"}
  PROVE  RowInv([c EXCEPT ![n] = "join", ![Left(n)] = "start", ![Right(n)] = s],
                [q EXCEPT ![Left(n)] = Halves(q[n])[1], ![Right(n)] = Halves(q[n])[2]])
<1>. DEFINE L == Left(n)
            R == Right(n)
            d == [c EXCEPT ![n] = "join", ![L] = "start", ![R] = s]
            t == [q EXCEPT ![L] = Halves(q[n])[1], ![R] = Halves(q[n])[2]]
            m == (q[n].end + q[n].start) \div 2
<1>1. c \in [Node -> State] /\ q \in [Node -> Piece] /\ q[n] \in Piece
  BY DEF RowInv, RowTyped
<1>2. n \in Inner /\ q[n].level = Len(n)
  BY SortAssumption DEF RowInv, Levels, IsSmall, Inner
<1>3. /\ L \in Node /\ R \in Node /\ L # R /\ L # n /\ R # n
      /\ Len(L) = Len(n) + 1 /\ Len(R) = Len(n) + 1 /\ Half(L, n) /\ Half(R, n)
  BY <1>2, Children DEF Half
<1>4. c[L] = "idle" /\ c[R] = "idle"
  BY <1>2 DEF RowInv, Resting
<1>5. /\ m \in Int /\ q[n].start <= m /\ m <= q[n].end
      /\ Halves(q[n])[1] = [start |-> q[n].start, end |-> m, level |-> Len(n) + 1]
      /\ Halves(q[n])[2] = [start |-> m + 1, end |-> q[n].end, level |-> Len(n) + 1]
  <2>1. q[n].start \in Int /\ q[n].end \in Int
    BY <1>1 DEF Piece
  <2>2. q[n].start <= q[n].end
    BY <2>1, SortAssumption DEF IsSmall
  <2>. QED  BY <1>2, <2>1, <2>2 DEF Halves
<1>6. /\ d \in [Node -> State] /\ d[n] = "join" /\ d[L] = "start" /\ d[R] = s
      /\ \A x \in Node : x \notin {n, L, R} => d[x] = c[x]
  BY <1>1, <1>3 DEF State
<1>7. Len(n) + 1 \in Int
  BY <1>2, NodeSeq DEF Inner
<1>8. /\ t \in [Node -> Piece]
      /\ t[L] = [start |-> q[n].start, end |-> m, level |-> Len(n) + 1]
      /\ t[R] = [start |-> m + 1, end |-> q[n].end, level |-> Len(n) + 1]
      /\ \A x \in Node : x \notin {L, R} => t[x] = q[x]
  <2>1. Halves(q[n])[1] \in Piece /\ Halves(q[n])[2] \in Piece
    BY <1>1, <1>5, <1>7 DEF Piece
  <2>. QED  BY <1>1, <1>3, <1>5, <2>1
<1>. HIDE DEF d, t, m, L, R
<1>9. ASSUME NEW x \in Node, Owns(d, x) PROVE x \in {L, R} \/ (x \notin {n, L, R} /\ Owns(c, x))
  <2>. SUFFICES ASSUME x \notin {L, R} PROVE x # n /\ Owns(c, x)
    OBVIOUS
  <2>1. x # n
    <3>1. d[n] = "join"
      BY <1>6
    <3>. QED  BY <1>9, <3>1 DEF Owns, Working
  <2>2. ASSUME NEW p \in Inner, d[p] = "join", Half(x, p) PROVE c[p] = "join"
    <3>1. p # n
      BY <2>2 DEF Half, L, R
    <3>2. p \in Node /\ p # L /\ p # R
      BY <1>6, <2>2, Children
    <3>. QED  BY <1>6, <2>2, <3>1, <3>2
  <2>. QED  BY <1>6, <1>9, <2>1, <2>2 DEF Owns
<1>10. RowDisjoint(d, t)
  <2>. SUFFICES ASSUME NEW x \in Node, NEW y \in Node, x # y, Owns(d, x), Owns(d, y), NEW k \in Int,
                       Within(k, t[x]), Within(k, t[y])
       PROVE FALSE
    BY DEF RowDisjoint
  <2>1. Owns(c, n)
    BY DEF Owns, Working
  <2>2. ASSUME NEW z \in {L, R}, Within(k, t[z]) PROVE Within(k, q[n])
    <3>1. q[n].start \in Int /\ q[n].end \in Int
      BY <1>1 DEF Piece
    <3>2. CASE z = L
      <4>1. q[n].start <= k /\ k <= m
        BY <1>8, <2>2, <3>2 DEF Within
      <4>. QED  BY <1>5, <3>1, <4>1 DEF Within
    <3>3. CASE z = R
      <4>1. m + 1 <= k /\ k <= q[n].end
        BY <1>8, <2>2, <3>3 DEF Within
      <4>. QED  BY <1>5, <3>1, <4>1 DEF Within
    <3>. QED  BY <3>2, <3>3
  <2>3. ~(Within(k, t[L]) /\ Within(k, t[R]))
    BY <1>1, <1>5, <1>8 DEF Within, Piece
  <2>4. ASSUME NEW z \in Node, z \notin {n, L, R}, Owns(c, z), Within(k, t[z])
        PROVE ~Within(k, q[n])
    BY <1>8, <2>1, <2>4 DEF RowInv, RowDisjoint
  <2>5. CASE x \in {L, R} /\ y \in {L, R}
    BY <2>3, <2>5
  <2>6. CASE x \in {L, R} /\ y \notin {L, R}
    BY <1>9, <2>2, <2>4, <2>6
  <2>7. CASE x \notin {L, R} /\ y \in {L, R}
    BY <1>9, <2>2, <2>4, <2>7
  <2>8. CASE x \notin {L, R} /\ y \notin {L, R}
    <3>1. Owns(c, x) /\ Owns(c, y) /\ t[x] = q[x] /\ t[y] = q[y]
      BY <1>8, <1>9, <2>8
    <3>. QED  BY <3>1 DEF RowInv, RowDisjoint
  <2>. QED  BY <2>5, <2>6, <2>7, <2>8
<1>11. Levels(d, t)
  <2>. SUFFICES ASSUME NEW x \in Node
       PROVE /\ d[x] # "idle" => t[x].level = Len(x)
             /\ d[x] \in {"join", "merge"} => x \in Inner
    BY DEF Levels
  <2>1. CASE x = n
    BY <1>2, <1>3, <1>8, <2>1
  <2>2. CASE x \in {L, R}
    BY <1>3, <1>6, <1>8, <2>2
  <2>3. CASE x \notin {n, L, R}
    <3>1. d[x] = c[x] /\ t[x] = q[x]
      BY <1>6, <1>8, <2>3
    <3>. QED  BY <3>1 DEF RowInv, Levels
  <2>. QED  BY <2>1, <2>2, <2>3
<1>12. Resting(d)
  <2>. SUFFICES ASSUME NEW p \in Inner, p # n
       PROVE /\ d[p] \in {"idle", "start"} => d[Left(p)] = "idle" /\ d[Right(p)] = "idle"
             /\ d[p] \in {"sort", "mark", "merge", "copy", "done"} =>
                  d[Left(p)] \in {"idle", "done"} /\ d[Right(p)] \in {"idle", "done"}
    BY <1>6 DEF Resting
  <2>1. /\ c[p] \in {"idle", "start"} => c[Left(p)] = "idle" /\ c[Right(p)] = "idle"
        /\ c[p] \in {"sort", "mark", "merge", "copy", "done"} =>
             c[Left(p)] \in {"idle", "done"} /\ c[Right(p)] \in {"idle", "done"}
    BY DEF RowInv, Resting
  <2>2. /\ p \in Node /\ Left(p) \in Node /\ Right(p) \in Node
        /\ Len(Left(p)) = Len(p) + 1 /\ Len(Right(p)) = Len(p) + 1 /\ Len(p) \in Nat
    BY Children, NodeSeq
  <2>3. Left(p) \notin {L, R} /\ Right(p) \notin {L, R}
    BY <1>2, <1>3, OneParent DEF Half
  <2>4. CASE p \in {L, R}
    <3>1. Left(p) # n /\ Right(p) # n
      BY <1>3, <1>7, <2>2, <2>4
    <3>2. d[Left(p)] = "idle" /\ d[Right(p)] = "idle"
      BY <1>4, <1>6, <2>1, <2>2, <2>3, <2>4, <3>1
    <3>3. d[p] \in {"start", "idle"}
      BY <1>6, <2>4
    <3>. QED  BY <3>2, <3>3
  <2>5. CASE p \notin {L, R}
    <3>1. d[p] = c[p]
      BY <1>6, <2>2, <2>5
    <3>2. CASE n \in {Left(p), Right(p)}
      BY <1>1, <2>1, <2>2, <3>1, <3>2 DEF State
    <3>3. CASE n \notin {Left(p), Right(p)}
      BY <1>6, <2>1, <2>2, <2>3, <3>1, <3>3
    <3>. QED  BY <3>2, <3>3
  <2>. QED  BY <2>4, <2>5
<1>13. Halved(d, t)
  <2>. SUFFICES ASSUME NEW p \in Inner, d[p] = "join"
       PROVE /\ t[Left(p)].start = t[p].start
             /\ t[Right(p)].start = t[Left(p)].end + 1
             /\ t[Right(p)].end = t[p].end
    BY DEF Halved
  <2>1. CASE p = n
    BY <1>3, <1>8, <2>1 DEF L, R
  <2>2. CASE p # n
    <3>1. p \in Node /\ p \notin {L, R}
      BY <1>6, Children
    <3>2. Left(p) \in Node /\ Right(p) \in Node /\ Left(p) \notin {L, R} /\ Right(p) \notin {L, R}
      BY <1>2, <1>3, <2>2, OneParent, Children DEF Half
    <3>3. c[p] = "join"
      BY <1>6, <2>2, <3>1
    <3>. QED  BY <1>8, <3>1, <3>2, <3>3 DEF RowInv, Halved
  <2>. QED  BY <2>1, <2>2
<1>. QED  BY <1>6, <1>8, <1>10, <1>11, <1>12, <1>13 DEF RowInv, RowTyped, d, t, L, R

\* After the join a piece works on the slots of its halves itself.
LEMMA Joins ==
  ASSUME NEW c, NEW q, RowInv(c, q), NEW n \in Node, c[n] = "join",
         c[Left(n)] \in {"idle", "done"}, c[Right(n)] \in {"idle", "done"}
  PROVE  RowInv([c EXCEPT ![n] = "merge"], q)
<1>. DEFINE d == [c EXCEPT ![n] = "merge"]
<1>1. c \in [Node -> State] /\ q \in [Node -> Piece]
  BY DEF RowInv, RowTyped
<1>2. n \in Inner
  BY DEF RowInv, Levels
<1>3. /\ Left(n) \in Node /\ Right(n) \in Node /\ Left(n) # n /\ Right(n) # n
      /\ Half(Left(n), n) /\ Half(Right(n), n)
  BY <1>2, Children DEF Half
<1>4. d \in [Node -> State] /\ d[n] = "merge" /\ \A x \in Node : x # n => d[x] = c[x]
  BY <1>1 DEF State
<1>. HIDE DEF d
<1>5. ASSUME NEW x \in Node, Owns(d, x), x # n PROVE Owns(c, x) /\ ~Half(x, n)
  <2>1. ASSUME NEW p \in Inner, d[p] = "join" PROVE c[p] = "join" /\ p # n
    BY <1>4, <2>1, Children
  <2>2. ~Half(x, n)
    <3>. SUFFICES ASSUME Half(x, n) PROVE FALSE
      OBVIOUS
    <3>1. c[x] \in {"idle", "done"} /\ d[x] = c[x]
      BY <1>4, <1>5 DEF Half
    <3>2. PICK p \in Inner : d[p] = "join" /\ Half(x, p)
      BY <1>5, <3>1 DEF Owns, Working
    <3>. QED  BY <1>2, <2>1, <3>2, OneParent
  <2>. QED  BY <1>4, <1>5, <2>1, <2>2 DEF Owns
<1>6. Owns(c, Left(n)) /\ Owns(c, Right(n))
  BY <1>2, <1>3 DEF Owns
<1>7. ASSUME NEW x \in Node, Owns(d, x), x # n, NEW k \in Int, Within(k, q[x]) PROVE ~Within(k, q[n])
  <2>1. ~Within(k, q[Left(n)]) /\ ~Within(k, q[Right(n)])
    BY <1>3, <1>5, <1>6, <1>7 DEF RowInv, RowDisjoint
  <2>2. /\ q[Left(n)].start = q[n].start
        /\ q[Right(n)].start = q[Left(n)].end + 1
        /\ q[Right(n)].end = q[n].end
    BY <1>2 DEF RowInv, Halved
  <2>3. q[Left(n)].end \in Int /\ q[n].start \in Int /\ q[n].end \in Int
    BY <1>1, <1>3 DEF Piece
  <2>. QED  BY <2>1, <2>2, <2>3 DEF Within
<1>8. RowDisjoint(d, q)
  <2>. SUFFICES ASSUME NEW x \in Node, NEW y \in Node, x # y, Owns(d, x), Owns(d, y), NEW k \in Int,
                       Within(k, q[x]), Within(k, q[y])
       PROVE FALSE
    BY DEF RowDisjoint
  <2>1. x # n /\ y # n
    BY <1>7
  <2>. QED  BY <1>5, <2>1 DEF RowInv, RowDisjoint
<1>9. Levels(d, q)
  BY <1>2, <1>4 DEF RowInv, Levels
<1>10. Resting(d)
  <2>. SUFFICES ASSUME NEW p \in Inner
       PROVE /\ d[p] \in {"idle", "start"} => d[Left(p)] = "idle" /\ d[Right(p)] = "idle"
             /\ d[p] \in {"sort", "mark", "merge", "copy", "done"} =>
                  d[Left(p)] \in {"idle", "done"} /\ d[Right(p)] \in {"idle", "done"}
    BY DEF Resting
  <2>1. p \in Node /\ Left(p) \in Node /\ Right(p) \in Node /\ Left(p) # p /\ Right(p) # p
    BY Children
  <2>2. CASE p = n
    BY <1>3, <1>4, <2>2
  <2>3. CASE p # n /\ n \notin {Left(p), Right(p)}
    BY <1>4, <2>1, <2>3 DEF RowInv, Resting
  <2>4. CASE p # n /\ n \in {Left(p), Right(p)}
    <3>1. c[p] = "join"
      BY <1>1, <2>1, <2>4 DEF RowInv, Resting, State
    <3>. QED  BY <1>4, <2>1, <2>4, <3>1
  <2>. QED  BY <2>2, <2>3, <2>4
<1>11. Halved(d, q)
  BY <1>4, Children DEF RowInv, Halved
<1>. QED  BY <1>1, <1>4, <1>8, <1>9, <1>10, <1>11 DEF RowInv, RowTyped, d

\* No call is on any piece of a row.
Untouched(c) == c = [n \in Node |-> "idle"]

\* A filter gives the whole row to its sort, which may get no thread.
LEMMA Fills ==
  ASSUME NEW c, NEW q, q \in [Node -> Piece], Untouched(c), NEW w \in Piece, w.level = 0,
         NEW s \in {"start", "idle"}
  PROVE  RowInv([c EXCEPT ![Root] = s], [q EXCEPT ![Root] = w])
<1>. DEFINE d == [c EXCEPT ![Root] = s]
            t == [q EXCEPT ![Root] = w]
<1>1. /\ d \in [Node -> State] /\ d[Root] = s /\ \A x \in Node : x # Root => d[x] = "idle"
      /\ t \in [Node -> Piece] /\ t[Root] = w
  BY RootIsNoHalf DEF Untouched, State
<1>. HIDE DEF d, t
<1>2. \A x \in Node : Owns(d, x) => x = Root
  BY <1>1, Children DEF Owns, Working
<1>3. RowDisjoint(d, t)
  BY <1>2 DEF RowDisjoint
<1>4. Levels(d, t)
  BY <1>1, RootIsNoHalf DEF Levels
<1>5. Resting(d)
  BY <1>1, Children, RootIsNoHalf DEF Resting, Half
<1>6. Halved(d, t)
  BY <1>1, Children DEF Halved
<1>. QED  BY <1>1, <1>3, <1>4, <1>5, <1>6 DEF RowInv, RowTyped, d, t

-----------------------------------------------------------------------------
(* The inductive invariant for all rows: a row is untouched until its      *)
(* filter has filled it, and main creates every filter once.               *)

FilterState == {"none", "filter", "failed", "sorting", "done"}

Typed ==
  /\ input \in Input /\ main \in Int
  /\ filterpc \in [Request -> FilterState]
  /\ pc \in [Request -> [Node -> State]]
  /\ piece \in [Request -> [Node -> Piece]]

CreatedInOrder == \A r \in Request : r >= main => filterpc[r] = "none"

FilteredFirst == \A r \in Request : filterpc[r] \notin {"sorting", "done"} => Untouched(pc[r])

IInv == Typed /\ CreatedInOrder /\ FilteredFirst /\ \A r \in Request : RowInv(pc[r], piece[r])

LEMMA UntouchedInv ==
  ASSUME NEW c, NEW q, q \in [Node -> Piece], Untouched(c)
  PROVE  RowInv(c, q)
<1>1. c \in [Node -> State] /\ \A n \in Node : c[n] = "idle"
  BY DEF Untouched, State
<1>2. \A n \in Node : ~Owns(c, n)
  BY <1>1, Children DEF Owns, Working
<1>3. RowDisjoint(c, q) /\ Levels(c, q) /\ Resting(c) /\ Halved(c, q)
  BY <1>1, <1>2, Children DEF RowDisjoint, Levels, Resting, Halved
<1>. QED  BY <1>1, <1>3 DEF RowInv, RowTyped

\* A step of mergesort concerns one row, which its filter has filled.
LEMMA OneRow ==
  ASSUME IInv, NEW r \in Request, ~Untouched(pc[r]), NEW c, NEW q, RowInv(c, q),
         pc' = [pc EXCEPT ![r] = c], piece' = [piece EXCEPT ![r] = q],
         UNCHANGED <<input, main, filterpc>>
  PROVE  IInv'
<1>1. c \in [Node -> State] /\ q \in [Node -> Piece]
  BY DEF RowInv, RowTyped
<1>2. Typed' /\ CreatedInOrder'
  BY <1>1 DEF IInv, Typed, CreatedInOrder
<1>3. \A x \in Request : x # r => pc'[x] = pc[x] /\ piece'[x] = piece[x]
  BY DEF IInv, Typed
<1>4. pc'[r] = c /\ piece'[r] = q
  BY DEF IInv, Typed
<1>5. FilteredFirst'
  BY <1>3 DEF IInv, FilteredFirst
<1>6. \A x \in Request : RowInv(pc'[x], piece'[x])
  BY <1>3, <1>4 DEF IInv
<1>. QED  BY <1>2, <1>5, <1>6 DEF IInv

LEMMA WholeIsPiece ==
  ASSUME NEW r \in Request, input \in Input
  PROVE  Whole(r) \in Piece /\ Whole(r).level = 0
<1>1. input.lines \in Seq(Line)
  BY SortAssumption DEF Files
<1>2. num_of(input) \in Int
  BY <1>1 DEF num_of
<1>3. IsFiniteSet(1..num_of(input))
  BY <1>2, FS_Interval
<1>4. IsFiniteSet(Hit(input, req(r)))
  BY <1>3, FS_Subset DEF Hit
<1>5. matches(r) \in Nat
  BY <1>4, FS_CardinalityType DEF matches
<1>. QED  BY <1>5 DEF Whole, Piece

LEMMA InvInit == Init => IInv
<1>. SUFFICES ASSUME Init PROVE IInv
  OBVIOUS
<1>1. Typed /\ CreatedInOrder
  BY DEF Init, Typed, CreatedInOrder, FilterState, State, Piece, NoPiece
<1>2. \A r \in Request : Untouched(pc[r])
  BY DEF Init, Untouched
<1>. QED  BY <1>1, <1>2, UntouchedInv DEF IInv, FilteredFirst, Typed

LEMMA InvMergeSort ==
  ASSUME IInv, NEW r \in Request, NEW n \in Node, MergeSort(r, n)
  PROVE  IInv'
<1>1. /\ pc \in [Request -> [Node -> State]] /\ piece \in [Request -> [Node -> Piece]]
      /\ RowInv(pc[r], piece[r])
  BY DEF IInv, Typed
<1>2. pc[r][n] # "idle" => ~Untouched(pc[r])
  BY DEF Untouched
<1>3. UNCHANGED <<input, main, filterpc>>
  BY DEF MergeSort, Small, Split, Sort, SortNothing, Mark, Join, Merge, Copy
<1>4. ASSUME NEW s \in {"sort", "mark", "copy", "done"}, pc[r][n] \in Working,
             pc' = [pc EXCEPT ![r][n] = s], piece' = piece
      PROVE  IInv'
  <2>1. RowInv([pc[r] EXCEPT ![n] = s], piece[r])
    BY <1>1, <1>4, GoesOn
  <2>2. pc' = [pc EXCEPT ![r] = [pc[r] EXCEPT ![n] = s]] /\ piece' = [piece EXCEPT ![r] = piece[r]]
    BY <1>1, <1>4
  <2>3. ~Untouched(pc[r])
    BY <1>2, <1>4 DEF Working
  <2>. QED  BY <1>3, <2>1, <2>2, <2>3, OneRow
<1>5. ASSUME pc' = pc, piece' = piece PROVE IInv'
  BY <1>3, <1>5 DEF IInv, Typed, CreatedInOrder, FilteredFirst
<1>6. CASE Small(r, n)
  BY <1>4, <1>6 DEF Small, Working
<1>7. CASE Split(r, n)
  <2>. DEFINE c == [pc[r] EXCEPT ![n] = "join", ![Left(n)] = "start", ![Right(n)] = Launched]
              q == [piece[r] EXCEPT ![Left(n)] = Halves(piece[r][n])[1], ![Right(n)] = Halves(piece[r][n])[2]]
  <2>1. pc[r][n] = "start" /\ ~IsSmall(piece[r][n]) /\ Launched \in {"start", "idle"}
    BY <1>7 DEF Split, Launched
  <2>2. RowInv(c, q)
    BY <1>1, <2>1, Splits
  <2>3. pc' = [pc EXCEPT ![r] = c] /\ piece' = [piece EXCEPT ![r] = q]
    BY <1>1, <1>7 DEF Split
  <2>. HIDE DEF c, q
  <2>. QED  BY <1>2, <1>3, <2>1, <2>2, <2>3, OneRow
<1>8. CASE Sort(r, n)
  BY <1>4, <1>5, <1>8 DEF Sort, Working
<1>9. CASE SortNothing(r, n)
  BY <1>4, <1>9 DEF SortNothing, Working
<1>10. CASE Mark(r, n)
  BY <1>4, <1>10 DEF Mark, Working
<1>11. CASE Join(r, n)
  <2>1. pc[r][n] = "join" /\ pc[r][Left(n)] \in {"idle", "done"} /\ pc[r][Right(n)] \in {"idle", "done"}
    BY <1>11 DEF Join, Ended
  <2>2. RowInv([pc[r] EXCEPT ![n] = "merge"], piece[r])
    BY <1>1, <2>1, Joins
  <2>3. pc' = [pc EXCEPT ![r] = [pc[r] EXCEPT ![n] = "merge"]] /\ piece' = [piece EXCEPT ![r] = piece[r]]
    BY <1>1, <1>11 DEF Join
  <2>. QED  BY <1>2, <1>3, <2>1, <2>2, <2>3, OneRow
<1>12. CASE Merge(r, n)
  <2>1. pc[r][n] = "merge"
    BY <1>12 DEF Merge
  <2>2. PICK h \in {Left(n), Right(n)} : piece' = [piece EXCEPT ![r][h].start = @ + 1]
    BY <1>12 DEF Merge
  <2>. DEFINE q == [piece[r] EXCEPT ![h].start = @ + 1]
  <2>3. RowInv(pc[r], q)
    BY <1>1, <2>1, Advances
  <2>4. piece' = [piece EXCEPT ![r] = q]
    BY <1>1, <2>2
  <2>5. RowInv([pc[r] EXCEPT ![n] = "copy"], q)
    BY <2>1, <2>3, GoesOn DEF Working
  <2>6. pc' = [pc EXCEPT ![r] = pc[r]] \/ pc' = [pc EXCEPT ![r] = [pc[r] EXCEPT ![n] = "copy"]]
    BY <1>1, <1>12 DEF Merge
  <2>. HIDE DEF q
  <2>. QED  BY <1>2, <1>3, <2>1, <2>3, <2>4, <2>5, <2>6, OneRow
<1>13. CASE Copy(r, n)
  BY <1>4, <1>5, <1>13 DEF Copy, Working
<1>. QED  BY <1>6, <1>7, <1>8, <1>9, <1>10, <1>11, <1>12, <1>13 DEF MergeSort

LEMMA InvFilter ==
  ASSUME IInv, NEW r \in Request, Filter(r)
  PROVE  IInv'
<1>1. /\ input \in Input /\ filterpc \in [Request -> FilterState]
      /\ pc \in [Request -> [Node -> State]] /\ piece \in [Request -> [Node -> Piece]]
  BY DEF IInv, Typed
<1>2. filterpc[r] = "filter" /\ Untouched(pc[r])
  BY DEF Filter, IInv, FilteredFirst
<1>. DEFINE c == [pc[r] EXCEPT ![Root] = Launched]
            q == [piece[r] EXCEPT ![Root] = Whole(r)]
<1>3. RowInv(c, q)
  BY <1>1, <1>2, WholeIsPiece, Fills DEF Launched
<1>4. /\ pc' = [pc EXCEPT ![r] = c] /\ piece' = [piece EXCEPT ![r] = q]
      /\ filterpc' = [filterpc EXCEPT ![r] = "sorting"] /\ UNCHANGED <<input, main>>
  BY <1>1 DEF Filter
<1>5. c \in [Node -> State] /\ q \in [Node -> Piece]
  BY <1>3 DEF RowInv, RowTyped
<1>. HIDE DEF c, q
<1>6. Typed'
  BY <1>1, <1>4, <1>5 DEF IInv, Typed, FilterState
<1>7. \A x \in Request : x # r => pc'[x] = pc[x] /\ piece'[x] = piece[x] /\ filterpc'[x] = filterpc[x]
  BY <1>1, <1>4
<1>8. pc'[r] = c /\ piece'[r] = q /\ filterpc'[r] = "sorting"
  BY <1>1, <1>4
<1>9. CreatedInOrder'
  BY <1>2, <1>4, <1>7 DEF IInv, CreatedInOrder
<1>10. FilteredFirst'
  BY <1>7, <1>8 DEF IInv, FilteredFirst
<1>11. \A x \in Request : RowInv(pc'[x], piece'[x])
  BY <1>3, <1>7, <1>8 DEF IInv
<1>. QED  BY <1>6, <1>9, <1>10, <1>11 DEF IInv

LEMMA InvNext == IInv /\ [Next]_vars => IInv'
<1>. SUFFICES ASSUME IInv, [Next]_vars PROVE IInv'
  OBVIOUS
<1>1. ASSUME NEW r \in Request, Output(r) PROVE IInv'
  <2>1. /\ filterpc[r] = "sorting" /\ filterpc' = [filterpc EXCEPT ![r] = "done"]
        /\ UNCHANGED <<input, main, pc, piece>>
    BY <1>1 DEF Output
  <2>. QED  BY <2>1 DEF IInv, Typed, CreatedInOrder, FilteredFirst, FilterState
<1>2. CASE Initialize
  BY <1>2 DEF Initialize, IInv, Typed, CreatedInOrder, FilteredFirst, Request
<1>3. CASE Create
  <2>1. /\ main \in Int /\ main' = main + 1 /\ UNCHANGED <<input, pc, piece>>
        /\ \E s \in {"filter", "failed"} : filterpc' = [filterpc EXCEPT ![main] = s]
    BY <1>3 DEF Create, IInv, Typed
  <2>2. PICK s \in {"filter", "failed"} : filterpc' = [filterpc EXCEPT ![main] = s]
    BY <2>1
  <2>3. Typed'
    <3>1. filterpc \in [Request -> FilterState] /\ s \in FilterState
      BY DEF IInv, Typed, FilterState
    <3>2. filterpc' \in [Request -> FilterState]
      BY <2>2, <3>1
    <3>3. main' \in Int
      BY <2>1
    <3>. QED  BY <2>1, <3>2, <3>3 DEF IInv, Typed
  <2>4. CreatedInOrder'
    BY <2>1, <2>2 DEF IInv, Typed, CreatedInOrder, Request
  <2>5. FilteredFirst'
    <3>. SUFFICES ASSUME NEW x \in Request, filterpc'[x] \notin {"sorting", "done"}
         PROVE Untouched(pc[x])
      BY <2>1 DEF FilteredFirst
    <3>1. filterpc[x] \notin {"sorting", "done"}
      <4>1. CASE x = main
        BY <2>1, <4>1 DEF IInv, CreatedInOrder
      <4>2. CASE x # main
        BY <2>2, <4>2 DEF IInv, Typed
      <4>. QED  BY <4>1, <4>2
    <3>. QED  BY <3>1 DEF IInv, FilteredFirst
  <2>. QED  BY <2>1, <2>3, <2>4, <2>5 DEF IInv
<1>4. CASE Return
  BY <1>4 DEF Return, IInv, Typed, CreatedInOrder, FilteredFirst, Request
<1>5. CASE UNCHANGED vars
  BY <1>5 DEF vars, IInv, Typed, CreatedInOrder, FilteredFirst
<1>. QED  BY <1>1, <1>2, <1>3, <1>4, <1>5, InvMergeSort, InvFilter DEF Next

LEMMA InvDisjoint == IInv => SlicesDisjoint
<1>. SUFFICES ASSUME IInv, NEW r \in Request, NEW m \in Node, NEW n \in Node, m # n,
                     NEW k \in Slice(r, m), k \in Slice(r, n)
     PROVE FALSE
  BY DEF SlicesDisjoint
<1>1. RowInv(pc[r], piece[r]) /\ piece[r] \in [Node -> Piece]
  BY DEF IInv, Typed
<1>2. ASSUME NEW x \in Node, k \in Slice(r, x)
      PROVE  k \in Int /\ Owns(pc[r], x) /\ Within(k, piece[r][x])
  BY <1>1, <1>2 DEF Slice, Owns, Working, Within, Piece
<1>. QED  BY <1>1, <1>2 DEF RowInv, RowDisjoint

\* In every behaviour of tserver, for any files, any number of levels and
\* threads, and whatever threads cannot be created, no two threads of a request
\* work on the same slot at the same time: mergesort needs no locks.  Like the
\* theorems below, this is about the program as long as every request has a row
\* of the tables.
THEOREM SlicesStayDisjoint == Spec => []SlicesDisjoint
<1>. QED  BY InvInit, InvNext, InvDisjoint, PTL DEF Spec

-----------------------------------------------------------------------------
(* No movie is lost.  The invariant says where the entries of a row are:   *)
(* in its slots, and while a piece is merged or copied back also in its    *)
(* temporary array.                                                        *)

\* Slot k is one that piece n has merged.
Consumed(r, n, k) ==
  \/ piece[r][n].start <= k /\ k < piece[r][Left(n)].start
  \/ piece[r][Left(n)].end < k /\ k < piece[r][Right(n)].start

\* A merge has taken some of the left half and some of the right, and is not at
\* the end.
Merging(r, n) ==
  /\ piece[r][n].start <= piece[r][Left(n)].start
  /\ piece[r][Left(n)].start <= piece[r][Left(n)].end + 1
  /\ piece[r][Left(n)].end < piece[r][Right(n)].start
  /\ piece[r][Right(n)].start <= piece[r][Right(n)].end + 1
  /\ piece[r][Right(n)].end = piece[r][n].end
  /\ Len(tmp[r][n]) = (piece[r][Left(n)].start - piece[r][n].start)
                        + (piece[r][Right(n)].start - (piece[r][Left(n)].end + 1))
  /\ Len(tmp[r][n]) <= piece[r][n].end - piece[r][n].start

\* What a call on piece n knows of its piece, its slot and its arrays.
PlacedAt(r, n) ==
  /\ pc[r][n] \notin {"idle", "done"} =>
       /\ 0 <= piece[r][n].start /\ piece[r][n].end < count[r]
       /\ piece[r][n].start <= piece[r][n].end \/ count[r] = 0
  /\ pc[r][n] = "mark" => count[r] = 0 /\ Len(tmp[r][n]) = 1
  /\ pc[r][n] \notin {"mark", "merge", "copy"} => tmp[r][n] = <<>>
  /\ pc[r][n] = "sort" => piece[r][n].start <= at[r][n]
  /\ pc[r][n] = "join" => /\ piece[r][n].start <= piece[r][Left(n)].end
                          /\ piece[r][Left(n)].end < piece[r][n].end
  /\ pc[r][n] = "merge" => Merging(r, n)
  /\ pc[r][n] = "copy" => /\ piece[r][n].start <= at[r][n] /\ at[r][n] <= piece[r][n].end
                          /\ Len(tmp[r][n]) = piece[r][n].end - piece[r][n].start + 1

Placed(r) == \A n \in Node : PlacedAt(r, n)

\* What has been merged is in the temporary array.
Merged(r) ==
  \A n \in Node : pc[r][n] = "merge" =>
    \A k \in Slot : Consumed(r, n, k) =>
      \E j \in 1..Len(tmp[r][n]) : tmp[r][n][j].movie = row[r][k].movie

\* Slot k is one that piece n will copy an entry to.
Copying(r, n, k) == pc[r][n] = "copy" /\ at[r][n] <= k /\ k <= piece[r][n].end

\* Movie m is in slot k, or in what will be copied there.
Carries(r, k, m) ==
  \/ \E n \in Node : Copying(r, n, k) /\ tmp[r][n][k - piece[r][n].start + 1].movie = m
  \/ (\A n \in Node : ~Copying(r, n, k)) /\ row[r][k].movie = m

AllThere(r) == \A m \in Hit(input, req(r)) : \E k \in 0..(count[r] - 1) : Carries(r, k, m)

Kept(r) == Merged(r) /\ AllThere(r)

\* A filter runs after initialize, for a request there is, and counts the movies
\* that match.
Started ==
  /\ main # -1 => Loads(input)
  /\ \A r \in Request :
       /\ filterpc[r] # "none" => main # -1 /\ r < num_of_reqs
       /\ filterpc[r] \in {"sorting", "done"} => count[r] = matches(r)

NothingLost ==
  /\ \A r \in Request : Placed(r)
  /\ \A r \in Request : filterpc[r] = "sorting" => Spoiled(r) \/ Kept(r)
  /\ AnswersComplete
-----------------------------------------------------------------------------
(* What a step leaves alone.                                               *)

\* The parts of a row a piece knows of.
LEMMA RowTypes ==
  ASSUME TypeOK, NEW r \in Request, NEW n \in Node
  PROVE  /\ pc[r] \in [Node -> State] /\ pc[r][n] \in State
         /\ piece[r] \in [Node -> Piece] /\ piece[r][n] \in Piece
         /\ piece[r][n].start \in Int /\ piece[r][n].end \in Int
         /\ at[r][n] \in Int /\ tmp[r][n] \in Seq(Entry)
         /\ row[r] \in [Slot -> Entry] /\ count[r] \in Nat
         /\ \A k \in 0..(count[r] - 1) : k \in Slot
<1>1. piece[r][n] \in [start : 0..MAX_MOVIES, end : -1..(MAX_MOVIES - 1), level : 0..(MaxLevel + 1)]
  BY DEF TypeOK
<1>2. MAX_MOVIES \in Int /\ MaxLevel \in Int
  BY LimitAssumption, SortAssumption
<1>3. \A x \in Node : piece[r][x] \in Piece
  BY <1>2 DEF TypeOK, Piece
<1>4. pc[r] \in [Node -> State]
  BY DEF TypeOK, State
<1>5. piece[r] \in [Node -> Piece]
  BY <1>3 DEF TypeOK
<1>6. at[r][n] \in Int /\ tmp[r][n] \in Seq(Entry) /\ row[r] \in [Slot -> Entry]
  BY <1>2 DEF TypeOK
<1>7. count[r] \in Nat /\ count[r] <= MAX_MOVIES
  BY <1>2 DEF TypeOK
<1>8. \A k \in 0..(count[r] - 1) : k \in Slot
  <2>. SUFFICES ASSUME NEW c, c = count[r], NEW k \in 0..(c - 1) PROVE k \in Slot
    OBVIOUS
  <2>1. c \in Int /\ c <= MAX_MOVIES
    BY <1>7
  <2>2. k \in Int /\ 0 <= k /\ k <= c - 1
    BY <2>1
  <2>3. k <= MAX_MOVIES - 1
    BY <1>2, <2>1, <2>2
  <2>4. k \in 0..(MAX_MOVIES - 1)
    BY <1>2, <2>2, <2>3
  <2>. QED  BY <2>4 DEF Slot
<1>9. piece[r][n].start \in Int /\ piece[r][n].end \in Int
  BY <1>1, <1>2
<1>10. pc[r][n] \in State /\ piece[r][n] \in Piece
  BY <1>4, <1>5
<1>. QED  BY <1>4, <1>5, <1>6, <1>7, <1>8, <1>9, <1>10

LEMMA InRow ==
  ASSUME NEW c \in Int, NEW k \in Int, 0 <= k, k < c
  PROVE  k \in 0..(c - 1)
OBVIOUS

LEMMA Elsewhere ==
  ASSUME NEW r \in Request, NEW x \in Node, PlacedAt(r, x), count'[r] = count[r],
         pc'[r][x] = pc[r][x], piece'[r][x] = piece[r][x],
         at'[r][x] = at[r][x], tmp'[r][x] = tmp[r][x],
         pc[r][x] \in {"join", "merge"} =>
           piece'[r][Left(x)] = piece[r][Left(x)] /\ piece'[r][Right(x)] = piece[r][Right(x)]
  PROVE  PlacedAt(r, x)'
BY DEF PlacedAt, Merging

\* A step that moves no entry of a row: no merge has got further, and what is to
\* be copied is the same.
LEMMA NothingMoves ==
  ASSUME NEW r \in Request, input' = input, count'[r] = count[r], row'[r] = row[r],
         \A x \in Node :
           /\ pc'[r][x] = "copy" <=> pc[r][x] = "copy"
           /\ pc[r][x] = "copy" =>
                at'[r][x] = at[r][x] /\ tmp'[r][x] = tmp[r][x] /\ piece'[r][x] = piece[r][x]
           /\ pc'[r][x] = "merge" =>
                \/ /\ pc[r][x] = "merge"
                   /\ tmp'[r][x] = tmp[r][x] /\ piece'[r][x] = piece[r][x]
                   /\ piece'[r][Left(x)] = piece[r][Left(x)]
                   /\ piece'[r][Right(x)] = piece[r][Right(x)]
                \/ \A k \in Slot : ~Consumed(r, x, k)'
  PROVE  Kept(r) => Kept(r)'
<1>. SUFFICES ASSUME Kept(r) PROVE Kept(r)'
  OBVIOUS
<1>1. Merged(r)'
  <2>. SUFFICES ASSUME NEW x \in Node, pc'[r][x] = "merge", NEW k \in Slot, Consumed(r, x, k)'
       PROVE \E j \in 1..Len(tmp'[r][x]) : tmp'[r][x][j].movie = row'[r][k].movie
    BY DEF Merged
  <2>1. /\ pc[r][x] = "merge"
        /\ tmp'[r][x] = tmp[r][x] /\ piece'[r][x] = piece[r][x]
        /\ piece'[r][Left(x)] = piece[r][Left(x)] /\ piece'[r][Right(x)] = piece[r][Right(x)]
    OBVIOUS
  <2>2. Consumed(r, x, k)
    BY <2>1 DEF Consumed
  <2>3. \E j \in 1..Len(tmp[r][x]) : tmp[r][x][j].movie = row[r][k].movie
    BY <2>1, <2>2 DEF Kept, Merged
  <2>. QED  BY <2>1, <2>3
<1>2. \A x \in Node : \A k : Copying(r, x, k)' <=> Copying(r, x, k)
  BY DEF Copying
<1>3. ASSUME NEW k, NEW m, Carries(r, k, m) PROVE Carries(r, k, m)'
  <2>1. CASE \E x \in Node : Copying(r, x, k) /\ tmp[r][x][k - piece[r][x].start + 1].movie = m
    <3>1. PICK x \in Node : Copying(r, x, k) /\ tmp[r][x][k - piece[r][x].start + 1].movie = m
      BY <2>1
    <3>2. tmp'[r][x] = tmp[r][x] /\ piece'[r][x] = piece[r][x]
      BY <3>1 DEF Copying
    <3>3. Copying(r, x, k)' /\ tmp'[r][x][k - piece'[r][x].start + 1].movie = m
      BY <1>2, <3>1, <3>2
    <3>. QED  BY <3>3 DEF Carries
  <2>2. CASE (\A x \in Node : ~Copying(r, x, k)) /\ row[r][k].movie = m
    BY <1>2, <2>2 DEF Carries
  <2>. QED  BY <1>3, <2>1, <2>2 DEF Carries
<1>4. AllThere(r)'
  BY <1>3 DEF Kept, AllThere, req
<1>. QED  BY <1>1, <1>4 DEF Kept

\* Two calls at work have no slot in common.
LEMMA ApartWorking ==
  ASSUME NEW r \in Request, RowInv(pc[r], piece[r]), NEW n \in Node, NEW x \in Node, x # n,
         pc[r][n] \in Working, pc[r][x] \in Working, NEW k \in Int, Within(k, piece[r][n])
  PROVE  ~Within(k, piece[r][x])
BY DEF RowInv, RowDisjoint, Owns

-----------------------------------------------------------------------------
(* One lemma for each kind of step.                                        *)

\* What a lemma about a step may assume, and what it shows of the row.
RowBefore(r, n) ==
  /\ TypeOK /\ RowInv(pc[r], piece[r]) /\ Placed(r)
  /\ input' = input /\ count' = count

LEMMA SmallKeeps ==
  ASSUME NEW r \in Request, NEW n \in Node, RowBefore(r, n), Small(r, n)
  PROVE  Placed(r)' /\ (Kept(r) => Kept(r)')
<1>1. /\ pc[r][n] = "start" /\ pc'[r][n] = "sort" /\ at'[r][n] = piece[r][n].start
      /\ \A x \in Node : x # n => pc'[r][x] = pc[r][x] /\ at'[r][x] = at[r][x]
      /\ piece' = piece /\ row' = row /\ tmp' = tmp /\ input' = input /\ count' = count
  BY DEF RowBefore, TypeOK, Small
<1>2. PlacedAt(r, n)'
  <2>1. piece[r][n].start \in Int
    BY RowTypes DEF RowBefore
  <2>2. PlacedAt(r, n)
    BY DEF RowBefore, Placed
  <2>. QED  BY <1>1, <2>1, <2>2 DEF PlacedAt
<1>3. \A x \in Node : x # n => PlacedAt(r, x)'
  BY <1>1, Elsewhere DEF RowBefore, Placed
<1>4. Kept(r) => Kept(r)'
  BY <1>1, NothingMoves
<1>. QED  BY <1>2, <1>3, <1>4 DEF Placed

LEMMA SplitKeeps ==
  ASSUME NEW r \in Request, NEW n \in Node, RowBefore(r, n), Split(r, n)
  PROVE  Placed(r)' /\ (Kept(r) => Kept(r)')
<1>. DEFINE L == Left(n)
            R == Right(n)
            p == piece[r][n]
            m == (p.end + p.start) \div 2
<1>1. pc[r][n] = "start" /\ ~IsSmall(p)
  BY DEF Split
<1>2. p.start \in Int /\ p.end \in Int /\ count[r] \in Nat /\ p.level \in Int
  BY RowTypes DEF RowBefore, Piece
<1>3. n \in Inner
  BY <1>1, SortAssumption DEF RowBefore, RowInv, Levels, IsSmall, Inner
<1>4. /\ L \in Node /\ R \in Node /\ L # R /\ L # n /\ R # n
      /\ Half(L, n) /\ Half(R, n)
  BY <1>3, Children DEF Half
<1>5. PlacedAt(r, n) /\ PlacedAt(r, L) /\ PlacedAt(r, R)
  BY <1>4 DEF RowBefore, Placed
<1>6. pc[r][L] = "idle" /\ pc[r][R] = "idle"
  BY <1>1, <1>3 DEF RowBefore, RowInv, Resting
<1>7. p.start < p.end /\ m \in Int /\ p.start <= m /\ m < p.end
  <2>1. p.end - p.start >= 1
    BY <1>1, <1>2, SortAssumption DEF IsSmall
  <2>. QED  BY <1>2, <2>1
<1>8. /\ pc'[r][n] = "join" /\ pc'[r][L] = "start" /\ pc'[r][R] \in {"start", "idle"}
      /\ \A x \in Node : x \notin {n, L, R} => pc'[r][x] = pc[r][x]
  <2>1. pc' = [pc EXCEPT ![r][n] = "join", ![r][L] = "start", ![r][R] = Launched]
    BY DEF Split
  <2>2. pc \in [Request -> [Node -> State]]
    BY DEF RowBefore, TypeOK, State
  <2>. HIDE DEF L, R
  <2>. QED  BY <1>4, <2>1, <2>2 DEF Launched
<1>9. /\ piece'[r][L] = [start |-> p.start, end |-> m, level |-> p.level + 1]
      /\ piece'[r][R] = [start |-> m + 1, end |-> p.end, level |-> p.level + 1]
      /\ \A x \in Node : x \notin {L, R} => piece'[r][x] = piece[r][x]
  <2>1. piece' = [piece EXCEPT ![r][L] = Halves(p)[1], ![r][R] = Halves(p)[2]]
    BY DEF Split
  <2>2. piece \in [Request -> [Node -> Piece]]
    BY RowTypes DEF RowBefore, TypeOK
  <2>3. /\ Halves(p)[1] = [start |-> p.start, end |-> m, level |-> p.level + 1]
        /\ Halves(p)[2] = [start |-> m + 1, end |-> p.end, level |-> p.level + 1]
    BY DEF Halves
  <2>. HIDE DEF L, R, p, m
  <2>. QED  BY <1>4, <2>1, <2>2, <2>3
<1>10. row' = row /\ at' = at /\ tmp' = tmp /\ input' = input /\ count' = count
  BY DEF RowBefore, Split
<1>11. PlacedAt(r, n)'
  <2>1. piece'[r][n] = p
    BY <1>4, <1>9
  <2>2. 0 <= p.start /\ p.end < count[r] /\ tmp[r][n] = <<>>
    BY <1>1, <1>5 DEF PlacedAt
  <2>3. piece'[r][L].end = m
    BY <1>9
  <2>. QED  BY <1>2, <1>7, <1>8, <1>10, <2>1, <2>2, <2>3 DEF PlacedAt
<1>12. PlacedAt(r, L)' /\ PlacedAt(r, R)'
  <2>1. tmp[r][L] = <<>> /\ tmp[r][R] = <<>>
    BY <1>5, <1>6 DEF PlacedAt
  <2>2. 0 <= p.start /\ p.end < count[r]
    BY <1>1, <1>5 DEF PlacedAt
  <2>3. piece'[r][L].start = p.start /\ piece'[r][L].end = m
    BY <1>9
  <2>4. piece'[r][R].start = m + 1 /\ piece'[r][R].end = p.end
    BY <1>9
  <2>. HIDE DEF L, R, p, m
  <2>5. PlacedAt(r, L)'
    BY <1>2, <1>7, <1>8, <1>10, <2>1, <2>2, <2>3 DEF PlacedAt
  <2>6. PlacedAt(r, R)'
    BY <1>2, <1>7, <1>8, <1>10, <2>1, <2>2, <2>4 DEF PlacedAt
  <2>. QED  BY <2>5, <2>6
<1>13. ASSUME NEW x \in Node, x \notin {n, L, R}
       PROVE  /\ pc[r][x] \in {"join", "merge"} =>
                   /\ piece'[r][Left(x)] = piece[r][Left(x)]
                   /\ piece'[r][Right(x)] = piece[r][Right(x)]
              /\ pc'[r][x] = pc[r][x] /\ piece'[r][x] = piece[r][x]
  <2>1. pc'[r][x] = pc[r][x] /\ piece'[r][x] = piece[r][x]
    BY <1>8, <1>9, <1>13
  <2>2. ASSUME pc[r][x] \in {"join", "merge"}
        PROVE /\ piece'[r][Left(x)] = piece[r][Left(x)]
              /\ piece'[r][Right(x)] = piece[r][Right(x)]
    <3>1. x \in Inner
      BY <2>2 DEF RowBefore, RowInv, Levels
    <3>2. Left(x) \in Node /\ Right(x) \in Node /\ Half(Left(x), x) /\ Half(Right(x), x)
      BY <3>1, Children DEF Half
    <3>3. Left(x) \notin {L, R} /\ Right(x) \notin {L, R}
      BY <1>3, <1>4, <1>13, <3>1, <3>2, OneParent
    <3>. QED  BY <1>9, <3>2, <3>3
  <2>. QED  BY <2>1, <2>2
<1>14. ASSUME NEW x \in Node, x \notin {n, L, R} PROVE PlacedAt(r, x)'
  BY <1>10, <1>13, <1>14, Elsewhere DEF RowBefore, Placed
<1>15. Kept(r) => Kept(r)'
  <2>1. ASSUME NEW x \in Node, pc[r][x] = "copy" \/ pc'[r][x] \in {"copy", "merge"}
        PROVE  x \notin {n, L, R}
    BY <1>1, <1>6, <1>8, <2>1
  <2>2. \A x \in Node :
           /\ pc'[r][x] = "copy" <=> pc[r][x] = "copy"
           /\ pc[r][x] = "copy" => piece'[r][x] = piece[r][x]
           /\ pc'[r][x] = "merge" =>
                /\ pc[r][x] = "merge" /\ piece'[r][x] = piece[r][x]
                /\ piece'[r][Left(x)] = piece[r][Left(x)]
                /\ piece'[r][Right(x)] = piece[r][Right(x)]
    BY <1>13, <2>1
  <2>. QED  BY <1>10, <2>2, NothingMoves
<1>. QED  BY <1>11, <1>12, <1>14, <1>15 DEF Placed

\* A merge has taken entries of its own piece.
LEMMA ConsumedWithin ==
  ASSUME NEW r \in Request, NEW n \in Node, RowBefore(r, n), NEW x \in Node,
         pc[r][x] = "merge", NEW k \in Int, Consumed(r, x, k)
  PROVE  Within(k, piece[r][x])
<1>1. Merging(r, x)
  BY DEF RowBefore, Placed, PlacedAt
<1>2. x \in Inner
  BY DEF RowBefore, RowInv, Levels
<1>3. Left(x) \in Node /\ Right(x) \in Node
  BY <1>2, Children
<1>4. /\ piece[r][x].start \in Int /\ piece[r][x].end \in Int
      /\ piece[r][Left(x)].start \in Int /\ piece[r][Left(x)].end \in Int
      /\ piece[r][Right(x)].start \in Int /\ piece[r][Right(x)].end \in Int
  BY <1>3, RowTypes DEF RowBefore
<1>5. /\ piece[r][x].start <= piece[r][Left(x)].start
      /\ piece[r][Left(x)].start <= piece[r][Left(x)].end + 1
      /\ piece[r][Left(x)].end < piece[r][Right(x)].start
      /\ piece[r][Right(x)].start <= piece[r][x].end + 1
  BY <1>1 DEF Merging
<1>6. CASE piece[r][x].start <= k /\ k < piece[r][Left(x)].start
  BY <1>4, <1>5, <1>6 DEF Within
<1>7. CASE piece[r][Left(x)].end < k /\ k < piece[r][Right(x)].start
  BY <1>4, <1>5, <1>7 DEF Within
<1>. QED  BY <1>6, <1>7 DEF Consumed

LEMMA SortKeeps ==
  ASSUME NEW r \in Request, NEW n \in Node, RowBefore(r, n), Sort(r, n)
  PROVE  /\ Placed(r)' /\ (Kept(r) => Kept(r)')
         /\ row'[r] \in [Slot -> Entry] /\ at'[r] \in [Node -> 0..MAX_MOVIES]
<1>. SUFFICES ASSUME NEW k, k = at[r][n], NEW p, p = piece[r][n]
     PROVE  /\ Placed(r)' /\ (Kept(r) => Kept(r)')
            /\ row'[r] \in [Slot -> Entry] /\ at'[r] \in [Node -> 0..MAX_MOVIES]
  OBVIOUS
<1>1. pc[r][n] = "sort" /\ k <= p.end
  BY DEF Sort
<1>2. /\ p.start \in Int /\ p.end \in Int /\ count[r] \in Nat /\ k \in Int
      /\ row[r] \in [Slot -> Entry] /\ \A j \in 0..(count[r] - 1) : j \in Slot
  BY RowTypes DEF RowBefore
<1>3. 0 <= p.start /\ p.end < count[r] /\ p.start <= k /\ tmp[r][n] = <<>>
  BY <1>1 DEF RowBefore, Placed, PlacedAt
<1>4. /\ piece' = piece /\ tmp' = tmp /\ input' = input /\ count' = count
      /\ at[r] \in [Node -> 0..MAX_MOVIES]
  BY DEF Sort, RowBefore, TypeOK
<1>5. CASE Aborts(row[r], k, p.end)
  <2>1. pc' = pc /\ row' = row /\ at' = at
    BY <1>5 DEF Sort
  <2>2. \A x \in Node : PlacedAt(r, x)'
    BY <1>4, <2>1, Elsewhere DEF RowBefore, Placed
  <2>3. Kept(r) => Kept(r)'
    BY <1>4, <2>1, NothingMoves
  <2>. QED  BY <1>2, <1>4, <2>1, <2>2, <2>3 DEF Placed
<1>6. CASE ~Aborts(row[r], k, p.end)
  <2>. DEFINE w == SortAt(row[r], k, p.end)
  <2>1. /\ row' = [row EXCEPT ![r] = w]
        /\ at' = [at EXCEPT ![r][n] = k + 1]
        /\ pc' = [pc EXCEPT ![r][n] = IF k = p.end THEN "done" ELSE "sort"]
    BY <1>6 DEF Sort
  <2>2. /\ row'[r] = w /\ at'[r] = [at[r] EXCEPT ![n] = k + 1] /\ at'[r][n] = k + 1
        /\ pc'[r][n] = IF k = p.end THEN "done" ELSE "sort"
        /\ \A x \in Node : x # n => pc'[r][x] = pc[r][x] /\ at'[r][x] = at[r][x]
    BY <2>1 DEF RowBefore, TypeOK
  <2>. HIDE DEF w
  <2>3. k..p.end \subseteq Slot /\ Slot \subseteq Int
    BY <1>2, <1>3 DEF Slot
  <2>4. PICK best \in k..p.end :
           /\ w \in [Slot -> Entry] /\ w[k] = add_secret(row[r][best])
           /\ best # k => w[best] = row[r][k]
           /\ \A j \in Slot : j # k /\ j # best => w[j] = row[r][j]
    <3>1. /\ Slot \subseteq Int /\ row[r] \in [Slot -> Entry] /\ k \in Int /\ p.end \in Int
          /\ k <= p.end /\ k..p.end \subseteq Slot
      BY <1>1, <1>2, <2>3
    <3>2. Swapped(Slot, row[r], k, p.end, w)
      BY <3>1, SortSwaps DEF w
    <3>. QED  BY <3>2 DEF Swapped
  <2>5. /\ k \in Slot /\ best \in Slot /\ best \in Int
        /\ Within(k, p) /\ Within(best, p)
        /\ k \in 0..(count[r] - 1) /\ best \in 0..(count[r] - 1)
    BY <1>1, <1>2, <1>3, <2>3 DEF Within
  <2>6. w[k].movie = row[r][best].movie /\ w[best].movie = row[r][k].movie
    BY <1>2, <2>4, <2>5, MarkedMovie
  <2>7. \A x \in Node : PlacedAt(r, x)'
    <3>1. PlacedAt(r, n)'
      <4>1. PlacedAt(r, n)
        BY DEF RowBefore, Placed
      <4>. QED  BY <1>1, <1>2, <1>3, <1>4, <2>2, <4>1 DEF PlacedAt
    <3>2. \A x \in Node : x # n => PlacedAt(r, x)'
      BY <1>4, <2>2, Elsewhere DEF RowBefore, Placed
    <3>. QED  BY <3>1, <3>2
  <2>8. ASSUME NEW x \in Node, pc[r][x] \in {"merge", "copy"}, NEW j \in Slot, Within(j, piece[r][x])
        PROVE  w[j] = row[r][j] /\ ~Within(k, piece[r][x]) /\ ~Within(best, piece[r][x])
    <3>1. x # n /\ pc[r][x] \in Working /\ pc[r][n] \in Working
      BY <1>1, <2>8 DEF Working
    <3>2. ~Within(k, piece[r][x]) /\ ~Within(best, piece[r][x])
      BY <1>2, <2>5, <3>1, ApartWorking DEF RowBefore
    <3>. QED  BY <2>4, <2>8, <3>2
  <2>9. ASSUME Kept(r) PROVE Merged(r)'
    <3>. SUFFICES ASSUME NEW x \in Node, pc'[r][x] = "merge", NEW j \in Slot, Consumed(r, x, j)'
         PROVE \E i \in 1..Len(tmp'[r][x]) : tmp'[r][x][i].movie = row'[r][j].movie
      BY DEF Merged
    <3>1. pc[r][x] = "merge" /\ Consumed(r, x, j)
      BY <1>4, <2>2 DEF Consumed
    <3>2. Within(j, piece[r][x])
      BY <2>3, <3>1, ConsumedWithin
    <3>3. row'[r][j] = row[r][j]
      BY <2>2, <2>8, <3>1, <3>2
    <3>4. \E i \in 1..Len(tmp[r][x]) : tmp[r][x][i].movie = row[r][j].movie
      BY <2>9, <3>1 DEF Kept, Merged
    <3>. QED  BY <1>4, <3>3, <3>4
  <2>10. \A x \in Node : \A j : Copying(r, x, j)' <=> Copying(r, x, j)
    <3>. SUFFICES ASSUME NEW x \in Node, NEW j PROVE Copying(r, x, j)' <=> Copying(r, x, j)
      OBVIOUS
    <3>1. CASE x = n
      BY <1>1, <2>2, <3>1 DEF Copying
    <3>2. CASE x # n
      BY <1>4, <2>2, <3>2 DEF Copying
    <3>. QED  BY <3>1, <3>2
  <2>11. ASSUME NEW x \in Node, NEW j \in Slot, Copying(r, x, j)
         PROVE  pc[r][x] = "copy" /\ Within(j, piece[r][x])
    <3>1. pc[r][x] = "copy" /\ piece[r][x].start <= at[r][x]
      BY <2>11 DEF Copying, RowBefore, Placed, PlacedAt
    <3>2. piece[r][x].start \in Int /\ piece[r][x].end \in Int /\ at[r][x] \in Int /\ j \in Int
      BY <2>3, RowTypes DEF RowBefore
    <3>. QED  BY <2>11, <3>1, <3>2 DEF Copying, Within
  <2>12. \A x \in Node : ~Copying(r, x, k) /\ ~Copying(r, x, best)
    BY <2>5, <2>8, <2>11
  <2>13. ASSUME NEW m, NEW j \in 0..(count[r] - 1), Carries(r, j, m)
         PROVE  \E i \in 0..(count[r] - 1) : Carries(r, i, m)'
    <3>1. CASE \E x \in Node : Copying(r, x, j) /\ tmp[r][x][j - piece[r][x].start + 1].movie = m
      BY <1>4, <2>10, <3>1 DEF Carries
    <3>2. CASE (\A x \in Node : ~Copying(r, x, j)) /\ row[r][j].movie = m
      <4>1. CASE j = k
        <5>. best \in 0..(count[r] - 1)
          BY <2>5
        <5>. WITNESS best \in 0..(count[r] - 1)
        <5>. QED  BY <2>2, <2>6, <2>10, <2>12, <3>2, <4>1 DEF Carries
      <4>2. CASE j = best
        <5>. k \in 0..(count[r] - 1)
          BY <2>5
        <5>. WITNESS k \in 0..(count[r] - 1)
        <5>. QED  BY <2>2, <2>6, <2>10, <2>12, <3>2, <4>2 DEF Carries
      <4>3. CASE j # k /\ j # best
        <5>1. row'[r][j] = row[r][j]
          BY <1>2, <2>2, <2>4, <4>3
        <5>. WITNESS j \in 0..(count[r] - 1)
        <5>. QED  BY <2>10, <3>2, <5>1 DEF Carries
      <4>. QED  BY <4>1, <4>2, <4>3
    <3>. QED  BY <2>13, <3>1, <3>2 DEF Carries
  <2>14. Kept(r) => AllThere(r)'
    BY <1>4, <2>13 DEF Kept, AllThere, req
  <2>15. at'[r] \in [Node -> 0..MAX_MOVIES]
    <3>1. k + 1 \in 0..MAX_MOVIES
      BY <2>5, LimitAssumption DEF Slot
    <3>. QED  BY <1>4, <2>2, <3>1
  <2>. QED  BY <2>2, <2>4, <2>7, <2>9, <2>14, <2>15 DEF Placed, Kept
<1>. QED  BY <1>5, <1>6

LEMMA SortNothingKeeps ==
  ASSUME NEW r \in Request, NEW n \in Node, RowBefore(r, n), SortNothing(r, n)
  PROVE  Placed(r)' /\ (Kept(r) => Kept(r)')
<1>1. /\ pc[r][n] = "sort" /\ piece[r][n].end < piece[r][n].start
      /\ piece' = piece /\ row' = row /\ at' = at /\ input' = input /\ count' = count
      /\ piece[r][n].start \in Int /\ piece[r][n].end \in Int
  BY RowTypes DEF SortNothing, RowBefore
<1>2. PlacedAt(r, n)
  BY DEF RowBefore, Placed
<1>3. count[r] = 0 /\ 0 <= piece[r][n].start /\ piece[r][n].end < count[r] /\ tmp[r][n] = <<>>
  BY <1>1, <1>2 DEF PlacedAt
<1>4. \/ pc'[r][n] = "done" /\ tmp'[r][n] = tmp[r][n]
      \/ pc'[r][n] = "mark" /\ Len(tmp'[r][n]) = 1
  BY DEF SortNothing, RowBefore, TypeOK
<1>5. \A x \in Node : x # n => pc'[r][x] = pc[r][x] /\ tmp'[r][x] = tmp[r][x]
  BY DEF SortNothing, RowBefore, TypeOK
<1>6. PlacedAt(r, n)'
  BY <1>1, <1>3, <1>4 DEF PlacedAt
<1>7. \A x \in Node : x # n => PlacedAt(r, x)'
  BY <1>1, <1>5, Elsewhere DEF RowBefore, Placed
<1>8. Kept(r) => Kept(r)'
  BY <1>1, <1>4, <1>5, NothingMoves
<1>. QED  BY <1>6, <1>7, <1>8 DEF Placed

\* Marking the slot of another row is no step of this row's entries.
LEMMA MarkKeeps ==
  ASSUME NEW r \in Request, NEW n \in Node, RowBefore(r, n), Mark(r, n)
  PROVE  Placed(r)' /\ (Kept(r) => Kept(r)')
<1>1. /\ pc[r][n] = "mark" /\ pc'[r][n] = "done" /\ tmp'[r][n] = <<>>
      /\ \A x \in Node : x # n => pc'[r][x] = pc[r][x] /\ tmp'[r][x] = tmp[r][x]
      /\ piece' = piece /\ at' = at /\ input' = input /\ count' = count
  BY DEF Mark, RowBefore, TypeOK
<1>2. row'[r] = row[r]
  <2>1. r - 1 # r
    BY DEF Request
  <2>. QED  BY <2>1 DEF Mark, RowBefore, TypeOK
<1>3. PlacedAt(r, n)'
  BY <1>1 DEF PlacedAt
<1>4. \A x \in Node : x # n => PlacedAt(r, x)'
  BY <1>1, Elsewhere DEF RowBefore, Placed
<1>5. Kept(r) => Kept(r)'
  BY <1>1, <1>2, NothingMoves
<1>. QED  BY <1>3, <1>4, <1>5 DEF Placed

LEMMA JoinKeeps ==
  ASSUME NEW r \in Request, NEW n \in Node, RowBefore(r, n), Join(r, n)
  PROVE  Placed(r)' /\ (Kept(r) => Kept(r)')
<1>. DEFINE L == Left(n)
            R == Right(n)
<1>1. /\ pc[r][n] = "join" /\ pc'[r][n] = "merge"
      /\ \A x \in Node : x # n => pc'[r][x] = pc[r][x]
      /\ piece' = piece /\ row' = row /\ at' = at /\ tmp' = tmp
      /\ input' = input /\ count' = count
  BY DEF Join, RowBefore, TypeOK
<1>2. n \in Inner
  BY <1>1 DEF RowBefore, RowInv, Levels
<1>3. /\ L \in Node /\ R \in Node
      /\ piece[r][L].start = piece[r][n].start
      /\ piece[r][R].start = piece[r][L].end + 1
      /\ piece[r][R].end = piece[r][n].end
  BY <1>1, <1>2, Children DEF RowBefore, RowInv, Halved
<1>4. /\ piece[r][n].start \in Int /\ piece[r][n].end \in Int
      /\ piece[r][L].start \in Int /\ piece[r][L].end \in Int
      /\ piece[r][R].start \in Int /\ piece[r][R].end \in Int
  BY <1>3, RowTypes DEF RowBefore
<1>5. PlacedAt(r, n)
  BY DEF RowBefore, Placed
<1>6. Len(tmp[r][n]) = 0 /\ piece[r][n].start <= piece[r][L].end /\ piece[r][L].end < piece[r][n].end
  BY <1>1, <1>5 DEF PlacedAt
<1>7. Merging(r, n)'
  <2>. HIDE DEF L, R
  <2>1. /\ Len(tmp'[r][n]) = 0
        /\ piece'[r][L].start = piece[r][n].start /\ piece'[r][R].start = piece[r][L].end + 1
    BY <1>1, <1>3, <1>6
  <2>2. piece[r][n].start <= piece[r][L].start /\ piece[r][L].start - piece[r][n].start = 0
    BY <1>3, <1>4
  <2>3. piece[r][L].end < piece[r][R].start /\ piece[r][R].start - (piece[r][L].end + 1) = 0
    BY <1>3, <1>4
  <2>4. piece[r][L].start <= piece[r][L].end + 1 /\ 0 <= piece[r][n].end - piece[r][n].start
    BY <1>3, <1>4, <1>6
  <2>5. piece[r][R].start <= piece[r][R].end + 1
    BY <1>3, <1>4, <1>6
  <2>. QED  BY <1>1, <1>3, <2>1, <2>2, <2>3, <2>4, <2>5 DEF Merging, L, R
<1>8. PlacedAt(r, n)'
  BY <1>1, <1>5, <1>7 DEF PlacedAt
<1>9. \A x \in Node : x # n => PlacedAt(r, x)'
  BY <1>1, Elsewhere DEF RowBefore, Placed
<1>10. \A k \in Slot : ~Consumed(r, n, k)'
  <2>. SUFFICES ASSUME NEW k \in Slot, Consumed(r, n, k)' PROVE FALSE
    OBVIOUS
  <2>1. k \in Int
    BY DEF Slot
  <2>. QED  BY <1>1, <1>3, <1>4, <2>1 DEF Consumed
<1>11. Kept(r) => Kept(r)'
  BY <1>1, <1>10, NothingMoves
<1>. QED  BY <1>8, <1>9, <1>11 DEF Placed

\* A merge takes the next entry of a half that is not used up.
LEMMA MergeTakes ==
  ASSUME NEW r \in Request, NEW n \in Node, RowBefore(r, n), Merge(r, n)
  PROVE  /\ n \in Inner /\ Merging(r, n) /\ pc[r][n] = "merge"
         /\ \E h \in {Left(n), Right(n)} :
              /\ piece' = [piece EXCEPT ![r][h].start = @ + 1]
              /\ tmp' = [tmp EXCEPT ![r][n] = Append(@, row[r][piece[r][h].start])]
              /\ piece[r][h].start <= piece[r][h].end
              /\ Within(piece[r][h].start, piece[r][n])
<1>. DEFINE L == piece[r][Left(n)]
            R == piece[r][Right(n)]
            p == piece[r][n]
<1>1. pc[r][n] = "merge"
  BY DEF Merge
<1>2. n \in Inner /\ Merging(r, n)
  BY <1>1 DEF RowBefore, RowInv, Levels, Placed, PlacedAt
<1>3. /\ L.start \in Int /\ L.end \in Int /\ R.start \in Int /\ R.end \in Int
      /\ p.start \in Int /\ p.end \in Int
  BY <1>2, Children, RowTypes DEF RowBefore
<1>4. /\ p.start <= L.start /\ L.start <= L.end + 1 /\ L.end < R.start
      /\ R.start <= R.end + 1 /\ R.end = p.end
      /\ (L.start - p.start) + (R.start - (L.end + 1)) <= p.end - p.start
  BY <1>2 DEF Merging
<1>5. CASE TakesLeft(L, R, row[r])
  <2>1. L.start <= L.end
    BY <1>5 DEF TakesLeft
  <2>2. /\ piece' = [piece EXCEPT ![r][Left(n)].start = @ + 1]
        /\ tmp' = [tmp EXCEPT ![r][n] = Append(@, row[r][L.start])]
    BY <1>5 DEF Merge
  <2>3. Within(L.start, p)
    BY <1>3, <1>4, <2>1 DEF Within
  <2>. QED  BY <1>1, <1>2, <2>1, <2>2, <2>3
<1>6. CASE ~TakesLeft(L, R, row[r])
  <2>1. L.start <= L.end => R.start <= R.end
    BY <1>3, <1>6 DEF TakesLeft
  <2>2. R.start <= R.end
    BY <1>3, <1>4, <2>1
  <2>3. /\ piece' = [piece EXCEPT ![r][Right(n)].start = @ + 1]
        /\ tmp' = [tmp EXCEPT ![r][n] = Append(@, row[r][R.start])]
    BY <1>6 DEF Merge
  <2>4. Within(R.start, p)
    BY <1>3, <1>4, <2>2 DEF Within
  <2>. QED  BY <1>1, <1>2, <2>2, <2>3, <2>4
<1>. QED  BY <1>5, <1>6

LEMMA MergeKeeps ==
  ASSUME NEW r \in Request, NEW n \in Node, RowBefore(r, n), Merge(r, n)
  PROVE  Placed(r)' /\ (Kept(r) => Kept(r)')
<1>1. /\ n \in Inner /\ Merging(r, n) /\ pc[r][n] = "merge"
      /\ input' = input /\ count' = count /\ row' = row
  BY MergeTakes DEF RowBefore, Merge
<1>2. PICK h \in {Left(n), Right(n)} :
              /\ piece' = [piece EXCEPT ![r][h].start = @ + 1]
              /\ tmp' = [tmp EXCEPT ![r][n] = Append(@, row[r][piece[r][h].start])]
              /\ piece[r][h].start <= piece[r][h].end
              /\ Within(piece[r][h].start, piece[r][n])
  BY MergeTakes
<1>. DEFINE L == Left(n)
            R == Right(n)
<1>3. /\ L \in Node /\ R \in Node /\ h \in Node /\ L # R /\ h # n /\ L # n /\ R # n
      /\ Half(h, n)
  BY <1>1, Children DEF Half
<1>4. /\ piece[r][L].start \in Int /\ piece[r][L].end \in Int
      /\ piece[r][R].start \in Int /\ piece[r][R].end \in Int
      /\ piece[r][n].start \in Int /\ piece[r][n].end \in Int
      /\ tmp[r][n] \in Seq(Entry) /\ count[r] \in Nat
      /\ row[r] \in [Slot -> Entry] /\ \A j \in 0..(count[r] - 1) : j \in Slot
  BY <1>3, RowTypes DEF RowBefore
<1>. SUFFICES ASSUME NEW k, k = piece[r][h].start,
                     NEW s, s = piece[r][n].start, NEW e, e = piece[r][n].end,
                     NEW t, t = tmp[r][n]
     PROVE  Placed(r)' /\ (Kept(r) => Kept(r)')
  OBVIOUS
<1>5. k \in Int /\ s <= k /\ k <= e /\ s \in Int /\ e \in Int
  BY <1>2, <1>4 DEF Within
<1>6. PlacedAt(r, n)
  BY DEF RowBefore, Placed
<1>7. 0 <= s /\ e < count[r]
  BY <1>1, <1>6 DEF PlacedAt
<1>8. k \in Slot /\ row[r][k] \in Entry
  <2>1. k \in 0..(count[r] - 1)
    BY <1>4, <1>5, <1>7
  <2>. QED  BY <1>4, <2>1
<1>9. /\ piece'[r][h].start = k + 1 /\ piece'[r][h].end = piece[r][h].end
      /\ \A x \in Node : x # h => piece'[r][x] = piece[r][x]
      /\ piece'[r][n] = piece[r][n]
  <2>1. piece[r] \in [Node -> Piece] /\ piece \in [Request -> [Node -> Piece]]
    BY RowTypes DEF RowBefore, TypeOK
  <2>2. piece[r][h] \in Piece
    BY <1>3, <2>1
  <2>. QED  BY <1>2, <1>3, <2>1, <2>2 DEF Piece
<1>10. /\ tmp'[r][n] = Append(t, row[r][k]) /\ t \in Seq(Entry)
       /\ \A x \in Node : x # n => tmp'[r][x] = tmp[r][x]
  BY <1>2, <1>4 DEF RowBefore, TypeOK
<1>11. /\ Len(tmp'[r][n]) = Len(t) + 1 /\ Len(t) \in Nat
       /\ \A i \in 1..Len(t) : tmp'[r][n][i] = t[i]
       /\ tmp'[r][n][Len(t) + 1] = row[r][k]
  BY <1>8, <1>10
<1>12. pc[r][h] \in {"idle", "done"} /\ pc[r] \in [Node -> State]
  BY <1>1, RowTypes DEF RowBefore, RowInv, Resting
<1>13. \A x \in Node : x # n => pc'[r][x] = pc[r][x] /\ at'[r][x] = at[r][x]
  <2>1. \/ pc' = pc /\ at' = at
        \/ pc' = [pc EXCEPT ![r][n] = "copy"] /\ at' = [at EXCEPT ![r][n] = s]
    BY DEF Merge
  <2>2. pc \in [Request -> [Node -> State]] /\ at \in [Request -> [Node -> 0..MAX_MOVIES]]
    BY RowTypes DEF RowBefore, TypeOK
  <2>3. \A x \in Node : x # n => pc'[r][x] = pc[r][x]
    BY <2>1, <2>2
  <2>4. \A x \in Node : x # n => at'[r][x] = at[r][x]
    BY <2>1, <2>2
  <2>. QED  BY <2>3, <2>4
<1>14. ASSUME NEW x \in Node, x # n
       PROVE  pc[r][x] \in {"join", "merge"} =>
                piece'[r][Left(x)] = piece[r][Left(x)] /\ piece'[r][Right(x)] = piece[r][Right(x)]
  <2>. SUFFICES ASSUME pc[r][x] \in {"join", "merge"}
       PROVE piece'[r][Left(x)] = piece[r][Left(x)] /\ piece'[r][Right(x)] = piece[r][Right(x)]
    OBVIOUS
  <2>1. x \in Inner
    BY DEF RowBefore, RowInv, Levels
  <2>2. Left(x) \in Node /\ Right(x) \in Node /\ Half(Left(x), x) /\ Half(Right(x), x)
    BY <2>1, Children DEF Half
  <2>3. Left(x) # h /\ Right(x) # h
    BY <1>1, <1>3, <1>14, <2>1, <2>2, OneParent
  <2>. QED  BY <1>9, <2>2, <2>3
<1>15. ASSUME NEW x \in Node, x # n PROVE PlacedAt(r, x)'
  <2>1. PlacedAt(r, x)
    BY DEF RowBefore, Placed
  <2>2. CASE x = h
    <3>1. pc'[r][h] \in {"idle", "done"} /\ tmp'[r][h] = <<>>
      BY <1>3, <1>10, <1>12, <1>13, <2>1, <2>2 DEF PlacedAt
    <3>. QED  BY <2>2, <3>1 DEF PlacedAt
  <2>3. CASE x # h
    BY <1>1, <1>9, <1>10, <1>13, <1>14, <1>15, <2>1, <2>3, Elsewhere
  <2>. QED  BY <2>2, <2>3
\* What is consumed now, and how much of it.
<1>. SUFFICES ASSUME NEW ls, ls = piece[r][L].start, NEW le, le = piece[r][L].end,
                     NEW rs, rs = piece[r][R].start,
                     NEW ls2, ls2 = piece'[r][L].start, NEW rs2, rs2 = piece'[r][R].start
     PROVE  Placed(r)' /\ (Kept(r) => Kept(r)')
  OBVIOUS
<1>24. piece'[r][L].end = le /\ piece'[r][R].end = e /\ piece'[r][n].start = s /\ piece'[r][n].end = e
  <2>1. piece[r][R].end = e
    BY <1>1 DEF Merging
  <2>2. \A x \in Node : piece'[r][x].end = piece[r][x].end
    BY <1>9
  <2>. HIDE DEF L, R
  <2>. QED  BY <1>3, <1>9, <2>1, <2>2
<1>25. /\ s <= ls /\ ls <= le + 1 /\ le < rs /\ rs <= e + 1
       /\ Len(t) = (ls - s) + (rs - (le + 1))
  BY <1>1 DEF Merging
<1>26. \/ k = ls /\ ls <= le /\ ls2 = ls + 1 /\ rs2 = rs
       \/ k = rs /\ rs <= e /\ ls2 = ls /\ rs2 = rs + 1
  <2>1. k <= piece[r][h].end /\ piece[r][R].end = e
    BY <1>1, <1>2 DEF Merging
  <2>2. h = L \/ h = R
    OBVIOUS
  <2>. HIDE DEF L, R
  <2>3. CASE h = L
    BY <1>3, <1>9, <2>1, <2>3
  <2>4. CASE h = R
    BY <1>3, <1>9, <2>1, <2>4
  <2>. QED  BY <2>2, <2>3, <2>4
<1>27. ls \in Int /\ le \in Int /\ rs \in Int /\ Len(t) \in Int
  BY <1>4, <1>11
<1>16. /\ ls2 \in Int /\ rs2 \in Int
       /\ s <= ls2 /\ ls2 <= le + 1 /\ le < rs2 /\ rs2 <= e + 1
       /\ Len(t) + 1 = (ls2 - s) + (rs2 - (le + 1))
       /\ \A j \in Int : (s <= j /\ j < ls2) \/ (le < j /\ j < rs2) =>
            j = k \/ (s <= j /\ j < ls) \/ (le < j /\ j < rs)
       /\ Len(t) = e - s => ls2 = le + 1 /\ rs2 = e + 1
  <2>. HIDE DEF L, R
  <2>1. Further(s, e, ls, le, rs, Len(t), k, ls2, rs2)
    BY <1>5, <1>25, <1>26, <1>27, OneFurther
  <2>. QED  BY <2>1 DEF Further
<1>28. \A j : Consumed(r, n, j)' <=> (s <= j /\ j < ls2) \/ (le < j /\ j < rs2)
  BY <1>24 DEF Consumed
<1>17. ASSUME NEW j \in Int, Consumed(r, n, j)' PROVE j = k \/ Consumed(r, n, j)
  <2>1. Consumed(r, n, j) <=> (s <= j /\ j < ls) \/ (le < j /\ j < rs)
    BY DEF Consumed
  <2>. QED  BY <1>16, <1>17, <1>28, <2>1
<1>18. ASSUME Kept(r), NEW j \in Slot, Consumed(r, n, j)'
       PROVE  \E i \in 1..(Len(t) + 1) : tmp'[r][n][i].movie = row[r][j].movie
  <2>1. CASE j = k
    <3>1. Len(t) + 1 \in 1..(Len(t) + 1)
      BY <1>11
    <3>. QED  BY <1>11, <2>1, <3>1
  <2>2. CASE j # k
    <3>1. Consumed(r, n, j)
      BY <1>17, <1>18, <2>2 DEF Slot
    <3>2. PICK i \in 1..Len(t) : t[i].movie = row[r][j].movie
      BY <1>1, <1>18, <3>1 DEF Kept, Merged
    <3>3. i \in 1..(Len(t) + 1) /\ tmp'[r][n][i] = t[i]
      BY <1>11
    <3>. QED  BY <3>2, <3>3
  <2>. QED  BY <2>1, <2>2
<1>19. ASSUME Kept(r), NEW x \in Node, x # n, pc'[r][x] = "merge",
              NEW j \in Slot, Consumed(r, x, j)'
       PROVE  \E i \in 1..Len(tmp'[r][x]) : tmp'[r][x][i].movie = row'[r][j].movie
  <2>1. pc[r][x] = "merge" /\ x # h /\ tmp'[r][x] = tmp[r][x] /\ piece'[r][x] = piece[r][x]
    BY <1>9, <1>10, <1>12, <1>13, <1>19
  <2>2. Consumed(r, x, j)
    BY <1>14, <1>19, <2>1 DEF Consumed
  <2>3. \E i \in 1..Len(tmp[r][x]) : tmp[r][x][i].movie = row[r][j].movie
    BY <1>19, <2>1, <2>2 DEF Kept, Merged
  <2>. QED  BY <1>1, <2>1, <2>3
<1>20. ASSUME NEW x \in Node, x # n, NEW j
       PROVE  /\ Copying(r, x, j)' <=> Copying(r, x, j)
              /\ Copying(r, x, j) => tmp'[r][x] = tmp[r][x] /\ piece'[r][x] = piece[r][x]
  BY <1>9, <1>10, <1>12, <1>13, <1>20 DEF Copying
<1>21. \A j : ~Copying(r, n, j)
  BY <1>1 DEF Copying
<1>22. CASE Len(t) # e - s
  <2>1. pc' = pc /\ at' = at
    BY <1>22 DEF Merge
  <2>2. PlacedAt(r, n)'
    <3>1. Len(t) <= e - s
      BY <1>1 DEF Merging
    <3>2. Len(t) + 1 <= e - s
      <4>1. Len(t) \in Int /\ e - s \in Int
        BY <1>5, <1>27
      <4>2. \A x, y \in Int : x <= y /\ x # y => x + 1 <= y
        OBVIOUS
      <4>. QED  BY <1>22, <3>1, <4>1, <4>2
    <3>3. Merging(r, n)'
      <4>1. Len(tmp'[r][n]) = (ls2 - s) + (rs2 - (le + 1)) /\ Len(tmp'[r][n]) <= e - s
        BY <1>11, <1>16, <3>2
      <4>2. s <= ls2 /\ ls2 <= le + 1 /\ le < rs2 /\ rs2 <= e + 1
        BY <1>16
      <4>3. /\ piece'[r][Left(n)].start = ls2 /\ piece'[r][Right(n)].start = rs2
            /\ piece'[r][Left(n)].end = le /\ piece'[r][Right(n)].end = e
        BY <1>24
      <4>. QED  BY <1>24, <4>1, <4>2, <4>3 DEF Merging
    <3>. QED  BY <1>1, <1>5, <1>6, <1>7, <1>9, <2>1, <3>3 DEF PlacedAt
  <2>3. Kept(r) => Merged(r)'
    <3>. SUFFICES ASSUME Kept(r), NEW x \in Node, pc'[r][x] = "merge", NEW j \in Slot,
                         Consumed(r, x, j)'
         PROVE \E i \in 1..Len(tmp'[r][x]) : tmp'[r][x][i].movie = row'[r][j].movie
      BY DEF Merged
    <3>1. CASE x = n
      BY <1>1, <1>11, <1>18, <3>1
    <3>2. CASE x # n
      BY <1>19, <3>2
    <3>. QED  BY <3>1, <3>2
  <2>4. \A x \in Node : \A j : Copying(r, x, j)' <=> Copying(r, x, j)
    <3>1. \A j : ~Copying(r, n, j)'
      BY <1>1, <2>1 DEF Copying
    <3>. QED  BY <1>20, <1>21, <3>1
  <2>5. ASSUME NEW j, NEW m, Carries(r, j, m) PROVE Carries(r, j, m)'
    <3>1. CASE \E x \in Node : Copying(r, x, j) /\ tmp[r][x][j - piece[r][x].start + 1].movie = m
      <4>1. PICK x \in Node : Copying(r, x, j) /\ tmp[r][x][j - piece[r][x].start + 1].movie = m
        BY <3>1
      <4>2. tmp'[r][x] = tmp[r][x] /\ piece'[r][x] = piece[r][x]
        BY <1>20, <1>21, <4>1
      <4>3. Copying(r, x, j)' /\ tmp'[r][x][j - piece'[r][x].start + 1].movie = m
        BY <2>4, <4>1, <4>2
      <4>. QED  BY <4>3 DEF Carries
    <3>2. CASE (\A x \in Node : ~Copying(r, x, j)) /\ row[r][j].movie = m
      BY <1>1, <2>4, <3>2 DEF Carries
    <3>. QED  BY <2>5, <3>1, <3>2 DEF Carries
  <2>6. Kept(r) => AllThere(r)'
    BY <1>1, <2>5 DEF Kept, AllThere, req
  <2>. QED  BY <1>15, <2>2, <2>3, <2>6 DEF Placed, Kept
<1>23. CASE Len(t) = e - s
  <2>1. pc'[r][n] = "copy" /\ at'[r][n] = s
    BY <1>23 DEF Merge, RowBefore, TypeOK
  <2>2. PlacedAt(r, n)'
    <3>1. s <= e /\ s <= s
      BY <1>5
    <3>2. Len(tmp'[r][n]) = e - s + 1
      BY <1>5, <1>11, <1>23
    <3>3. piece'[r][n].start = s /\ piece'[r][n].end = e
      BY <1>9
    <3>. QED  BY <1>1, <1>7, <2>1, <3>1, <3>2, <3>3 DEF PlacedAt
  <2>3. Kept(r) => Merged(r)'
    BY <1>19, <2>1 DEF Merged
  <2>4. ASSUME NEW j \in Int, s <= j, j <= e PROVE Consumed(r, n, j)'
    <3>1. ls2 = le + 1 /\ rs2 = e + 1
      BY <1>16, <1>23
    <3>2. (s <= j /\ j < ls2) \/ (le < j /\ j < rs2)
      BY <1>5, <1>27, <2>4, <3>1
    <3>. QED  BY <1>28, <3>2
  <2>5. \A j : Copying(r, n, j)' <=> s <= j /\ j <= e
    BY <1>9, <2>1 DEF Copying
  <2>6. ASSUME Kept(r), NEW j \in 0..(count[r] - 1), NEW m, Carries(r, j, m)
        PROVE  \E i \in 0..(count[r] - 1) : Carries(r, i, m)'
    <3>1. CASE \E x \in Node : Copying(r, x, j) /\ tmp[r][x][j - piece[r][x].start + 1].movie = m
      <4>1. PICK x \in Node : Copying(r, x, j) /\ tmp[r][x][j - piece[r][x].start + 1].movie = m
        BY <3>1
      <4>2. x # n /\ tmp'[r][x] = tmp[r][x] /\ piece'[r][x] = piece[r][x] /\ Copying(r, x, j)'
        BY <1>20, <1>21, <4>1
      <4>. WITNESS j \in 0..(count[r] - 1)
      <4>. QED  BY <4>1, <4>2 DEF Carries
    <3>2. CASE (\A x \in Node : ~Copying(r, x, j)) /\ row[r][j].movie = m /\ s <= j /\ j <= e
      <4>1. j \in Slot /\ j \in Int
        BY <1>4
      <4>2. PICK i \in 1..(Len(t) + 1) : tmp'[r][n][i].movie = m
        BY <1>18, <2>4, <2>6, <3>2, <4>1
      <4>3. PICK g \in Int : g = s + (i - 1)
        BY <1>5
      <4>4. s <= g /\ g <= e /\ g - s + 1 = i
        <5>1. i \in Int /\ 1 <= i /\ i <= (e - s) + 1
          BY <1>5, <1>23
        <5>2. s <= g
          BY <1>5, <4>3, <5>1
        <5>3. g <= e
          BY <1>5, <4>3, <5>1
        <5>4. g - s + 1 = i
          BY <1>5, <4>3, <5>1
        <5>. QED  BY <5>2, <5>3, <5>4
      <4>. g \in 0..(count[r] - 1)
        <5>1. 0 <= g
          BY <1>5, <1>7, <4>3, <4>4
        <5>2. count[r] \in Nat /\ e \in Int /\ e < count[r]
          BY <1>4, <1>5, <1>7
        <5>3. g < count[r]
          BY <4>3, <4>4, <5>2
        <5>. QED  BY <1>4, <4>3, <5>1, <5>3, InRow
      <4>5. Copying(r, n, g)' /\ tmp'[r][n][g - piece'[r][n].start + 1].movie = m
        BY <1>9, <2>5, <4>2, <4>4
      <4>. WITNESS g \in 0..(count[r] - 1)
      <4>. QED  BY <4>5 DEF Carries
    <3>3. CASE (\A x \in Node : ~Copying(r, x, j)) /\ row[r][j].movie = m /\ ~(s <= j /\ j <= e)
      <4>1. \A x \in Node : ~Copying(r, x, j)'
        BY <1>20, <2>5, <3>3
      <4>. WITNESS j \in 0..(count[r] - 1)
      <4>. QED  BY <1>1, <3>3, <4>1 DEF Carries
    <3>. QED  BY <2>6, <3>1, <3>2, <3>3 DEF Carries
  <2>7. Kept(r) => AllThere(r)'
    BY <1>1, <2>6 DEF Kept, AllThere, req
  <2>. QED  BY <1>15, <2>2, <2>3, <2>7 DEF Placed, Kept
<1>. QED  BY <1>22, <1>23

LEMMA CopyKeeps ==
  ASSUME NEW r \in Request, NEW n \in Node, RowBefore(r, n), Copy(r, n)
  PROVE  /\ Placed(r)' /\ (Kept(r) => Kept(r)')
         /\ row'[r] \in [Slot -> Entry] /\ at'[r] \in [Node -> 0..MAX_MOVIES]
<1>. SUFFICES ASSUME NEW i, i = at[r][n], NEW s, s = piece[r][n].start, NEW e, e = piece[r][n].end,
                     NEW t, t = tmp[r][n], NEW x0, x0 = t[i - s + 1]
     PROVE  /\ Placed(r)' /\ (Kept(r) => Kept(r)')
            /\ row'[r] \in [Slot -> Entry] /\ at'[r] \in [Node -> 0..MAX_MOVIES]
  OBVIOUS
<1>1. pc[r][n] = "copy"
  BY DEF Copy
<1>2. /\ s \in Int /\ e \in Int /\ count[r] \in Nat /\ i \in Int /\ t \in Seq(Entry)
      /\ row[r] \in [Slot -> Entry] /\ \A j \in 0..(count[r] - 1) : j \in Slot
  BY RowTypes DEF RowBefore
<1>3. /\ 0 <= s /\ e < count[r] /\ s <= i /\ i <= e /\ Len(t) = e - s + 1
  BY <1>1 DEF RowBefore, Placed, PlacedAt
<1>4. i \in 0..(count[r] - 1) /\ Within(i, piece[r][n])
  BY <1>2, <1>3 DEF Within
<1>5. i \in Slot /\ Slot \subseteq Int
  BY <1>2, <1>4 DEF Slot
<1>6. x0 \in Entry
  <2>. s \in Int /\ e \in Int /\ i \in Int
    BY <1>2
  <2>1. i - s + 1 \in Int /\ 1 <= i - s + 1
    BY <1>3
  <2>2. i - s + 1 <= e - s + 1
    <3>1. \A x, y, z \in Int : x <= y => x - z + 1 <= y - z + 1
      OBVIOUS
    <3>. QED  BY <1>3, <3>1
  <2>3. i - s + 1 \in 1..Len(t)
    BY <1>3, <2>1, <2>2
  <2>. QED  BY <1>2, <2>3
<1>7. /\ piece' = piece /\ input' = input /\ count' = count
      /\ row'[r] = [row[r] EXCEPT ![i] = x0]
      /\ at'[r] = [at[r] EXCEPT ![n] = i + 1]
      /\ \A x \in Node : x # n => pc'[r][x] = pc[r][x] /\ tmp'[r][x] = tmp[r][x] /\ at'[r][x] = at[r][x]
      /\ at[r] \in [Node -> 0..MAX_MOVIES] /\ at'[r][n] = i + 1
  <2>1. /\ row \in [Request -> [Slot -> Entry]] /\ at \in [Request -> [Node -> 0..MAX_MOVIES]]
        /\ pc \in [Request -> [Node -> State]] /\ tmp \in [Request -> [Node -> Seq(Entry)]]
    BY DEF RowBefore, TypeOK, State
  <2>2. /\ piece' = piece /\ input' = input /\ count' = count
        /\ row' = [row EXCEPT ![r][i] = x0] /\ at' = [at EXCEPT ![r][n] = i + 1]
    BY DEF Copy, RowBefore
  <2>3. pc' = pc \/ pc' = [pc EXCEPT ![r][n] = "done"]
    BY DEF Copy
  <2>4. tmp' = tmp \/ tmp' = [tmp EXCEPT ![r][n] = <<>>]
    BY DEF Copy
  <2>5. \A x \in Node : x # n => pc'[r][x] = pc[r][x]
    BY <2>1, <2>3
  <2>6. \A x \in Node : x # n => tmp'[r][x] = tmp[r][x]
    BY <2>1, <2>4
  <2>7. row'[r] = [row[r] EXCEPT ![i] = x0]
    BY <2>1, <2>2
  <2>8. at'[r] = [at[r] EXCEPT ![n] = i + 1]
    BY <2>1, <2>2
  <2>. QED  BY <2>1, <2>2, <2>5, <2>6, <2>7, <2>8
<1>8. /\ row'[r] \in [Slot -> Entry] /\ row'[r][i] = x0
      /\ \A j \in Slot : j # i => row'[r][j] = row[r][j]
  BY <1>2, <1>5, <1>6, <1>7
<1>9. \/ i = e /\ pc'[r][n] = "done" /\ tmp'[r][n] = <<>>
      \/ i # e /\ pc'[r][n] = "copy" /\ tmp'[r][n] = t
  <2>1. CASE i = e
    BY <2>1 DEF Copy, RowBefore, TypeOK
  <2>2. CASE i # e
    BY <1>1, <2>2 DEF Copy
  <2>. QED  BY <2>1, <2>2
<1>10. at'[r] \in [Node -> 0..MAX_MOVIES]
  <2>1. i + 1 \in 0..MAX_MOVIES
    BY <1>5, LimitAssumption DEF Slot
  <2>. QED  BY <1>7, <2>1
<1>11. PlacedAt(r, n)'
  <2>1. PlacedAt(r, n)
    BY DEF RowBefore, Placed
  <2>2. CASE i = e
    BY <1>9, <2>2 DEF PlacedAt
  <2>3. CASE i # e
    <3>1. s <= i + 1 /\ i + 1 <= e
      BY <1>2, <1>3, <2>3
    <3>. QED  BY <1>1, <1>7, <1>9, <2>1, <2>3, <3>1 DEF PlacedAt
  <2>. QED  BY <2>2, <2>3
<1>12. \A x \in Node : x # n => PlacedAt(r, x)'
  BY <1>7, Elsewhere DEF RowBefore, Placed
<1>13. ASSUME NEW x \in Node, x # n, pc[r][x] \in {"merge", "copy"}
       PROVE  ~Within(i, piece[r][x])
  BY <1>1, <1>4, <1>5, <1>13, ApartWorking DEF Working, RowBefore
<1>14. ASSUME Kept(r) PROVE Merged(r)'
  <2>. SUFFICES ASSUME NEW x \in Node, pc'[r][x] = "merge", NEW j \in Slot, Consumed(r, x, j)'
       PROVE \E g \in 1..Len(tmp'[r][x]) : tmp'[r][x][g].movie = row'[r][j].movie
    BY DEF Merged
  <2>1. x # n
    BY <1>9
  <2>2. pc[r][x] = "merge" /\ Consumed(r, x, j)
    BY <1>7, <2>1 DEF Consumed
  <2>3. Within(j, piece[r][x])
    BY <1>5, <2>2, ConsumedWithin
  <2>4. j # i
    BY <1>13, <2>1, <2>2, <2>3
  <2>5. \E g \in 1..Len(tmp[r][x]) : tmp[r][x][g].movie = row[r][j].movie
    BY <1>14, <2>2 DEF Kept, Merged
  <2>. QED  BY <1>7, <1>8, <2>1, <2>4, <2>5
<1>15. \A x \in Node : \A j : x # n => (Copying(r, x, j)' <=> Copying(r, x, j))
  BY <1>7 DEF Copying
<1>16. \A j : Copying(r, n, j) <=> i <= j /\ j <= e
  BY <1>1 DEF Copying
<1>17. \A j \in Int : Copying(r, n, j)' <=> i + 1 <= j /\ j <= e
  <2>1. CASE i = e
    BY <1>2, <1>9, <2>1 DEF Copying
  <2>2. CASE i # e
    BY <1>7, <1>9, <2>2 DEF Copying
  <2>. QED  BY <2>1, <2>2
<1>18. \A x \in Node : x # n => ~Copying(r, x, i)
  <2>. SUFFICES ASSUME NEW x \in Node, x # n, Copying(r, x, i) PROVE FALSE
    OBVIOUS
  <2>1. pc[r][x] = "copy" /\ piece[r][x].start <= at[r][x]
    BY DEF Copying, RowBefore, Placed, PlacedAt
  <2>2. piece[r][x].start \in Int /\ piece[r][x].end \in Int /\ at[r][x] \in Int
    BY RowTypes DEF RowBefore
  <2>3. Within(i, piece[r][x])
    BY <1>2, <2>1, <2>2 DEF Copying, Within
  <2>. QED  BY <1>13, <2>1, <2>3
<1>19. ASSUME NEW m, Carries(r, i, m) PROVE Carries(r, i, m)'
  <2>1. x0.movie = m
    <3>1. Copying(r, n, i)
      BY <1>2, <1>3, <1>16
    <3>. QED  BY <1>18, <1>19, <3>1 DEF Carries
  <2>2. \A x \in Node : ~Copying(r, x, i)'
    BY <1>2, <1>15, <1>17, <1>18
  <2>. QED  BY <1>8, <2>1, <2>2 DEF Carries
<1>20. ASSUME NEW j \in Slot, j # i, NEW m, Carries(r, j, m) PROVE Carries(r, j, m)'
  <2>1. Copying(r, n, j)' <=> Copying(r, n, j)
    BY <1>2, <1>5, <1>16, <1>17, <1>20
  <2>2. \A x \in Node : Copying(r, x, j)' <=> Copying(r, x, j)
    BY <1>15, <2>1
  <2>3. CASE \E x \in Node : Copying(r, x, j) /\ tmp[r][x][j - piece[r][x].start + 1].movie = m
    <3>1. PICK x \in Node : Copying(r, x, j) /\ tmp[r][x][j - piece[r][x].start + 1].movie = m
      BY <2>3
    <3>2. Copying(r, x, j)'
      BY <2>2, <3>1
    <3>3. tmp'[r][x] = tmp[r][x]
      BY <1>7, <1>9, <3>2 DEF Copying
    <3>. QED  BY <1>7, <3>1, <3>2, <3>3 DEF Carries
  <2>4. CASE (\A x \in Node : ~Copying(r, x, j)) /\ row[r][j].movie = m
    BY <1>8, <1>20, <2>2, <2>4 DEF Carries
  <2>. QED  BY <1>20, <2>3, <2>4 DEF Carries
<1>21. Kept(r) => AllThere(r)'
  BY <1>2, <1>7, <1>19, <1>20 DEF Kept, AllThere, req
<1>. QED  BY <1>8, <1>10, <1>11, <1>12, <1>14, <1>21 DEF Placed, Kept

-----------------------------------------------------------------------------
(* The other rows.                                                         *)

\* No call of request x does anything.
RowStays(x) ==
  pc'[x] = pc[x] /\ piece'[x] = piece[x] /\ at'[x] = at[x] /\ tmp'[x] = tmp[x]

\* Entries behind the last match of a row are nobody's.
LEMMA OtherKeeps ==
  ASSUME NEW x \in Request, TypeOK, RowInv(pc[x], piece[x]), Placed(x),
         input' = input, count'[x] = count[x], RowStays(x)
  PROVE  /\ Placed(x)'
         /\ Kept(x) /\ (\A k \in 0..(count[x] - 1) : row'[x][k] = row[x][k]) => Kept(x)'
<1>1. /\ pc'[x] = pc[x] /\ piece'[x] = piece[x] /\ at'[x] = at[x] /\ tmp'[x] = tmp[x]
      /\ input' = input /\ count'[x] = count[x]
  BY DEF RowStays
<1>2. Placed(x)'
  <2>. SUFFICES ASSUME NEW n \in Node PROVE PlacedAt(x, n)'
    BY DEF Placed
  <2>. QED  BY <1>1, Elsewhere DEF Placed
<1>3. \A n \in Node : \A k :
        /\ Consumed(x, n, k)' <=> Consumed(x, n, k)
        /\ Copying(x, n, k)' <=> Copying(x, n, k)
  BY <1>1 DEF Consumed, Copying
<1>. SUFFICES ASSUME Kept(x), \A k \in 0..(count[x] - 1) : row'[x][k] = row[x][k] PROVE Kept(x)'
  BY <1>2
<1>4. Merged(x)'
  <2>. SUFFICES ASSUME NEW n \in Node, pc'[x][n] = "merge", NEW k \in Slot, Consumed(x, n, k)'
       PROVE \E j \in 1..Len(tmp'[x][n]) : tmp'[x][n][j].movie = row'[x][k].movie
    BY DEF Merged
  <2>1. pc[x][n] = "merge" /\ Consumed(x, n, k)
    BY <1>1, <1>3
  <2>2. PlacedAt(x, n) /\ Merging(x, n) /\ n \in Inner
    BY <2>1 DEF Placed, PlacedAt, RowInv, Levels
  <2>3. 0 <= piece[x][n].start /\ piece[x][n].end < count[x]
    BY <2>1, <2>2 DEF PlacedAt
  <2>4. /\ piece[x][n].start \in Int /\ piece[x][n].end \in Int /\ count[x] \in Nat
        /\ piece[x][Left(n)].start \in Int /\ piece[x][Left(n)].end \in Int
        /\ piece[x][Right(n)].start \in Int
    BY <2>2, Children, RowTypes
  <2>5. /\ piece[x][n].start <= piece[x][Left(n)].start
        /\ piece[x][Left(n)].start <= piece[x][Left(n)].end + 1
        /\ piece[x][Left(n)].end < piece[x][Right(n)].start
        /\ piece[x][Right(n)].start <= piece[x][n].end + 1
    BY <2>2 DEF Merging
  <2>6. k \in Int
    BY DEF Slot
  <2>7. 0 <= k /\ k < count[x]
    BY <2>1, <2>3, <2>4, <2>5, <2>6 DEF Consumed
  <2>8. row'[x][k] = row[x][k]
    BY <2>4, <2>6, <2>7
  <2>9. \E j \in 1..Len(tmp[x][n]) : tmp[x][n][j].movie = row[x][k].movie
    BY <2>1 DEF Kept, Merged
  <2>. QED  BY <1>1, <2>8, <2>9
<1>5. ASSUME NEW k \in 0..(count[x] - 1), NEW m, Carries(x, k, m) PROVE Carries(x, k, m)'
  BY <1>1, <1>3, <1>5 DEF Carries
<1>6. AllThere(x)'
  BY <1>1, <1>5 DEF Kept, AllThere, req
<1>. QED  BY <1>4, <1>6 DEF Kept

\* A piece other than the root is a half of another.
LEMMA Parent ==
  ASSUME NEW x \in Node, x # Root
  PROVE  \E p \in Inner : Half(x, p) /\ Len(p) < Len(x)
<1>1. x \in Seq({0, 1}) /\ Len(x) <= MaxLevel + 1 /\ x # <<>>
  BY NodeSeq DEF Root
<1>2. PICK p \in Seq({0, 1}), a \in {0, 1} : Append(p, a) = x /\ Len(x) = Len(p) + 1
  BY <1>1, WayUp
<1>3. Len(p) \in Nat /\ Len(p) <= MaxLevel /\ Len(p) < Len(x)
  BY <1>1, <1>2, SortAssumption
<1>4. p \in Inner
  BY <1>2, <1>3, NodeSeq, SortAssumption DEF Inner
<1>5. Half(x, p)
  BY <1>2 DEF Half, Left, Right
<1>. QED  BY <1>3, <1>4, <1>5

\* When the whole row is at rest so are all its pieces: the topmost one that is
\* not would have a parent at rest.
LEMMA AllAtRest ==
  ASSUME NEW c, NEW q, RowInv(c, q), c[Root] \in {"idle", "done"}
  PROVE  \A n \in Node : c[n] \in {"idle", "done"}
<1>. DEFINE Active == {n \in Node : c[n] \notin {"idle", "done"}}
            Depths == {Len(n) : n \in Active}
<1>. SUFFICES ASSUME Active # {} PROVE FALSE
  OBVIOUS
<1>1. Depths \subseteq Nat /\ Depths # {}
  <2>1. \A n \in Node : Len(n) \in Nat
    BY NodeSeq
  <2>. QED  BY <2>1
<1>2. PICK d \in Depths : \A e \in Depths : d <= e
  BY <1>1, LeastNat
<1>3. PICK x \in Active : Len(x) = d
  OBVIOUS
<1>4. PICK p \in Inner : Half(x, p) /\ Len(p) < Len(x)
  BY Parent
<1>5. p \in Node /\ Len(p) \in Nat /\ Len(x) \in Nat
  BY <1>4, NodeSeq DEF Inner
<1>6. p \notin Active
  <2>. SUFFICES ASSUME p \in Active PROVE FALSE
    OBVIOUS
  <2>1. d <= Len(p)
    BY <1>2
  <2>. QED  BY <1>3, <1>4, <1>5, <2>1
<1>7. c[p] \in {"idle", "done"}
  BY <1>5, <1>6
<1>8. c[Left(p)] \in {"idle", "done"} /\ c[Right(p)] \in {"idle", "done"}
  BY <1>4, <1>7 DEF RowInv, Resting
<1>. QED  BY <1>4, <1>8 DEF Half

-----------------------------------------------------------------------------
(* Types.                                                                  *)

LevelOf == 0..(MaxLevel + 1)
Bounded == [start : 0..MAX_MOVIES, end : -1..(MAX_MOVIES - 1), level : LevelOf]

LEMMA Updated ==
  ASSUME NEW A, NEW B, NEW S, NEW f \in [A -> [B -> S]], NEW a, NEW b, NEW v \in S
  PROVE  [f EXCEPT ![a][b] = v] \in [A -> [B -> S]]
OBVIOUS

LEMMA TypesSplit ==
  ASSUME NEW r \in Request, NEW n \in Node, RowBefore(r, n), Split(r, n)
  PROVE  TypeOK'
<1>1. pc[r][n] = "start" /\ ~IsSmall(piece[r][n]) /\ piece[r][n] \in Bounded
  BY DEF Split, RowBefore, TypeOK, Bounded, LevelOf
<1>. SUFFICES ASSUME NEW s, s = piece[r][n].start, NEW e, e = piece[r][n].end,
                     NEW v, v = piece[r][n].level, NEW m, m = (e + s) \div 2
     PROVE  TypeOK'
  OBVIOUS
<1>2. /\ s \in 0..MAX_MOVIES /\ e \in -1..(MAX_MOVIES - 1) /\ v \in LevelOf
      /\ MAX_MOVIES \in Nat /\ MaxLevel \in Nat
  BY <1>1, LimitAssumption, SortAssumption DEF Bounded
<1>3. s < e /\ v <= MaxLevel
  <2>1. e - s >= 1 /\ v <= MaxLevel
    BY <1>1, <1>2, SortAssumption DEF IsSmall, LevelOf
  <2>. QED  BY <1>2, <2>1
<1>4. m \in Int /\ s <= m /\ m < e
  BY <1>2, <1>3
<1>5. m \in -1..(MAX_MOVIES - 1) /\ m + 1 \in 0..MAX_MOVIES /\ v + 1 \in LevelOf
  BY <1>2, <1>3, <1>4 DEF LevelOf
<1>6. Halves(piece[r][n])[1] \in Bounded /\ Halves(piece[r][n])[2] \in Bounded
  BY <1>2, <1>5 DEF Halves, Bounded
<1>. DEFINE h1 == Halves(piece[r][n])[1]
            h2 == Halves(piece[r][n])[2]
<1>7. /\ piece' = [piece EXCEPT ![r][Left(n)] = h1, ![r][Right(n)] = h2]
      /\ pc' = [pc EXCEPT ![r][n] = "join", ![r][Left(n)] = "start", ![r][Right(n)] = Launched]
      /\ starved' = starved \/ starved' = starved \cup {r}
      /\ UNCHANGED <<input, row, count, at, tmp, filterpc, file, main, crashed>>
  BY DEF Split
<1>. HIDE DEF h1, h2
<1>8. piece' \in [Request -> [Node -> Bounded]]
  <2>1. piece \in [Request -> [Node -> Bounded]]
    BY DEF RowBefore, TypeOK, Bounded, LevelOf
  <2>. QED  BY <1>6, <1>7, <2>1 DEF h1, h2
<1>9. pc' \in [Request -> [Node -> State]]
  <2>1. pc \in [Request -> [Node -> State]] /\ Launched \in State
    BY DEF RowBefore, TypeOK, State, Launched
  <2>2. "join" \in State /\ "start" \in State
    BY DEF State
  <2>. QED  BY <1>7, <2>1, <2>2
<1>. QED  BY <1>7, <1>8, <1>9 DEF RowBefore, TypeOK, Bounded, LevelOf, State, num_of_reqs

LEMMA TypesMerge ==
  ASSUME NEW r \in Request, NEW n \in Node, RowBefore(r, n), Merge(r, n)
  PROVE  TypeOK'
<1>1. PICK h \in {Left(n), Right(n)} :
              /\ piece' = [piece EXCEPT ![r][h].start = @ + 1]
              /\ tmp' = [tmp EXCEPT ![r][n] = Append(@, row[r][piece[r][h].start])]
              /\ piece[r][h].start <= piece[r][h].end
              /\ Within(piece[r][h].start, piece[r][n])
  BY MergeTakes
<1>2. h \in Node
  BY MergeTakes, Children
<1>3. /\ piece \in [Request -> [Node -> Bounded]] /\ pc \in [Request -> [Node -> State]]
      /\ tmp \in [Request -> [Node -> Seq(Entry)]] /\ at \in [Request -> [Node -> 0..MAX_MOVIES]]
      /\ row[r] \in [Slot -> Entry] /\ MAX_MOVIES \in Nat
  BY LimitAssumption DEF RowBefore, TypeOK, Bounded, LevelOf, State
<1>4. piece[r][h] \in Bounded /\ piece[r][n] \in Bounded
  BY <1>2, <1>3
<1>5. /\ piece[r][h].start \in Slot /\ piece[r][h].start + 1 \in 0..MAX_MOVIES
      /\ piece[r][n].start \in 0..MAX_MOVIES
  BY <1>1, <1>3, <1>4 DEF Bounded, Slot
<1>6. [piece[r][h] EXCEPT !.start = @ + 1] \in Bounded
  BY <1>4, <1>5 DEF Bounded
<1>7. piece' = [piece EXCEPT ![r][h] = [piece[r][h] EXCEPT !.start = @ + 1]]
  BY <1>1, <1>2, <1>3
<1>8. piece' \in [Request -> [Node -> Bounded]]
  BY <1>2, <1>3, <1>6, <1>7
<1>9. tmp' \in [Request -> [Node -> Seq(Entry)]]
  <2>1. row[r][piece[r][h].start] \in Entry /\ tmp[r][n] \in Seq(Entry)
    BY <1>3, <1>5
  <2>2. Append(tmp[r][n], row[r][piece[r][h].start]) \in Seq(Entry)
    BY <2>1
  <2>. QED  BY <1>1, <1>3, <2>2
<1>10. pc' \in [Request -> [Node -> State]] /\ at' \in [Request -> [Node -> 0..MAX_MOVIES]]
  <2>1. \/ pc' = pc /\ at' = at
        \/ pc' = [pc EXCEPT ![r][n] = "copy"] /\ at' = [at EXCEPT ![r][n] = piece[r][n].start]
    BY DEF Merge
  <2>2. "copy" \in State
    BY DEF State
  <2>3. [pc EXCEPT ![r][n] = "copy"] \in [Request -> [Node -> State]]
    BY <1>3, <2>2, Updated
  <2>4. [at EXCEPT ![r][n] = piece[r][n].start] \in [Request -> [Node -> 0..MAX_MOVIES]]
    BY <1>3, <1>5, Updated
  <2>. QED  BY <1>3, <2>1, <2>3, <2>4
<1>11. UNCHANGED <<input, row, count, filterpc, file, main, crashed, starved>>
  BY DEF Merge
<1>. QED  BY <1>8, <1>9, <1>10, <1>11 DEF RowBefore, TypeOK, Bounded, LevelOf, State, num_of_reqs

LEMMA TypesMergeSort ==
  ASSUME NEW r \in Request, NEW n \in Node, RowBefore(r, n), MergeSort(r, n)
  PROVE  TypeOK'
<1>1. /\ pc \in [Request -> [Node -> State]]
      /\ tmp \in [Request -> [Node -> Seq(Entry)]] /\ at \in [Request -> [Node -> 0..MAX_MOVIES]]
      /\ row \in [Request -> [Slot -> Entry]] /\ MAX_MOVIES \in Nat \ {0}
      /\ piece[r][n].start \in 0..MAX_MOVIES
      /\ crashed \in BOOLEAN
  BY LimitAssumption DEF RowBefore, TypeOK, State
<1>2. ASSUME UNCHANGED <<input, count, piece, filterpc, file, main, starved>>,
             row' \in [Request -> [Slot -> Entry]],
             pc' \in [Request -> [Node -> State]],
             at' \in [Request -> [Node -> 0..MAX_MOVIES]],
             tmp' \in [Request -> [Node -> Seq(Entry)]],
             crashed' \in BOOLEAN
      PROVE  TypeOK'
  BY <1>2 DEF RowBefore, TypeOK, State, num_of_reqs
<1>3. \A s \in State : [pc EXCEPT ![r][n] = s] \in [Request -> [Node -> State]]
  BY <1>1
<1>4. {"sort", "mark", "merge", "copy", "done"} \subseteq State
  BY DEF State
<1>5. CASE Small(r, n)
  BY <1>1, <1>2, <1>3, <1>4, <1>5 DEF Small
<1>6. CASE Sort(r, n)
  <2>1. row'[r] \in [Slot -> Entry] /\ at'[r] \in [Node -> 0..MAX_MOVIES]
    BY <1>6, SortKeeps
  <2>2. \/ row' = row
        \/ row' = [row EXCEPT ![r] = SortAt(row[r], at[r][n], piece[r][n].end)]
    BY <1>6 DEF Sort
  <2>3. row' \in [Request -> [Slot -> Entry]]
    BY <1>1, <2>1, <2>2
  <2>4. at' = at \/ at' = [at EXCEPT ![r][n] = at[r][n] + 1]
    BY <1>6 DEF Sort
  <2>5. at' \in [Request -> [Node -> 0..MAX_MOVIES]]
    BY <1>1, <2>1, <2>4
  <2>6. pc' \in [Request -> [Node -> State]] /\ crashed' \in BOOLEAN
    <3>1. pc' = pc \/ \E s \in {"sort", "done"} : pc' = [pc EXCEPT ![r][n] = s]
      BY <1>6 DEF Sort
    <3>2. crashed' \in BOOLEAN
      BY <1>1, <1>6 DEF Sort
    <3>3. \A s \in {"sort", "done"} : [pc EXCEPT ![r][n] = s] \in [Request -> [Node -> State]]
      BY <1>3, <1>4
    <3>4. pc' \in [Request -> [Node -> State]]
      BY <1>1, <3>1, <3>3
    <3>. QED  BY <3>2, <3>4
  <2>. QED  BY <1>1, <1>2, <1>6, <2>3, <2>5, <2>6 DEF Sort
<1>7. CASE SortNothing(r, n)
  <2>1. CASE r = 0
    <3>1. /\ crashed' \in BOOLEAN /\ pc' = [pc EXCEPT ![r][n] = "done"]
          /\ UNCHANGED <<input, row, count, piece, at, tmp, filterpc, file, main, starved>>
      BY <1>7, <2>1 DEF SortNothing
    <3>2. pc' \in [Request -> [Node -> State]]
      BY <1>3, <1>4, <3>1
    <3>. QED  BY <1>1, <1>2, <3>1, <3>2
  <2>2. CASE r # 0
    <3>1. r - 1 \in Request /\ MAX_MOVIES - 1 \in Slot
      <4>1. r - 1 \in Request
        BY <2>2, LimitAssumption DEF Request
      <4>2. MAX_MOVIES - 1 \in Slot
        BY <1>1 DEF Slot
      <4>. QED  BY <4>1, <4>2
    <3>2. add_secret(row[r - 1][MAX_MOVIES - 1]) \in Entry
      BY <1>1, <3>1, MarkedMovie
    <3>3. tmp' \in [Request -> [Node -> Seq(Entry)]]
      <4>1. tmp' = [tmp EXCEPT ![r][n] = <<add_secret(row[r - 1][MAX_MOVIES - 1])>>]
        BY <1>7, <2>2 DEF SortNothing
      <4>2. <<add_secret(row[r - 1][MAX_MOVIES - 1])>> \in Seq(Entry)
        BY <3>2
      <4>. QED  BY <1>1, <4>1, <4>2, Updated
    <3>4. pc' \in [Request -> [Node -> State]] /\ crashed' \in BOOLEAN
      <4>1. pc' = [pc EXCEPT ![r][n] = "mark"] /\ UNCHANGED crashed
        BY <1>7, <2>2 DEF SortNothing
      <4>. QED  BY <1>1, <1>3, <1>4, <4>1
    <3>. QED  BY <1>1, <1>2, <1>7, <3>3, <3>4 DEF SortNothing
  <2>. QED  BY <2>1, <2>2
<1>8. CASE Mark(r, n)
  <2>1. tmp[r][n] \in Seq(Entry) /\ Len(tmp[r][n]) = 1
    BY <1>1, <1>8 DEF Mark, RowBefore, Placed, PlacedAt
  <2>2. Head(tmp[r][n]) \in Entry
    BY <2>1
  <2>3. row' \in [Request -> [Slot -> Entry]]
    BY <1>1, <1>8, <2>2 DEF Mark
  <2>4. tmp' \in [Request -> [Node -> Seq(Entry)]]
    BY <1>1, <1>8 DEF Mark
  <2>. QED  BY <1>1, <1>2, <1>3, <1>4, <1>8, <2>3, <2>4 DEF Mark
<1>9. CASE Join(r, n)
  BY <1>1, <1>2, <1>3, <1>4, <1>9 DEF Join, JoinNobody
<1>10. CASE Copy(r, n)
  <2>1. row'[r] \in [Slot -> Entry] /\ at'[r] \in [Node -> 0..MAX_MOVIES]
    BY <1>10, CopyKeeps
  <2>2. /\ \E x : row' = [row EXCEPT ![r][at[r][n]] = x]
        /\ at' = [at EXCEPT ![r][n] = at[r][n] + 1]
    BY <1>10 DEF Copy
  <2>3. row' \in [Request -> [Slot -> Entry]]
    BY <1>1, <2>1, <2>2
  <2>4. at' \in [Request -> [Node -> 0..MAX_MOVIES]]
    BY <1>1, <2>1, <2>2
  <2>5. tmp' \in [Request -> [Node -> Seq(Entry)]]
    <3>1. tmp' = tmp \/ tmp' = [tmp EXCEPT ![r][n] = <<>>]
      BY <1>10 DEF Copy
    <3>2. <<>> \in Seq(Entry)
      OBVIOUS
    <3>3. [tmp EXCEPT ![r][n] = <<>>] \in [Request -> [Node -> Seq(Entry)]]
      BY <1>1, <3>2, Updated
    <3>. QED  BY <1>1, <3>1, <3>3
  <2>6. pc' \in [Request -> [Node -> State]] /\ UNCHANGED crashed
    BY <1>1, <1>3, <1>4, <1>10 DEF Copy
  <2>. QED  BY <1>1, <1>2, <1>10, <2>3, <2>4, <2>5, <2>6 DEF Copy
<1>. QED  BY <1>5, <1>6, <1>7, <1>8, <1>9, <1>10, TypesSplit, TypesMerge DEF MergeSort

-----------------------------------------------------------------------------
(* All rows.                                                               *)

CInv == IInv /\ TypeOK /\ Started /\ NothingLost

LEMMA ReqsAre ==
  ASSUME TypeOK
  PROVE  /\ num_of_reqs \in Nat /\ input \in Files
         /\ \A r \in Request : matches(r) \in Nat /\ (Loads(input) => matches(r) \in 0..MAX_MOVIES)
         /\ \A r \in Request : matches(r) = 0 <=> Hit(input, req(r)) = {}
<1>1. input \in Files
  BY SortAssumption DEF TypeOK
<1>2. num_of_reqs \in Nat
  BY <1>1 DEF Files, num_of_reqs
<1>. QED  BY <1>1, <1>2, HitFinite DEF matches

\* What a filter has counted.
LEMMA CountIs ==
  ASSUME CInv, NEW r \in Request, ~Untouched(pc[r]) \/ filterpc[r] \in {"sorting", "done"}
  PROVE  /\ filterpc[r] \in {"sorting", "done"} /\ Loads(input) /\ r < num_of_reqs
         /\ count[r] = matches(r)
         /\ count[r] = 0 <=> Hit(input, req(r)) = {}
         /\ count[r] = Cardinality(Hit(input, req(r)))
<1>1. filterpc[r] \in {"sorting", "done"}
  BY DEF CInv, IInv, FilteredFirst
<1>2. Loads(input) /\ r < num_of_reqs /\ count[r] = matches(r)
  BY <1>1 DEF CInv, Started
<1>. QED  BY <1>1, <1>2, ReqsAre DEF CInv, matches

\* A mark spoils no row but that which is full before one without a match.
LEMMA MarkSpoils ==
  ASSUME CInv, NEW r \in Request, NEW n \in Node, Mark(r, n),
         NEW x \in Request, filterpc[x] = "sorting", ~Spoiled(x),
         NEW k \in 0..(count[x] - 1)
  PROVE  row'[x][k] = row[x][k]
<1>1. /\ row' = [row EXCEPT ![r - 1][MAX_MOVIES - 1] = Head(tmp[r][n])] /\ pc[r][n] = "mark"
      /\ row \in [Request -> [Slot -> Entry]] /\ count[x] \in 0..MAX_MOVIES /\ MAX_MOVIES \in Nat
  BY LimitAssumption DEF Mark, CInv, TypeOK
<1>2. CASE x # r - 1
  BY <1>1, <1>2
<1>3. CASE x = r - 1
  <2>1. ~Untouched(pc[r]) /\ count[r] = 0
    BY <1>1 DEF Untouched, CInv, NothingLost, Placed, PlacedAt
  <2>2. r < num_of_reqs /\ Hit(input, req(r)) = {}
    BY <2>1, CountIs
  <2>3. x + 1 = r
    BY <1>3 DEF Request
  <2>4. count[x] # MAX_MOVIES
    BY <2>2, <2>3, CountIs DEF Spoiled
  <2>5. k # MAX_MOVIES - 1
    BY <1>1, <2>4
  <2>. QED  BY <1>1, <2>5
<1>. QED  BY <1>2, <1>3

\* A call writes into no row but its own, a mark apart.
LEMMA OthersStay ==
  ASSUME TypeOK, NEW r \in Request, NEW n \in Node, MergeSort(r, n), NEW x \in Request, x # r
  PROVE  RowStays(x) /\ (Mark(r, n) \/ row'[x] = row[x])
<1>1. CASE Small(r, n)
  BY <1>1 DEF Small, RowStays, TypeOK
<1>2. CASE Split(r, n)
  BY <1>2 DEF Split, RowStays, TypeOK
<1>3. CASE Sort(r, n)
  BY <1>3 DEF Sort, RowStays, TypeOK
<1>4. CASE SortNothing(r, n)
  BY <1>4 DEF SortNothing, RowStays, TypeOK
<1>5. CASE Mark(r, n)
  BY <1>5 DEF Mark, RowStays, TypeOK
<1>6. CASE Join(r, n)
  BY <1>6 DEF Join, RowStays, TypeOK
<1>7. CASE Merge(r, n)
  BY <1>7 DEF Merge, RowStays, TypeOK
<1>8. CASE Copy(r, n)
  BY <1>8 DEF Copy, RowStays, TypeOK
<1>. QED  BY <1>1, <1>2, <1>3, <1>4, <1>5, <1>6, <1>7, <1>8 DEF MergeSort

LEMMA CMergeSort ==
  ASSUME CInv, NEW r \in Request, NEW n \in Node, MergeSort(r, n)
  PROVE  CInv'
<1>1. input' = input /\ count' = count /\ UNCHANGED <<main, filterpc, file>>
  BY DEF MergeSort, Small, Split, Sort, SortNothing, Mark, Join, Merge, Copy
<1>2. RowBefore(r, n)
  BY <1>1 DEF CInv, IInv, NothingLost, RowBefore
<1>3. IInv' /\ TypeOK'
  BY <1>2, InvMergeSort, TypesMergeSort DEF CInv
<1>4. Started'
  BY <1>1 DEF CInv, Started, matches, req, num_of_reqs
<1>5. Placed(r)' /\ (Kept(r) => Kept(r)')
  BY <1>2, SmallKeeps, SplitKeeps, SortKeeps, SortNothingKeeps, MarkKeeps, JoinKeeps, MergeKeeps,
     CopyKeeps DEF MergeSort
<1>6. \A x \in Request : x # r => RowStays(x) /\ (Mark(r, n) \/ row'[x] = row[x])
  BY OthersStay DEF CInv
<1>7. ASSUME NEW x \in Request PROVE Placed(x)'
  <2>1. CASE x # r
    BY <1>1, <1>6, <2>1, OtherKeeps DEF CInv, IInv, NothingLost
  <2>. QED  BY <1>5, <2>1
<1>8. \A x \in Request : /\ Spoiled(x)' <=> Spoiled(x)
                         /\ Complete(x)' <=> Complete(x)
  BY <1>1 DEF Spoiled, Complete, req, num_of_reqs
<1>9. ASSUME NEW x \in Request, filterpc'[x] = "sorting", ~Spoiled(x) PROVE Kept(x)'
  <2>1. filterpc[x] = "sorting" /\ Kept(x)
    BY <1>1, <1>9 DEF CInv, NothingLost
  <2>2. CASE x # r
    <3>1. \A k \in 0..(count[x] - 1) : row'[x][k] = row[x][k]
      BY <1>6, <1>9, <2>1, <2>2, MarkSpoils
    <3>2. RowStays(x) /\ count'[x] = count[x]
      BY <1>1, <1>6, <2>2
    <3>3. TypeOK /\ RowInv(pc[x], piece[x]) /\ Placed(x)
      BY DEF CInv, IInv, NothingLost
    <3>. QED  BY <1>1, <2>1, <3>1, <3>2, <3>3, OtherKeeps
  <2>. QED  BY <1>5, <2>1, <2>2
<1>10. AnswersComplete'
  BY <1>1, <1>8 DEF CInv, NothingLost, AnswersComplete
<1>11. NothingLost'
  BY <1>7, <1>8, <1>9, <1>10 DEF NothingLost
<1>. QED  BY <1>3, <1>4, <1>11 DEF CInv

\* A filter fills its row with all the movies that match.
LEMMA CFilter ==
  ASSUME CInv, NEW r \in Request, Filter(r)
  PROVE  CInv'
<1>1. /\ filterpc[r] = "filter" /\ Untouched(pc[r]) /\ Loads(input) /\ input \in Files
      /\ matches(r) \in 0..MAX_MOVIES /\ MAX_MOVIES \in Nat
      /\ \A n \in Node : pc[r][n] = "idle"
  BY ReqsAre, LimitAssumption DEF Filter, CInv, IInv, FilteredFirst, Started, Untouched
<1>2. PICK rounding \in Roundings(input, req(r)) :
        row' = [row EXCEPT ![r] =
                  [k \in Slot |-> IF k < Len(Matches(input, req(r), rounding))
                                  THEN Matches(input, req(r), rounding)[k + 1] ELSE @[k]]]
  BY DEF Filter
<1>3. /\ count' = [count EXCEPT ![r] = matches(r)]
      /\ piece' = [piece EXCEPT ![r][Root] = Whole(r)]
      /\ pc' = [pc EXCEPT ![r][Root] = Launched]
      /\ filterpc' = [filterpc EXCEPT ![r] = "sorting"]
      /\ starved' = starved \/ starved' = starved \cup {r}
      /\ UNCHANGED <<input, at, tmp, file, main, crashed>>
  BY DEF Filter
<1>4. /\ row \in [Request -> [Slot -> Entry]] /\ count \in [Request -> 0..MAX_MOVIES]
      /\ piece \in [Request -> [Node -> Bounded]] /\ pc \in [Request -> [Node -> State]]
      /\ filterpc \in [Request -> FilterState] /\ tmp \in [Request -> [Node -> Seq(Entry)]]
  BY DEF CInv, TypeOK, Bounded, LevelOf, State, FilterState
<1>. SUFFICES ASSUME NEW w, w = Matches(input, req(r), rounding), NEW c, c = matches(r)
     PROVE  CInv'
  OBVIOUS
<1>5. /\ Len(w) = c /\ c \in 0..MAX_MOVIES
      /\ \A m \in Hit(input, req(r)) : \E k \in 1..c : w[k].movie = m
      /\ \A k \in 1..c : w[k] \in Entry
  BY <1>1, MatchesAll DEF matches
<1>6. row'[r] = [k \in Slot |-> IF k < c THEN w[k + 1] ELSE row[r][k]]
  BY <1>2, <1>4, <1>5
<1>7. row'[r] \in [Slot -> Entry]
  <2>1. ASSUME NEW k \in Slot PROVE (IF k < c THEN w[k + 1] ELSE row[r][k]) \in Entry
    <3>1. CASE k < c
      <4>1. k + 1 \in 1..c
        BY <1>5, <3>1 DEF Slot
      <4>. QED  BY <1>5, <3>1, <4>1
    <3>2. CASE ~(k < c)
      BY <1>4, <3>2
    <3>. QED  BY <3>1, <3>2
  <2>. QED  BY <1>6, <2>1
<1>8. row' \in [Request -> [Slot -> Entry]]
  <2>1. \E x : row' = [row EXCEPT ![r] = x]
    BY <1>2
  <2>. QED  BY <1>4, <1>7, <2>1
<1>9. Whole(r) = [start |-> 0, end |-> c - 1, level |-> 0] /\ Whole(r) \in Bounded
  BY <1>1, <1>5, SortAssumption DEF Whole, Bounded, LevelOf
<1>10. piece' \in [Request -> [Node -> Bounded]]
  BY <1>3, <1>4, <1>9, Updated
<1>11. pc' \in [Request -> [Node -> State]]
  <2>1. Launched \in State
    BY DEF Launched, State
  <2>. QED  BY <1>3, <1>4, <2>1, Updated
<1>12. TypeOK'
  <2>1. count' \in [Request -> 0..MAX_MOVIES]
    BY <1>3, <1>4, <1>5
  <2>2. filterpc' \in [Request -> FilterState]
    BY <1>3, <1>4 DEF FilterState
  <2>3. starved' \subseteq Request
    BY <1>3 DEF CInv, TypeOK
  <2>. QED  BY <1>3, <1>8, <1>10, <1>11, <2>1, <2>2, <2>3
            DEF CInv, TypeOK, Bounded, LevelOf, State, FilterState, num_of_reqs
<1>13. IInv'
  BY InvFilter DEF CInv
<1>14. \A x \in Request : x # r =>
         RowStays(x) /\ row'[x] = row[x] /\ count'[x] = count[x] /\ filterpc'[x] = filterpc[x]
  BY <1>2, <1>3, <1>4 DEF RowStays
<1>15. /\ count'[r] = c /\ piece'[r][Root] = Whole(r) /\ pc'[r][Root] \in {"start", "idle"}
       /\ filterpc'[r] = "sorting" /\ tmp' = tmp
       /\ \A n \in Node : n # Root => pc'[r][n] = "idle"
  BY <1>1, <1>3, <1>4, RootIsNoHalf DEF Launched
<1>16. Started'
  <2>1. main' # -1 => Loads(input')
    BY <1>3 DEF CInv, Started
  <2>2. ASSUME NEW x \in Request
        PROVE  /\ filterpc'[x] # "none" => main' # -1 /\ x < num_of_reqs
               /\ filterpc'[x] \in {"sorting", "done"} => count'[x] = matches(x)
    <3>1. CASE x = r
      BY <1>1, <1>3, <1>15, <3>1 DEF CInv, Started
    <3>2. CASE x # r
      BY <1>3, <1>14, <3>2 DEF CInv, Started
    <3>. QED  BY <3>1, <3>2
  <2>. QED  BY <1>3, <2>1, <2>2 DEF Started, matches, req, num_of_reqs
<1>17. Placed(r)'
  <2>. SUFFICES ASSUME NEW n \in Node PROVE PlacedAt(r, n)'
    BY DEF Placed
  <2>1. tmp[r][n] = <<>>
    BY <1>1 DEF CInv, NothingLost, Placed, PlacedAt
  <2>2. CASE n = Root
    <3>1. piece'[r][n].start = 0 /\ piece'[r][n].end = c - 1
      BY <1>9, <1>15, <2>2
    <3>2. 0 <= c - 1 \/ c = 0
      BY <1>5
    <3>3. c - 1 < c
      BY <1>5
    <3>. QED  BY <1>15, <2>1, <2>2, <3>1, <3>2, <3>3 DEF PlacedAt
  <2>3. CASE n # Root
    BY <1>15, <2>1, <2>3 DEF PlacedAt
  <2>. QED  BY <2>2, <2>3
<1>18. Kept(r)'
  <2>1. \A n \in Node : pc'[r][n] \notin {"merge", "copy"}
    BY <1>15
  <2>2. Merged(r)'
    BY <2>1 DEF Merged
  <2>3. AllThere(r)'
    <3>. SUFFICES ASSUME NEW m \in Hit(input, req(r))
         PROVE \E k \in 0..(count'[r] - 1) : Carries(r, k, m)'
      BY <1>3 DEF AllThere, req
    <3>1. PICK k \in 1..c : w[k].movie = m
      BY <1>5
    <3>2. PICK g \in Int : g = k - 1
      OBVIOUS
    <3>3. g \in Slot /\ g < c /\ g + 1 = k
      BY <1>1, <1>5, <3>2 DEF Slot
    <3>. g \in 0..(count'[r] - 1)
      BY <1>5, <1>15, <3>3 DEF Slot
    <3>4. row'[r][g].movie = m
      BY <1>6, <3>1, <3>3
    <3>5. \A n \in Node : ~Copying(r, n, g)'
      BY <2>1 DEF Copying
    <3>. WITNESS g \in 0..(count'[r] - 1)
    <3>. QED  BY <3>4, <3>5 DEF Carries
  <2>. QED  BY <2>2, <2>3 DEF Kept
<1>19. \A x \in Request : /\ Spoiled(x)' <=> Spoiled(x)
                          /\ Complete(x)' <=> Complete(x)
  BY <1>3 DEF Spoiled, Complete, req, num_of_reqs
<1>20. ASSUME NEW x \in Request, x # r
       PROVE  Placed(x)' /\ (Kept(x) => Kept(x)')
  <2>1. TypeOK /\ RowInv(pc[x], piece[x]) /\ Placed(x)
    BY DEF CInv, IInv, NothingLost
  <2>. QED  BY <1>3, <1>14, <1>20, <2>1, OtherKeeps
<1>21. \A x \in Request : Placed(x)'
  BY <1>17, <1>20
<1>22. \A x \in Request : filterpc'[x] = "sorting" => Spoiled(x)' \/ Kept(x)'
  BY <1>14, <1>18, <1>19, <1>20 DEF CInv, NothingLost
<1>23. AnswersComplete'
  BY <1>14, <1>15, <1>19 DEF CInv, NothingLost, AnswersComplete
<1>. QED  BY <1>12, <1>13, <1>16, <1>21, <1>22, <1>23 DEF CInv, NothingLost

\* All is there, and nothing is being copied: so all is in the row.
LEMMA COutput ==
  ASSUME CInv, NEW r \in Request, Output(r)
  PROVE  CInv'
<1>1. /\ filterpc[r] = "sorting" /\ pc[r][Root] \in {"idle", "done"}
      /\ file' = [file EXCEPT ![r] = [k \in 1..count[r] |-> row[r][k - 1]]]
      /\ filterpc' = [filterpc EXCEPT ![r] = "done"] /\ crashed' \in BOOLEAN
      /\ UNCHANGED <<input, row, count, piece, pc, at, tmp, main, starved>>
  BY DEF Output, Ended, JoinNobody, CInv, TypeOK
<1>2. count[r] \in Nat /\ count[r] <= MAX_MOVIES /\ row[r] \in [Slot -> Entry]
  BY LimitAssumption DEF CInv, TypeOK
<1>. SUFFICES ASSUME NEW c, c = count[r], NEW a, a = [k \in 1..c |-> row[r][k - 1]]
     PROVE  CInv'
  OBVIOUS
<1>3. a \in Seq(Entry) /\ Len(a) = c
  <2>1. \A k \in 1..c : k - 1 \in Slot
    BY <1>2, LimitAssumption DEF Slot
  <2>2. a \in [1..c -> Entry]
    BY <1>2, <2>1
  <2>3. c \in Nat
    BY <1>2
  <2>4. \A x \in [1..c -> Entry] : x \in Seq(Entry) /\ Len(x) = c
    BY <2>3
  <2>. QED  BY <2>2, <2>4
<1>4. /\ file' = [file EXCEPT ![r] = a] /\ file \in [Request -> Seq(Entry)]
      /\ filterpc \in [Request -> FilterState]
  BY <1>1 DEF CInv, TypeOK, FilterState
<1>5. file' \in [Request -> Seq(Entry)] /\ file'[r] = a
  BY <1>3, <1>4
<1>6. TypeOK'
  <2>1. filterpc' \in [Request -> FilterState]
    BY <1>1, <1>4 DEF FilterState
  <2>. QED  BY <1>1, <1>5, <2>1 DEF CInv, TypeOK, FilterState, num_of_reqs
<1>7. IInv'
  BY <1>1 DEF CInv, IInv, Typed, CreatedInOrder, FilteredFirst, FilterState
<1>8. Started'
  BY <1>1 DEF CInv, Started, matches, req, num_of_reqs
<1>9. \A x \in Request : (Placed(x)' <=> Placed(x)) /\ (Kept(x)' <=> Kept(x)) /\ (Spoiled(x)' <=> Spoiled(x))
  BY <1>1 DEF Placed, PlacedAt, Merging, Kept, Merged, Consumed, AllThere, Carries, Copying, Spoiled,
              req, num_of_reqs
<1>10. ASSUME Kept(r) PROVE Complete(r)'
  <2>1. \A n \in Node : pc[r][n] \in {"idle", "done"}
    BY <1>1, AllAtRest DEF CInv, IInv
  <2>2. \A n \in Node : \A k : ~Copying(r, n, k)
    BY <2>1 DEF Copying
  <2>3. ASSUME NEW m \in Hit(input, req(r)) PROVE \E k \in 1..Len(a) : a[k].movie = m
    <3>1. PICK k \in 0..(c - 1) : Carries(r, k, m)
      BY <1>10 DEF Kept, AllThere
    <3>2. row[r][k].movie = m
      BY <2>2, <3>1 DEF Carries
    <3>3. PICK g \in Int : g = k + 1
      OBVIOUS
    <3>4. g \in 1..c /\ g - 1 = k
      BY <1>2, <3>3
    <3>. g \in 1..Len(a)
      BY <1>3, <3>4
    <3>. WITNESS g \in 1..Len(a)
    <3>. QED  BY <3>2, <3>4
  <2>4. input \in Files /\ c = Cardinality(Hit(input, req(r)))
    BY <1>1, CountIs, ReqsAre DEF CInv
  <2>5. IsComplete(a, input, req(r))
    BY <1>3, <2>3, <2>4, AnswerOfAll
  <2>. QED  BY <1>1, <1>5, <2>5 DEF Complete, req
<1>11. ASSUME NEW x \in Request, filterpc'[x] = "done" PROVE Spoiled(x)' \/ Complete(x)'
  <2>1. CASE x = r
    BY <1>1, <1>9, <1>10, <2>1 DEF CInv, NothingLost
  <2>2. CASE x # r
    <3>1. filterpc[x] = "done" /\ file'[x] = file[x]
      BY <1>1, <1>4, <1>11, <2>2
    <3>2. Spoiled(x) \/ Complete(x)
      BY <3>1 DEF CInv, NothingLost, AnswersComplete
    <3>. QED  BY <1>1, <1>9, <3>1, <3>2 DEF Complete, req
  <2>. QED  BY <2>1, <2>2
<1>12. AnswersComplete'
  BY <1>11 DEF AnswersComplete
<1>13. \A x \in Request : filterpc'[x] = "sorting" => Spoiled(x)' \/ Kept(x)'
  BY <1>1, <1>4, <1>9 DEF CInv, NothingLost
<1>. QED  BY <1>6, <1>7, <1>8, <1>9, <1>12, <1>13 DEF CInv, NothingLost

\* A step that changes no row, no file and no filter.
LEMMA MainKeeps ==
  ASSUME CInv, TypeOK', IInv', Started',
         UNCHANGED <<input, row, count, piece, pc, at, tmp, file>>,
         \A x \in Request : filterpc'[x] \in {"sorting", "done"} => filterpc'[x] = filterpc[x]
  PROVE  CInv'
<1>1. \A x \in Request : /\ (Placed(x)' <=> Placed(x)) /\ (Kept(x)' <=> Kept(x))
                         /\ (Spoiled(x)' <=> Spoiled(x)) /\ (Complete(x)' <=> Complete(x))
  BY DEF Placed, PlacedAt, Merging, Kept, Merged, Consumed, AllThere, Carries, Copying, Spoiled,
         Complete, req, num_of_reqs
<1>2. AnswersComplete'
  BY <1>1 DEF CInv, NothingLost, AnswersComplete
<1>3. NothingLost'
  BY <1>1, <1>2 DEF CInv, NothingLost
<1>. QED  BY <1>3 DEF CInv

LEMMA CInit == Init => CInv
<1>. SUFFICES ASSUME Init PROVE CInv
  OBVIOUS
<1>1. TypeOK
  <2>1. input \in Files /\ MAX_MOVIES \in Nat \ {0} /\ MaxLevel \in Nat
    BY SortAssumption, LimitAssumption DEF Init
  <2>2. num_of_reqs \in Nat
    BY <2>1 DEF Files, num_of_reqs
  <2>3. NoEntry \in Entry /\ NoFile \in Seq(Entry) /\ <<>> \in Seq(Entry)
    BY <2>1 DEF NoEntry, Entry, NoFile
  <2>4. NoPiece \in Bounded
    BY <2>1 DEF NoPiece, Bounded, LevelOf
  <2>5. main \in -1..(num_of_reqs + 1)
    BY <2>2 DEF Init
  <2>6. row \in [Request -> [Slot -> Entry]] /\ tmp \in [Request -> [Node -> Seq(Entry)]]
    BY <2>3 DEF Init
  <2>7. piece \in [Request -> [Node -> Bounded]]
    BY <2>4 DEF Init
  <2>8. file \in [Request -> Seq(Entry)]
    BY <2>3 DEF Init
  <2>9. count \in [Request -> 0..MAX_MOVIES] /\ at \in [Request -> [Node -> 0..MAX_MOVIES]]
    BY <2>1 DEF Init
  <2>10. /\ pc \in [Request -> [Node -> State]] /\ filterpc \in [Request -> FilterState]
         /\ crashed \in BOOLEAN /\ starved \subseteq Request /\ input \in Input
    BY DEF Init, State, FilterState
  <2>. QED  BY <2>5, <2>6, <2>7, <2>8, <2>9, <2>10 DEF TypeOK, Bounded, LevelOf, State, FilterState
<1>2. Started
  BY DEF Init, Started
<1>3. \A r \in Request : Placed(r)
  BY DEF Init, Placed, PlacedAt
<1>4. NothingLost
  BY <1>3 DEF Init, NothingLost, AnswersComplete
<1>. QED  BY <1>1, <1>2, <1>4, InvInit DEF CInv

LEMMA CNext == CInv /\ [Next]_vars => CInv'
<1>. SUFFICES ASSUME CInv, [Next]_vars PROVE CInv'
  OBVIOUS
<1>1. IInv'
  BY InvNext DEF CInv
<1>2. num_of_reqs \in Nat /\ (Loads(input) => num_of_reqs <= MAX_REQ) /\ MAX_REQ \in Nat
  BY ReqsAre, LimitAssumption DEF CInv, Loads, num_of_reqs
<1>3. CASE Initialize
  <2>1. /\ main = -1 /\ main' \in {-1, 0} /\ crashed' \in BOOLEAN /\ (main' = 0 => Loads(input))
        /\ UNCHANGED <<input, row, count, piece, pc, at, tmp, filterpc, file, starved>>
    <3>1. main = -1 /\ UNCHANGED <<input, row, count, piece, pc, at, tmp, filterpc, file, starved>>
      BY <1>3 DEF Initialize
    <3>2. IF Loads(input) THEN main' = 0 /\ crashed' = crashed ELSE crashed' = TRUE /\ main' = main
      BY <1>3 DEF Initialize
    <3>3. crashed \in BOOLEAN
      BY DEF CInv, TypeOK
    <3>4. CASE Loads(input)
      BY <3>1, <3>2, <3>3, <3>4
    <3>5. CASE ~Loads(input)
      BY <3>1, <3>2, <3>3, <3>5
    <3>. QED  BY <3>4, <3>5
  <2>2. TypeOK'
    BY <1>2, <2>1 DEF CInv, TypeOK, num_of_reqs
  <2>3. Started'
    BY <2>1 DEF CInv, Started, matches, req, num_of_reqs
  <2>. QED  BY <1>1, <2>1, <2>2, <2>3, MainKeeps
<1>4. CASE Create
  <2>1. /\ main \in 0..(num_of_reqs - 1) /\ main' = main + 1
        /\ starved' = starved \/ starved' = starved \cup {main}
        /\ UNCHANGED <<input, row, count, piece, pc, at, tmp, file, crashed>>
        /\ \E s \in {"filter", "failed"} : filterpc' = [filterpc EXCEPT ![main] = s]
    BY <1>4 DEF Create
  <2>2. PICK s \in {"filter", "failed"} : filterpc' = [filterpc EXCEPT ![main] = s]
    BY <2>1
  <2>3. Loads(input) /\ main \in Request
    <3>1. Loads(input)
      BY <1>2, <2>1 DEF CInv, Started
    <3>. QED  BY <1>2, <2>1, <3>1 DEF Request
  <2>4. filterpc \in [Request -> FilterState] /\ s \in FilterState
    BY DEF CInv, TypeOK, FilterState
  <2>5. filterpc' \in [Request -> FilterState]
    BY <2>2, <2>4
  <2>6. main' \in -1..(num_of_reqs + 1)
    BY <1>2, <2>1
  <2>7. TypeOK'
    BY <2>1, <2>3, <2>5, <2>6 DEF CInv, TypeOK, num_of_reqs, FilterState
  <2>8. filterpc'[main] = s /\ \A x \in Request : x # main => filterpc'[x] = filterpc[x]
    BY <2>2, <2>3, <2>4
  <2>9. Started'
    <3>1. main' # -1
      BY <1>2, <2>1
    <3>2. ASSUME NEW x \in Request
          PROVE  /\ filterpc'[x] # "none" => main' # -1 /\ x < num_of_reqs
                 /\ filterpc'[x] \in {"sorting", "done"} => count[x] = matches(x)
      <4>1. CASE x = main
        BY <1>2, <2>1, <2>8, <3>1, <4>1
      <4>2. CASE x # main
        BY <2>8, <3>1, <4>2 DEF CInv, Started
      <4>. QED  BY <4>1, <4>2
    <3>. QED  BY <2>1, <2>3, <3>2 DEF Started, matches, req, num_of_reqs
  <2>. QED  BY <1>1, <2>1, <2>7, <2>8, <2>9, MainKeeps
<1>5. CASE Return
  <2>1. /\ main = num_of_reqs /\ main' \in {main, main + 1} /\ crashed' \in BOOLEAN
        /\ UNCHANGED <<input, row, count, piece, pc, at, tmp, filterpc, file, starved>>
    BY <1>5 DEF Return, CInv, TypeOK
  <2>2. main' \in -1..(num_of_reqs + 1)
    BY <1>2, <2>1
  <2>3. TypeOK'
    BY <2>1, <2>2 DEF CInv, TypeOK, num_of_reqs
  <2>4. Started'
    BY <1>2, <2>1 DEF CInv, Started, matches, req, num_of_reqs
  <2>. QED  BY <1>1, <2>1, <2>3, <2>4, MainKeeps
<1>6. CASE UNCHANGED vars
  <2>1. UNCHANGED <<input, row, count, piece, pc, at, tmp, filterpc, file, main, crashed, starved>>
    BY <1>6 DEF vars
  <2>2. TypeOK' /\ Started'
    BY <2>1 DEF CInv, TypeOK, Started, matches, req, num_of_reqs
  <2>. QED  BY <1>1, <2>1, <2>2, MainKeeps
<1>. QED  BY <1>3, <1>4, <1>5, <1>6, CMergeSort, CFilter, COutput DEF Next

\* tserver is well-typed: no piece, slot or count leaves the table, and main
\* counts no more requests than there are.
THEOREM TypeCorrect == Spec => []TypeOK
<1>1. CInv => TypeOK
  BY DEF CInv
<1>. QED  BY <1>1, CInit, CNext, PTL DEF Spec

\* In every behaviour of tserver, whatever its threads do in whatever order, and
\* whichever of them could not be created, an answer that is written names every
\* movie that matches, each of them once, unless the row of the request was full
\* and that of the next one empty.
THEOREM NothingIsLost == Spec => []AnswersComplete
<1>1. CInv => AnswersComplete
  BY DEF CInv, NothingLost
<1>. QED  BY <1>1, CInit, CNext, PTL DEF Spec

-----------------------------------------------------------------------------
(* Every piece is sorted.  The invariant, for a request that got all its   *)
(* threads: what the slots of a piece look like at each point of its call, *)
(* and that all entries come from one rounding of the grades.              *)

\* The root is sorted for the filter, a half for its parent.
Due(r, n) == n = Root \/ \E p \in Inner : pc[r][p] = "join" /\ Half(n, p)

SortedAt(r, n) ==
  /\ pc[r][n] = "start" => Unmarked(row[r], piece[r][n].start, piece[r][n].end)
  /\ pc[r][n] = "sort" =>
       /\ at[r][n] = piece[r][n].start \/ at[r][n] <= piece[r][n].end
       /\ SortedTo(row[r], piece[r][n].start, at[r][n], piece[r][n].end)
  /\ pc[r][n] = "join" => pc[r][Left(n)] # "idle" /\ pc[r][Right(n)] # "idle"
  /\ pc[r][n] = "merge" =>
       MergedTo(row[r], tmp[r][n], piece[r][Left(n)].start, piece[r][Left(n)].end,
                                   piece[r][Right(n)].start, piece[r][Right(n)].end)
  /\ pc[r][n] = "copy" =>
       /\ Ordered(tmp[r][n], 1, Len(tmp[r][n])) /\ Marked(tmp[r][n], 1, Len(tmp[r][n]))
       /\ \A k \in piece[r][n].start..(at[r][n] - 1) :
            row[r][k] = tmp[r][n][k - piece[r][n].start + 1]
  /\ pc[r][n] = "done" /\ Due(r, n) =>
       /\ Ordered(row[r], piece[r][n].start, piece[r][n].end)
       /\ Marked(row[r], piece[r][n].start, piece[r][n].end)

\* The entries a request works with.
Held(r) ==
  {row[r][k] : k \in 0..(count[r] - 1)}
    \cup UNION {{tmp[r][n][i] : i \in 1..Len(tmp[r][n])} : n \in {m \in Node : pc[r][m] \in {"merge", "copy"}}}

\* Its filter made them, all with one rounding.
Made(r) ==
  \E rounding \in Roundings(input, req(r)) : \A x \in Held(r) : Of(input, req(r), rounding, x)

Clear(r) ==
  /\ pc[r][Root] # "idle" /\ piece[r][Root] = Whole(r)
  /\ \A n \in Node : SortedAt(r, n)
  /\ Made(r)

AllSorted ==
  /\ \A r \in Request : filterpc[r] = "sorting" => Spoiled(r) \/ r \in starved \/ Clear(r)
  /\ AnswersSorted

-----------------------------------------------------------------------------
(* What a step leaves sorted.                                              *)

RowNow(r) == TypeOK /\ RowInv(pc[r], piece[r]) /\ Placed(r)

\* Pieces whose slots have to look as the invariant says.
Claims(r, n) == pc[r][n] \in Working \/ (pc[r][n] = "done" /\ Due(r, n))

LEMMA ClaimsInside ==
  ASSUME NEW r \in Request, RowNow(r), count[r] = matches(r), piece[r][Root] = Whole(r),
         NEW n \in Node, Claims(r, n), NEW k \in Int, Within(k, piece[r][n])
  PROVE  k \in 0..(count[r] - 1)
<1>1. /\ piece[r][n].start \in Int /\ piece[r][n].end \in Int /\ count[r] \in Nat
      /\ PlacedAt(r, n)
  BY RowTypes DEF RowNow, Placed
<1>2. CASE pc[r][n] \in Working
  <2>1. 0 <= piece[r][n].start /\ piece[r][n].end < count[r]
    BY <1>1, <1>2 DEF PlacedAt, Working
  <2>. QED  BY <1>1, <2>1 DEF Within
<1>3. CASE n = Root
  BY <1>1, <1>3 DEF Whole, Within
<1>4. CASE \E p \in Inner : pc[r][p] = "join" /\ Half(n, p)
  <2>1. PICK p \in Inner : pc[r][p] = "join" /\ Half(n, p)
    BY <1>4
  <2>2. p \in Node /\ Left(p) \in Node /\ Right(p) \in Node
    BY Children
  <2>3. /\ piece[r][p].start \in Int /\ piece[r][p].end \in Int
        /\ piece[r][Left(p)].start \in Int /\ piece[r][Left(p)].end \in Int
        /\ piece[r][Right(p)].start \in Int /\ piece[r][Right(p)].end \in Int
    BY <2>2, RowTypes DEF RowNow
  <2>4. /\ 0 <= piece[r][p].start /\ piece[r][p].end < count[r]
        /\ piece[r][p].start <= piece[r][Left(p)].end
        /\ piece[r][Left(p)].end < piece[r][p].end
    BY <2>1, <2>2 DEF RowNow, Placed, PlacedAt
  <2>5. /\ piece[r][Left(p)].start = piece[r][p].start
        /\ piece[r][Right(p)].start = piece[r][Left(p)].end + 1
        /\ piece[r][Right(p)].end = piece[r][p].end
    BY <2>1 DEF RowNow, RowInv, Halved
  <2>6. CASE n = Left(p)
    BY <1>1, <2>3, <2>4, <2>5, <2>6 DEF Within
  <2>7. CASE n = Right(p)
    BY <1>1, <2>3, <2>4, <2>5, <2>7 DEF Within
  <2>. QED  BY <2>1, <2>6, <2>7 DEF Half
<1>. QED  BY <1>2, <1>3, <1>4 DEF Claims, Due

\* Nobody works on the slots of such a piece but its own call.
LEMMA ClaimsApart ==
  ASSUME NEW r \in Request, RowNow(r), NEW n \in Node, pc[r][n] \in Working,
         NEW x \in Node, x # n, Claims(r, x), NEW k \in Int, Within(k, piece[r][n])
  PROVE  ~Within(k, piece[r][x])
<1>1. CASE pc[r][x] \in Working
  BY <1>1, ApartWorking DEF RowNow
<1>2. CASE pc[r][x] = "done" /\ x = Root
  <2>1. pc[r][n] \in {"idle", "done"}
    BY <1>2, AllAtRest DEF RowNow
  <2>. QED  BY <2>1 DEF Working
<1>3. CASE pc[r][x] = "done" /\ \E p \in Inner : pc[r][p] = "join" /\ Half(x, p)
  BY <1>3 DEF RowNow, RowInv, RowDisjoint, Owns
<1>. QED  BY <1>1, <1>2, <1>3 DEF Claims, Due

LEMMA SortedElsewhere ==
  ASSUME NEW r \in Request, RowNow(r), count[r] = matches(r), piece[r][Root] = Whole(r),
         NEW x \in Node, SortedAt(r, x),
         pc'[r][x] = pc[r][x], piece'[r][x] = piece[r][x],
         at'[r][x] = at[r][x], tmp'[r][x] = tmp[r][x],
         pc[r][x] = "join" => pc'[r][Left(x)] # "idle" /\ pc'[r][Right(x)] # "idle",
         pc[r][x] = "merge" =>
           piece'[r][Left(x)] = piece[r][Left(x)] /\ piece'[r][Right(x)] = piece[r][Right(x)],
         pc[r][x] = "done" /\ Due(r, x)' => Due(r, x),
         Claims(r, x) => \A k \in 0..(count[r] - 1) : Within(k, piece[r][x]) => row'[r][k] = row[r][k]
  PROVE  SortedAt(r, x)'
<1>. DEFINE s == piece[r][x].start
            e == piece[r][x].end
<1>1. s \in Int /\ e \in Int /\ at[r][x] \in Int
  BY RowTypes DEF RowNow
<1>2. ASSUME Claims(r, x) PROVE \A k \in s..e : row'[r][k] = row[r][k]
  <2>. SUFFICES ASSUME NEW k \in s..e PROVE row'[r][k] = row[r][k]
    OBVIOUS
  <2>1. k \in Int /\ Within(k, piece[r][x])
    BY <1>1 DEF Within
  <2>. QED  BY <1>2, <2>1, ClaimsInside
<1>. HIDE DEF s, e
<1>3. pc'[r][x] = "start" => Unmarked(row'[r], s, e)
  <2>. SUFFICES ASSUME pc[r][x] = "start" PROVE Unmarked(row'[r], s, e)
    OBVIOUS
  <2>1. Claims(r, x)
    BY DEF Claims, Working
  <2>. QED  BY <1>2, <2>1 DEF SortedAt, Unmarked, s, e
<1>4. pc'[r][x] = "sort" => /\ at[r][x] = s \/ at[r][x] <= e
                            /\ SortedTo(row'[r], s, at[r][x], e)
  <2>. SUFFICES ASSUME pc[r][x] = "sort"
       PROVE (at[r][x] = s \/ at[r][x] <= e) /\ SortedTo(row'[r], s, at[r][x], e)
    OBVIOUS
  <2>1. Claims(r, x) /\ s <= at[r][x]
    BY DEF Claims, Working, RowNow, Placed, PlacedAt, s
  <2>2. \A k \in s..e : row'[r][k] = row[r][k]
    BY <1>2, <2>1
  <2>3. (at[r][x] = s \/ at[r][x] <= e) /\ SortedTo(row[r], s, at[r][x], e)
    BY DEF SortedAt, s, e
  <2>4. s..(at[r][x] - 1) \subseteq s..e /\ at[r][x]..e \subseteq s..e
    BY <1>1, <2>1, <2>3
  <2>. QED  BY <2>2, <2>3, <2>4 DEF SortedTo, Marked, Unmarked
<1>5. pc'[r][x] = "merge" =>
        MergedTo(row'[r], tmp[r][x], piece[r][Left(x)].start, piece[r][Left(x)].end,
                                     piece[r][Right(x)].start, piece[r][Right(x)].end)
  <2>. SUFFICES ASSUME pc[r][x] = "merge"
       PROVE MergedTo(row'[r], tmp[r][x], piece[r][Left(x)].start, piece[r][Left(x)].end,
                                          piece[r][Right(x)].start, piece[r][Right(x)].end)
    OBVIOUS
  <2>. DEFINE l == piece[r][Left(x)].start
              le == piece[r][Left(x)].end
              t == piece[r][Right(x)].start
              re == piece[r][Right(x)].end
  <2>1. x \in Inner /\ Merging(r, x) /\ Claims(r, x)
    BY DEF Claims, Working, RowNow, RowInv, Levels, Placed, PlacedAt
  <2>2. l \in Int /\ le \in Int /\ t \in Int /\ re \in Int
    BY <2>1, Children, RowTypes DEF RowNow
  <2>3. s <= l /\ l <= le + 1 /\ le < t /\ t <= re + 1 /\ re = e
    BY <2>1 DEF Merging, s, e
  <2>4. MergedTo(row[r], tmp[r][x], l, le, t, re)
    BY DEF SortedAt
  <2>. HIDE DEF l, le, t, re
  <2>5. (\A k \in l..le : row'[r][k] = row[r][k]) /\ (\A k \in t..re : row'[r][k] = row[r][k])
    <3>1. le <= e
      BY <1>1, <2>2, <2>3
    <3>2. l..le \subseteq s..e /\ t..re \subseteq s..e
      BY <1>1, <2>2, <2>3, <3>1
    <3>. QED  BY <1>2, <2>1, <3>2
  <2>6. MergedTo(row'[r], tmp[r][x], l, le, t, re)
    BY <2>4, <2>5 DEF MergedTo, Ordered, Marked
  <2>. QED  BY <2>6 DEF l, le, t, re
<1>6. pc'[r][x] = "copy" =>
        /\ Ordered(tmp[r][x], 1, Len(tmp[r][x])) /\ Marked(tmp[r][x], 1, Len(tmp[r][x]))
        /\ \A k \in s..(at[r][x] - 1) : row'[r][k] = tmp[r][x][k - s + 1]
  <2>. SUFFICES ASSUME pc[r][x] = "copy"
       PROVE /\ Ordered(tmp[r][x], 1, Len(tmp[r][x])) /\ Marked(tmp[r][x], 1, Len(tmp[r][x]))
             /\ \A k \in s..(at[r][x] - 1) : row'[r][k] = tmp[r][x][k - s + 1]
    OBVIOUS
  <2>1. Claims(r, x) /\ s <= at[r][x] /\ at[r][x] <= e
    BY DEF Claims, Working, RowNow, Placed, PlacedAt, s, e
  <2>2. s..(at[r][x] - 1) \subseteq s..e
    BY <1>1, <2>1
  <2>. QED  BY <1>2, <2>1, <2>2 DEF SortedAt, s
<1>7. pc'[r][x] = "done" /\ Due(r, x)' => Ordered(row'[r], s, e) /\ Marked(row'[r], s, e)
  <2>. SUFFICES ASSUME pc[r][x] = "done", Due(r, x)
       PROVE Ordered(row'[r], s, e) /\ Marked(row'[r], s, e)
    OBVIOUS
  <2>1. Claims(r, x) /\ Ordered(row[r], s, e) /\ Marked(row[r], s, e)
    BY DEF Claims, SortedAt, s, e
  <2>. QED  BY <1>2, <2>1 DEF Ordered, Marked
<1>. QED  BY <1>3, <1>4, <1>5, <1>6, <1>7 DEF SortedAt, s, e

\* Entries stay those of the filter when they move and when they are marked.
LEMMA MadeStays ==
  ASSUME NEW r \in Request, input' = input, Made(r),
         \A x \in Held(r)' : \E y \in Held(r) : x = y \/ x = add_secret(y)
  PROVE  Made(r)'
<1>1. PICK rounding \in Roundings(input, req(r)) :
        \A x \in Held(r) : Of(input, req(r), rounding, x)
  BY DEF Made
<1>2. ASSUME NEW x \in Held(r)' PROVE Of(input, req(r), rounding, x)
  <2>1. PICK y \in Held(r) : x = y \/ x = add_secret(y)
    OBVIOUS
  <2>2. Of(input, req(r), rounding, y)
    BY <1>1
  <2>3. /\ add_secret(y) \in Entry /\ add_secret(y).movie = y.movie
        /\ add_secret(y).title = y.title /\ add_secret(y).pts = y.pts
    BY <2>2 DEF Of, add_secret, Entry
  <2>. QED  BY <2>1, <2>2, <2>3 DEF Of
<1>3. req(r)' = req(r)
  BY DEF req
<1>. QED  BY <1>2, <1>3 DEF Made

\* What is held, one by one.
LEMMA HeldIs ==
  ASSUME NEW r \in Request
  PROVE  /\ \A x : x \in Held(r) <=>
              \/ \E k \in 0..(count[r] - 1) : x = row[r][k]
              \/ \E n \in Node : /\ pc[r][n] \in {"merge", "copy"}
                               /\ \E i \in 1..Len(tmp[r][n]) : x = tmp[r][n][i]
         /\ \A x : x \in Held(r)' <=>
              \/ \E k \in 0..(count'[r] - 1) : x = row'[r][k]
              \/ \E n \in Node : /\ pc'[r][n] \in {"merge", "copy"}
                               /\ \E i \in 1..Len(tmp'[r][n]) : x = tmp'[r][n][i]
BY DEF Held

-----------------------------------------------------------------------------
(* One lemma for each kind of step: the row of a request that got all its  *)
(* threads stays clear.                                                    *)

ClearBefore(r, n) == RowBefore(r, n) /\ Clear(r) /\ count[r] = matches(r)

\* A call goes on with its own piece.
LEMMA OneGoesOn ==
  ASSUME NEW r \in Request, NEW n \in Node, ClearBefore(r, n), pc[r][n] \in State \ {"idle", "done"},
         pc'[r][n] \in State \ {"idle", "join"},
         \A x \in Node : x # n => /\ pc'[r][x] = pc[r][x] /\ at'[r][x] = at[r][x]
                                  /\ tmp'[r][x] = tmp[r][x],
         piece'[r] = piece[r],
         row'[r] = row[r] \/
           (pc[r][n] \in Working /\
              \A k \in 0..(count[r] - 1) : Within(k, piece[r][n]) \/ row'[r][k] = row[r][k]),
         SortedAt(r, n)',
         \A x \in Held(r)' : \E y \in Held(r) : x = y \/ x = add_secret(y)
  PROVE  Clear(r)'
<1>1. /\ RowNow(r) /\ count[r] = matches(r) /\ piece[r][Root] = Whole(r) /\ pc[r][Root] # "idle"
      /\ Made(r) /\ input' = input
  BY DEF ClearBefore, RowBefore, RowNow, Clear
<1>2. \A x \in Node : pc'[r][x] = "join" => pc[r][x] = "join"
  OBVIOUS
<1>3. ASSUME NEW x \in Node, Due(r, x)' PROVE Due(r, x)
  <2>1. \A p \in Inner : p \in Node
    BY Children
  <2>. QED  BY <1>2, <1>3, <2>1 DEF Due
<1>4. ASSUME NEW x \in Node, x # n PROVE SortedAt(r, x)'
  <2>1. SortedAt(r, x)
    BY DEF ClearBefore, Clear
  <2>2. ASSUME Claims(r, x), NEW k \in 0..(count[r] - 1), Within(k, piece[r][x])
        PROVE  row'[r][k] = row[r][k]
    <3>1. pc[r][n] \in Working => ~Within(k, piece[r][n])
      <4>1. count[r] \in Int /\ k \in Int
        BY RowTypes DEF ClearBefore, RowBefore
      <4>. QED  BY <1>1, <1>4, <2>2, <4>1, ClaimsApart
    <3>. QED  BY <3>1
  <2>3. ASSUME pc[r][x] = "join" PROVE pc'[r][Left(x)] # "idle" /\ pc'[r][Right(x)] # "idle"
    <3>1. Left(x) \in Node /\ Right(x) \in Node
      BY <1>1, <2>3, Children DEF RowNow, RowInv, Levels
    <3>2. pc[r][Left(x)] # "idle" /\ pc[r][Right(x)] # "idle"
      BY <2>1, <2>3 DEF SortedAt
    <3>. QED  BY <3>1, <3>2
  <2>. QED  BY <1>1, <1>3, <1>4, <2>1, <2>2, <2>3, SortedElsewhere
<1>5. \A x \in Node : SortedAt(r, x)'
  BY <1>4
<1>6. piece'[r][Root] = Whole(r)' /\ pc'[r][Root] # "idle"
  BY <1>1, RootIsNoHalf DEF Whole, matches, req
<1>7. Made(r)'
  BY <1>1, MadeStays
<1>. QED  BY <1>5, <1>6, <1>7 DEF Clear

LEMMA SmallClear ==
  ASSUME NEW r \in Request, NEW n \in Node, ClearBefore(r, n), Small(r, n)
  PROVE  Clear(r)'
<1>1. /\ pc[r][n] = "start" /\ pc'[r][n] = "sort" /\ at'[r][n] = piece[r][n].start
      /\ \A x \in Node : x # n => pc'[r][x] = pc[r][x] /\ at'[r][x] = at[r][x]
      /\ piece' = piece /\ row' = row /\ tmp' = tmp /\ count' = count
  BY DEF ClearBefore, RowBefore, TypeOK, Small
<1>2. SortedAt(r, n)'
  <2>1. Unmarked(row[r], piece[r][n].start, piece[r][n].end)
    BY <1>1 DEF ClearBefore, Clear, SortedAt
  <2>2. piece[r][n].start \in Int
    BY RowTypes DEF ClearBefore, RowBefore
  <2>3. SortedTo(row[r], piece[r][n].start, piece[r][n].start, piece[r][n].end)
    BY <2>1, <2>2 DEF SortedTo, Marked
  <2>. QED  BY <1>1, <2>3 DEF SortedAt
<1>3. Held(r)' = Held(r)
  <2>1. \A x \in Node : pc'[r][x] \in {"merge", "copy"} <=> pc[r][x] \in {"merge", "copy"}
    BY <1>1
  <2>. QED  BY <1>1, <2>1 DEF Held
<1>. QED  BY <1>1, <1>2, <1>3, OneGoesOn DEF State

LEMMA SortClear ==
  ASSUME NEW r \in Request, NEW n \in Node, ClearBefore(r, n), Sort(r, n)
  PROVE  Clear(r)'
<1>. SUFFICES ASSUME NEW k, k = at[r][n], NEW p, p = piece[r][n], NEW s, s = p.start, NEW e, e = p.end
     PROVE  Clear(r)'
  OBVIOUS
<1>1. pc[r][n] = "sort" /\ k <= e
  BY DEF Sort
<1>2. /\ s \in Int /\ e \in Int /\ count[r] \in Nat /\ k \in Int
      /\ row[r] \in [Slot -> Entry] /\ \A j \in 0..(count[r] - 1) : j \in Slot
  BY RowTypes DEF ClearBefore, RowBefore
<1>3. 0 <= s /\ e < count[r] /\ s <= k
  BY <1>1 DEF ClearBefore, RowBefore, Placed, PlacedAt
<1>4. /\ piece' = piece /\ tmp' = tmp /\ count' = count
      /\ SortedTo(row[r], s, k, e)
  BY <1>1 DEF Sort, ClearBefore, RowBefore, Clear, SortedAt
<1>5. CASE Aborts(row[r], k, e)
  <2>1. pc' = pc /\ row' = row /\ at' = at
    BY <1>5 DEF Sort
  <2>2. SortedAt(r, n)'
    <3>1. SortedAt(r, n)
      BY DEF ClearBefore, Clear
    <3>. QED  BY <1>1, <1>4, <2>1, <3>1 DEF SortedAt
  <2>3. Held(r)' = Held(r)
    BY <1>4, <2>1 DEF Held
  <2>. QED  BY <1>1, <1>4, <2>1, <2>2, <2>3, OneGoesOn DEF State
<1>6. CASE ~Aborts(row[r], k, e)
  <2>. DEFINE w == SortAt(row[r], k, e)
  <2>1. /\ row'[r] = w /\ at'[r][n] = k + 1
        /\ pc'[r][n] = IF k = e THEN "done" ELSE "sort"
        /\ \A x \in Node : x # n => pc'[r][x] = pc[r][x] /\ at'[r][x] = at[r][x]
    BY <1>6 DEF Sort, ClearBefore, RowBefore, TypeOK
  <2>2. Slot \subseteq Int /\ s..e \subseteq Slot /\ k..e \subseteq Slot /\ k..e \subseteq 0..(count[r] - 1)
    <3>1. s..e \subseteq 0..(count[r] - 1) /\ k..e \subseteq 0..(count[r] - 1)
      BY <1>2, <1>3
    <3>. QED  BY <1>2, <3>1 DEF Slot
  <2>3. SortedTo(w, s, k + 1, e)
    BY <1>1, <1>2, <1>3, <1>4, <2>2, SortGoesOn
  <2>4. Swapped(Slot, row[r], k, e, w)
    BY <1>1, <1>2, <2>2, SortSwaps
  <2>. HIDE DEF w
  <2>5. PICK best \in k..e :
          /\ w[k] = add_secret(row[r][best]) /\ (best # k => w[best] = row[r][k])
          /\ \A j \in Slot : j # k /\ j # best => w[j] = row[r][j]
    BY <2>4 DEF Swapped
  <2>6. k \in 0..(count[r] - 1) /\ best \in 0..(count[r] - 1) /\ Within(k, p) /\ Within(best, p)
    BY <1>1, <1>2, <1>3, <2>2 DEF Within
  <2>7. SortedAt(r, n)'
    <3>1. (k + 1) - 1 = k
      BY <1>2
    <3>2. CASE k = e
      <4>1. Ordered(w, s, e) /\ Marked(w, s, e)
        BY <2>3, <3>1, <3>2 DEF SortedTo, Ordered
      <4>. QED  BY <1>4, <2>1, <3>2, <4>1 DEF SortedAt
    <3>3. CASE k # e
      <4>1. k + 1 <= e
        BY <1>1, <1>2, <3>3
      <4>. QED  BY <1>4, <2>1, <2>3, <3>3, <4>1 DEF SortedAt
    <3>. QED  BY <3>2, <3>3
  <2>8. \A j \in 0..(count[r] - 1) : Within(j, p) \/ row'[r][j] = row[r][j]
    BY <1>2, <2>1, <2>5, <2>6
  <2>9. ASSUME NEW x \in Held(r)' PROVE \E y \in Held(r) : x = y \/ x = add_secret(y)
    <3>1. CASE \E j \in 0..(count[r] - 1) : x = row'[r][j]
      <4>1. PICK j \in 0..(count[r] - 1) : x = w[j]
        BY <2>1, <3>1
      <4>2. \A i \in 0..(count[r] - 1) : row[r][i] \in Held(r)
        BY HeldIs
      <4>3. x = row[r][j] \/ x = row[r][k] \/ x = add_secret(row[r][best])
        BY <1>2, <2>5, <2>6, <4>1
      <4>. QED  BY <2>6, <4>2, <4>3
    <3>2. CASE \E m \in Node : /\ pc'[r][m] \in {"merge", "copy"}
                               /\ \E i \in 1..Len(tmp'[r][m]) : x = tmp'[r][m][i]
      <4>1. PICK m \in Node : /\ pc'[r][m] \in {"merge", "copy"}
                              /\ \E i \in 1..Len(tmp'[r][m]) : x = tmp'[r][m][i]
        BY <3>2
      <4>2. m # n /\ pc[r][m] \in {"merge", "copy"}
        BY <2>1, <4>1
      <4>3. x \in Held(r)
        BY <1>4, <4>1, <4>2, HeldIs
      <4>. QED  BY <4>3
    <3>. QED  BY <1>4, <2>9, <3>1, <3>2, HeldIs
  <2>10. pc'[r][n] \in State \ {"idle", "join"} /\ pc[r][n] \in State \ {"idle", "done"}
         /\ pc[r][n] \in Working
    BY <1>1, <2>1 DEF State, Working
  <2>. QED  BY <1>4, <2>1, <2>7, <2>8, <2>9, <2>10, OneGoesOn
<1>. QED  BY <1>5, <1>6

LEMMA NothingClear ==
  ASSUME NEW r \in Request, NEW n \in Node, ClearBefore(r, n), SortNothing(r, n) \/ Mark(r, n)
  PROVE  Clear(r)'
<1>1. /\ pc[r][n] \in {"sort", "mark"} /\ pc'[r][n] \in {"mark", "done"}
      /\ \A x \in Node : x # n => pc'[r][x] = pc[r][x] /\ tmp'[r][x] = tmp[r][x]
      /\ piece' = piece /\ at' = at /\ count' = count
  <2>1. CASE SortNothing(r, n)
    BY <2>1 DEF SortNothing, ClearBefore, RowBefore, TypeOK
  <2>2. CASE Mark(r, n)
    BY <2>2 DEF Mark, ClearBefore, RowBefore, TypeOK
  <2>. QED  BY <2>1, <2>2
<1>2. row'[r] = row[r]
  <2>1. r - 1 # r
    BY DEF Request
  <2>. QED  BY <2>1 DEF SortNothing, Mark, ClearBefore, RowBefore, TypeOK
<1>3. SortedAt(r, n)'
  <2>1. PlacedAt(r, n) /\ piece[r][n].start \in Int /\ piece[r][n].end \in Int
    BY RowTypes DEF ClearBefore, RowBefore, Placed
  <2>2. piece[r][n].end < piece[r][n].start
    <3>1. CASE SortNothing(r, n)
      BY <3>1 DEF SortNothing
    <3>2. CASE Mark(r, n)
      BY <2>1, <3>2 DEF Mark, PlacedAt
    <3>. QED  BY <3>1, <3>2
  <2>3. piece[r][n].start..piece[r][n].end = {}
    BY <2>1, <2>2
  <2>. QED  BY <1>1, <2>3 DEF SortedAt, Ordered, Marked
<1>4. ASSUME NEW x \in Held(r)' PROVE x \in Held(r)
  <2>1. \A m \in Node : pc'[r][m] \in {"merge", "copy"} =>
          pc[r][m] \in {"merge", "copy"} /\ tmp'[r][m] = tmp[r][m]
    BY <1>1
  <2>. QED  BY <1>1, <1>2, <1>4, <2>1, HeldIs
<1>. QED  BY <1>1, <1>2, <1>3, <1>4, OneGoesOn DEF State

LEMMA JoinClear ==
  ASSUME NEW r \in Request, NEW n \in Node, ClearBefore(r, n), Join(r, n)
  PROVE  Clear(r)'
<1>1. /\ pc[r][n] = "join" /\ pc'[r][n] = "merge"
      /\ \A x \in Node : x # n => pc'[r][x] = pc[r][x]
      /\ piece' = piece /\ row' = row /\ at' = at /\ tmp' = tmp /\ count' = count
      /\ pc[r][Left(n)] = "done" /\ pc[r][Right(n)] \in {"idle", "done"}
  BY DEF Join, Ended, ClearBefore, RowBefore, TypeOK
<1>2. n \in Inner /\ Left(n) \in Node /\ Right(n) \in Node
  BY <1>1, Children DEF ClearBefore, RowBefore, RowInv, Levels
<1>3. pc[r][Right(n)] = "done" /\ tmp[r][n] = <<>>
  BY <1>1 DEF ClearBefore, Clear, SortedAt, RowBefore, Placed, PlacedAt
<1>4. Due(r, Left(n)) /\ Due(r, Right(n))
  BY <1>1, <1>2 DEF Due, Half
<1>5. SortedAt(r, n)'
  <2>1. /\ Ordered(row[r], piece[r][Left(n)].start, piece[r][Left(n)].end)
        /\ Marked(row[r], piece[r][Left(n)].start, piece[r][Left(n)].end)
        /\ Ordered(row[r], piece[r][Right(n)].start, piece[r][Right(n)].end)
        /\ Marked(row[r], piece[r][Right(n)].start, piece[r][Right(n)].end)
    BY <1>1, <1>2, <1>3, <1>4 DEF ClearBefore, Clear, SortedAt
  <2>2. Len(<<>>) = 0 /\ 1..0 = {}
    OBVIOUS
  <2>3. MergedTo(row[r], <<>>, piece[r][Left(n)].start, piece[r][Left(n)].end,
                 piece[r][Right(n)].start, piece[r][Right(n)].end)
    BY <2>1, <2>2 DEF MergedTo, Ordered, Marked
  <2>. QED  BY <1>1, <1>3, <2>3 DEF SortedAt
<1>6. ASSUME NEW x \in Held(r)' PROVE x \in Held(r)
  <2>1. ASSUME NEW m \in Node, pc'[r][m] \in {"merge", "copy"}, NEW i \in 1..Len(tmp[r][m])
        PROVE  pc[r][m] \in {"merge", "copy"}
    <3>1. m # n
      BY <1>3, <2>1
    <3>. QED  BY <1>1, <2>1, <3>1
  <2>. QED  BY <1>1, <1>6, <2>1, HeldIs
<1>. QED  BY <1>1, <1>5, <1>6, OneGoesOn DEF State

\* A split leaves both halves to be sorted, the right one in a thread there is.
LEMMA SplitClear ==
  ASSUME NEW r \in Request, NEW n \in Node, ClearBefore(r, n), Split(r, n), r \notin starved'
  PROVE  Clear(r)'
<1>. SUFFICES ASSUME NEW L, L = Left(n), NEW R, R = Right(n), NEW p, p = piece[r][n],
                     NEW m, m = (p.end + p.start) \div 2
     PROVE  Clear(r)'
  OBVIOUS
<1>1. pc[r][n] = "start" /\ ~IsSmall(p)
  BY DEF Split
<1>2. /\ p.start \in Int /\ p.end \in Int /\ count[r] \in Nat /\ p.level \in Int
      /\ RowNow(r) /\ count[r] = matches(r) /\ piece[r][Root] = Whole(r) /\ Made(r)
  BY RowTypes DEF ClearBefore, RowBefore, RowNow, Clear, Piece
<1>3. n \in Inner
  <2>1. p.level = Len(n)
    BY <1>1, <1>2 DEF RowNow, RowInv, Levels
  <2>2. p.level <= MaxLevel
    BY <1>1, <1>2, SortAssumption DEF IsSmall
  <2>. QED  BY <2>1, <2>2 DEF Inner
<1>4. /\ L \in Node /\ R \in Node /\ L # R /\ L # n /\ R # n
      /\ Half(L, n) /\ Half(R, n)
  BY <1>3, Children DEF Half
<1>5. pc[r][L] = "idle" /\ pc[r][R] = "idle"
  BY <1>1, <1>2, <1>3 DEF RowNow, RowInv, Resting
<1>6. p.start < p.end /\ m \in Int /\ p.start <= m /\ m < p.end
  <2>1. p.end - p.start >= 1
    BY <1>1, <1>2, SortAssumption DEF IsSmall
  <2>. QED  BY <1>2, <2>1
<1>7. Launched = "start"
  <2>1. ~CanCreate => r \in starved'
    BY DEF Split
  <2>. QED  BY <2>1 DEF Launched
<1>8. /\ pc'[r][n] = "join" /\ pc'[r][L] = "start" /\ pc'[r][R] = "start"
      /\ \A x \in Node : x \notin {n, L, R} => pc'[r][x] = pc[r][x]
  <2>1. pc' = [pc EXCEPT ![r][n] = "join", ![r][L] = "start", ![r][R] = "start"]
    BY <1>7 DEF Split
  <2>2. pc \in [Request -> [Node -> State]]
    BY <1>2 DEF RowNow, TypeOK, State
  <2>. QED  BY <1>4, <2>1, <2>2
<1>9. /\ piece'[r][L] = [start |-> p.start, end |-> m, level |-> p.level + 1]
      /\ piece'[r][R] = [start |-> m + 1, end |-> p.end, level |-> p.level + 1]
      /\ \A x \in Node : x \notin {L, R} => piece'[r][x] = piece[r][x]
  <2>1. piece' = [piece EXCEPT ![r][L] = Halves(p)[1], ![r][R] = Halves(p)[2]]
    BY DEF Split
  <2>2. piece \in [Request -> [Node -> Piece]]
    BY <1>2, RowTypes DEF RowNow, TypeOK
  <2>3. /\ Halves(p)[1] = [start |-> p.start, end |-> m, level |-> p.level + 1]
        /\ Halves(p)[2] = [start |-> m + 1, end |-> p.end, level |-> p.level + 1]
    BY DEF Halves
  <2>. QED  BY <1>4, <2>1, <2>2, <2>3
<1>10. row' = row /\ at' = at /\ tmp' = tmp /\ input' = input /\ count' = count
  BY DEF ClearBefore, RowBefore, Split
<1>11. Unmarked(row[r], p.start, p.end)
  BY <1>1 DEF ClearBefore, Clear, SortedAt
<1>12. SortedAt(r, n)'
  BY <1>8 DEF SortedAt
<1>13. SortedAt(r, L)' /\ SortedAt(r, R)'
  <2>1. p.start..m \subseteq p.start..p.end /\ (m + 1)..p.end \subseteq p.start..p.end
    BY <1>2, <1>6
  <2>2. piece'[r][L].start = p.start /\ piece'[r][L].end = m
    BY <1>9
  <2>3. piece'[r][R].start = m + 1 /\ piece'[r][R].end = p.end
    BY <1>9
  <2>4. Unmarked(row'[r], piece'[r][L].start, piece'[r][L].end)
    BY <1>10, <1>11, <2>1, <2>2 DEF Unmarked
  <2>5. Unmarked(row'[r], piece'[r][R].start, piece'[r][R].end)
    BY <1>10, <1>11, <2>1, <2>3 DEF Unmarked
  <2>6. SortedAt(r, L)'
    BY <1>8, <2>4 DEF SortedAt
  <2>7. SortedAt(r, R)'
    BY <1>8, <2>5 DEF SortedAt
  <2>. QED  BY <2>6, <2>7
<1>14. ASSUME NEW x \in Node, x \notin {n, L, R} PROVE SortedAt(r, x)'
  <2>1. /\ SortedAt(r, x) /\ pc'[r][x] = pc[r][x] /\ piece'[r][x] = piece[r][x]
    BY <1>8, <1>9, <1>14 DEF ClearBefore, Clear
  <2>2. ASSUME pc[r][x] \in {"join", "merge"}
        PROVE  /\ x \in Inner /\ Left(x) \in Node /\ Right(x) \in Node
               /\ Left(x) \notin {L, R} /\ Right(x) \notin {L, R}
    <3>1. x \in Inner
      BY <1>2, <2>2 DEF RowNow, RowInv, Levels
    <3>2. Left(x) \in Node /\ Right(x) \in Node /\ Half(Left(x), x) /\ Half(Right(x), x)
      BY <3>1, Children DEF Half
    <3>. QED  BY <1>3, <1>4, <1>14, <3>1, <3>2, OneParent
  <2>3. ASSUME pc[r][x] = "join" PROVE pc'[r][Left(x)] # "idle" /\ pc'[r][Right(x)] # "idle"
    <3>1. pc[r][Left(x)] # "idle" /\ pc[r][Right(x)] # "idle"
      BY <2>1, <2>3 DEF SortedAt
    <3>2. Left(x) # n => pc'[r][Left(x)] = pc[r][Left(x)]
      BY <1>8, <2>2, <2>3
    <3>3. Right(x) # n => pc'[r][Right(x)] = pc[r][Right(x)]
      BY <1>8, <2>2, <2>3
    <3>. QED  BY <1>8, <3>1, <3>2, <3>3
  <2>4. ASSUME pc[r][x] = "merge"
        PROVE piece'[r][Left(x)] = piece[r][Left(x)] /\ piece'[r][Right(x)] = piece[r][Right(x)]
    BY <1>9, <2>2, <2>4
  <2>5. ASSUME Due(r, x)' PROVE Due(r, x)
    <3>1. CASE x = Root
      BY <3>1 DEF Due
    <3>2. CASE x # Root
      <4>1. PICK q \in Inner : pc'[r][q] = "join" /\ Half(x, q)
        BY <2>5, <3>2 DEF Due
      <4>2. q \in Node /\ q # n
        BY <1>14, <4>1, Children DEF Half
      <4>3. pc[r][q] = "join"
        BY <1>8, <4>1, <4>2
      <4>. QED  BY <4>1, <4>3 DEF Due
    <3>. QED  BY <3>1, <3>2
  <2>. QED  BY <1>2, <1>10, <2>1, <2>3, <2>4, <2>5, SortedElsewhere
<1>15. piece'[r][Root] = Whole(r)' /\ pc'[r][Root] # "idle"
  <2>1. Root \in Node /\ Root \notin {L, R}
    BY <1>3, <1>4, RootIsNoHalf
  <2>2. pc[r][Root] # "idle"
    BY DEF ClearBefore, Clear
  <2>3. piece'[r][Root] = piece[r][Root] /\ pc'[r][Root] # "idle"
    BY <1>8, <1>9, <2>1, <2>2
  <2>. QED  BY <1>2, <1>10, <2>3 DEF Whole, matches, req
<1>16. ASSUME NEW x \in Held(r)' PROVE x \in Held(r)
  <2>1. \A y \in Node : pc'[r][y] \in {"merge", "copy"} => pc[r][y] \in {"merge", "copy"}
    BY <1>8
  <2>. QED  BY <1>10, <1>16, <2>1, HeldIs
<1>17. Made(r)'
  BY <1>2, <1>10, <1>16, MadeStays
<1>. QED  BY <1>12, <1>13, <1>14, <1>15, <1>17 DEF Clear

\* A merge takes the better of the next entries of the halves.
LEMMA MergeTakesBetter ==
  ASSUME NEW r \in Request, NEW n \in Node, RowBefore(r, n), Merge(r, n)
  PROVE  \E h \in {Left(n), Right(n)} :
           /\ piece' = [piece EXCEPT ![r][h].start = @ + 1]
           /\ tmp' = [tmp EXCEPT ![r][n] = Append(@, row[r][piece[r][h].start])]
           /\ TakesBetter(row[r], piece[r][Left(n)].start, piece[r][Left(n)].end,
                          piece[r][Right(n)].start, piece[r][Right(n)].end, piece[r][h].start,
                          IF h = Left(n) THEN piece[r][h].start + 1 ELSE piece[r][Left(n)].start,
                          IF h = Left(n) THEN piece[r][Right(n)].start ELSE piece[r][h].start + 1)
<1>. SUFFICES ASSUME NEW L, L = piece[r][Left(n)], NEW R, R = piece[r][Right(n)]
     PROVE  \E h \in {Left(n), Right(n)} :
              /\ piece' = [piece EXCEPT ![r][h].start = @ + 1]
              /\ tmp' = [tmp EXCEPT ![r][n] = Append(@, row[r][piece[r][h].start])]
              /\ TakesBetter(row[r], L.start, L.end, R.start, R.end, piece[r][h].start,
                             IF h = Left(n) THEN piece[r][h].start + 1 ELSE L.start,
                             IF h = Left(n) THEN R.start ELSE piece[r][h].start + 1)
  OBVIOUS
<1>1. n \in Inner /\ Merging(r, n) /\ pc[r][n] = "merge"
  BY MergeTakes
<1>2. /\ L.start \in Int /\ L.end \in Int /\ R.start \in Int /\ R.end \in Int
      /\ piece[r][n].start \in Int /\ piece[r][n].end \in Int /\ Left(n) # Right(n)
  BY <1>1, Children, RowTypes DEF RowBefore
<1>3. /\ L.start <= L.end + 1 /\ R.start <= R.end + 1 /\ R.end = piece[r][n].end
      /\ (L.start - piece[r][n].start) + (R.start - (L.end + 1)) <= piece[r][n].end - piece[r][n].start
  BY <1>1 DEF Merging
<1>4. CASE TakesLeft(L, R, row[r])
  <2>1. /\ piece' = [piece EXCEPT ![r][Left(n)].start = @ + 1]
        /\ tmp' = [tmp EXCEPT ![r][n] = Append(@, row[r][L.start])]
    BY <1>4 DEF Merge
  <2>2. L.start <= L.end /\ (R.start <= R.end => Better(row[r][L.start], row[r][R.start]))
    BY <1>2, <1>4 DEF TakesLeft
  <2>3. TakesBetter(row[r], L.start, L.end, R.start, R.end, L.start, L.start + 1, R.start)
    BY <2>2 DEF TakesBetter
  <2>. QED  BY <2>1, <2>3
<1>5. CASE ~TakesLeft(L, R, row[r])
  <2>1. /\ piece' = [piece EXCEPT ![r][Right(n)].start = @ + 1]
        /\ tmp' = [tmp EXCEPT ![r][n] = Append(@, row[r][R.start])]
    BY <1>5 DEF Merge
  <2>2. L.start <= L.end => R.start <= R.end /\ ~Better(row[r][L.start], row[r][R.start])
    BY <1>2, <1>5 DEF TakesLeft
  <2>3. R.start <= R.end
    BY <1>2, <1>3, <2>2
  <2>4. TakesBetter(row[r], L.start, L.end, R.start, R.end, R.start, L.start, R.start + 1)
    BY <2>2, <2>3 DEF TakesBetter
  <2>. QED  BY <1>2, <2>1, <2>4
<1>. QED  BY <1>4, <1>5

LEMMA MergeClear ==
  ASSUME NEW r \in Request, NEW n \in Node, ClearBefore(r, n), Merge(r, n)
  PROVE  Clear(r)'
<1>. SUFFICES ASSUME NEW L, L = Left(n), NEW R, R = Right(n), NEW p, p = piece[r][n],
                     NEW t, t = tmp[r][n], NEW l, l = piece[r][L].start, NEW le, le = piece[r][L].end,
                     NEW s, s = piece[r][R].start, NEW re, re = piece[r][R].end
     PROVE  Clear(r)'
  OBVIOUS
<1>1. /\ n \in Inner /\ Merging(r, n) /\ pc[r][n] = "merge"
      /\ RowBefore(r, n) /\ RowNow(r) /\ count[r] = matches(r) /\ piece[r][Root] = Whole(r) /\ Made(r)
      /\ row' = row /\ count' = count /\ input' = input
  BY MergeTakes DEF ClearBefore, RowBefore, RowNow, Clear, Merge
<1>2. PICK h \in {L, R} :
        /\ piece' = [piece EXCEPT ![r][h].start = @ + 1]
        /\ tmp' = [tmp EXCEPT ![r][n] = Append(@, row[r][piece[r][h].start])]
        /\ TakesBetter(row[r], l, le, s, re, piece[r][h].start,
                       IF h = L THEN piece[r][h].start + 1 ELSE l,
                       IF h = L THEN s ELSE piece[r][h].start + 1)
  BY <1>1, MergeTakesBetter
<1>3. /\ L \in Node /\ R \in Node /\ h \in Node /\ L # R /\ L # n /\ R # n /\ h # n
      /\ Half(h, n)
  BY <1>1, Children DEF Half
<1>4. /\ l \in Int /\ le \in Int /\ s \in Int /\ re \in Int
      /\ p.start \in Int /\ p.end \in Int /\ count[r] \in Nat /\ t \in Seq(Entry)
      /\ row[r] \in [Slot -> Entry] /\ \A j \in 0..(count[r] - 1) : j \in Slot
  BY <1>1, <1>3, RowTypes DEF RowBefore
<1>5. /\ 0 <= p.start /\ p.end < count[r] /\ p.start <= l /\ l <= le + 1 /\ le < s /\ s <= re + 1
      /\ re = p.end
  BY <1>1 DEF RowBefore, Placed, PlacedAt, Merging
<1>6. l..le \subseteq 0..(count[r] - 1) /\ s..re \subseteq 0..(count[r] - 1)
  <2>1. 0 <= l
    BY <1>4, <1>5
  <2>2. le <= re
    BY <1>4, <1>5
  <2>3. re <= count[r] - 1
    BY <1>4, <1>5
  <2>4. 0 <= s
    BY <1>4, <1>5, <2>1
  <2>5. le <= count[r] - 1 /\ count[r] - 1 \in Int
    BY <1>4, <2>2, <2>3
  <2>6. \A a, b, c \in Int : 0 <= a /\ b <= c => a..b \subseteq 0..c
    OBVIOUS
  <2>7. l..le \subseteq 0..(count[r] - 1)
    BY <1>4, <2>1, <2>5, <2>6
  <2>8. s..re \subseteq 0..(count[r] - 1)
    BY <1>4, <2>3, <2>4, <2>5, <2>6
  <2>. QED  BY <2>7, <2>8
<1>. SUFFICES ASSUME NEW k, k = piece[r][h].start PROVE Clear(r)'
  OBVIOUS
<1>7. k \in 0..(count[r] - 1)
  <2>1. k \in l..le \/ k \in s..re
    BY <1>2, <1>4 DEF TakesBetter
  <2>. QED  BY <1>6, <2>1
<1>8. /\ \A x \in Node : x # h => piece'[r][x] = piece[r][x]
      /\ piece'[r][h].start = k + 1 /\ piece'[r][h].end = piece[r][h].end
  <2>1. piece \in [Request -> [Node -> Piece]] /\ piece[r][h] \in Piece
    BY <1>1, <1>3, RowTypes DEF RowNow, TypeOK
  <2>. QED  BY <1>2, <1>3, <2>1 DEF Piece
<1>9. tmp'[r][n] = Append(t, row[r][k]) /\ \A x \in Node : x # n => tmp'[r][x] = tmp[r][x]
  <2>1. tmp \in [Request -> [Node -> Seq(Entry)]]
    BY <1>1 DEF RowNow, TypeOK
  <2>. QED  BY <1>2, <2>1
<1>10. /\ \A x \in Node : x # n => pc'[r][x] = pc[r][x] /\ at'[r][x] = at[r][x]
       /\ \/ pc'[r][n] = "merge" /\ at'[r][n] = at[r][n]
          \/ pc'[r][n] = "copy" /\ at'[r][n] = p.start
  <2>1. /\ pc \in [Request -> [Node -> State]] /\ at \in [Request -> [Node -> 0..MAX_MOVIES]]
    BY <1>1 DEF RowNow, TypeOK, State
  <2>2. \/ pc' = pc /\ at' = at
        \/ pc' = [pc EXCEPT ![r][n] = "copy"] /\ at' = [at EXCEPT ![r][n] = p.start]
    BY DEF Merge
  <2>. QED  BY <1>1, <2>1, <2>2
<1>11. row[r][k] \in Entry /\ MergedTo(row[r], Append(t, row[r][k]), piece'[r][L].start, le,
                                       piece'[r][R].start, re)
  <2>1. MergedTo(row[r], t, l, le, s, re)
    BY <1>1 DEF ClearBefore, Clear, SortedAt
  <2>2. Slot \subseteq Int /\ l..le \subseteq Slot /\ s..re \subseteq Slot
    BY <1>4, <1>6 DEF Slot
  <2>3. CASE h = L
    <3>1. piece'[r][L].start = k + 1 /\ piece'[r][R].start = s
      BY <1>3, <1>8, <2>3
    <3>2. TakesBetter(row[r], l, le, s, re, k, k + 1, s)
      BY <1>2, <2>3
    <3>3. row[r][k] \in Entry /\ MergedTo(row[r], Append(t, row[r][k]), k + 1, le, s, re)
      <4>. SUFFICES ASSUME NEW w, w = row[r]
           PROVE  w[k] \in Entry /\ MergedTo(w, Append(t, w[k]), k + 1, le, s, re)
        OBVIOUS
      <4>1. w \in [Slot -> Entry] /\ MergedTo(w, t, l, le, s, re) /\ TakesBetter(w, l, le, s, re, k, k + 1, s)
        BY <1>4, <2>1, <3>2
      <4>. QED  BY <1>4, <2>2, <4>1, MergeGoesOn
    <3>. QED  BY <3>1, <3>3
  <2>4. CASE h = R
    <3>1. piece'[r][L].start = l /\ piece'[r][R].start = k + 1
      BY <1>3, <1>8, <2>4
    <3>2. TakesBetter(row[r], l, le, s, re, k, l, k + 1)
      BY <1>2, <1>3, <2>4
    <3>3. row[r][k] \in Entry /\ MergedTo(row[r], Append(t, row[r][k]), l, le, k + 1, re)
      <4>. SUFFICES ASSUME NEW w, w = row[r]
           PROVE  w[k] \in Entry /\ MergedTo(w, Append(t, w[k]), l, le, k + 1, re)
        OBVIOUS
      <4>1. w \in [Slot -> Entry] /\ MergedTo(w, t, l, le, s, re) /\ TakesBetter(w, l, le, s, re, k, l, k + 1)
        BY <1>4, <2>1, <3>2
      <4>. QED  BY <1>4, <2>2, <4>1, MergeGoesOn
    <3>. QED  BY <3>1, <3>3
  <2>. QED  BY <1>2, <2>3, <2>4
<1>12. SortedAt(r, n)'
  <2>1. piece'[r][L].end = le /\ piece'[r][R].end = re /\ piece'[r][n] = p
    BY <1>2, <1>3, <1>8
  <2>2. p.start..(p.start - 1) = {}
    BY <1>4
  <2>3. Ordered(tmp'[r][n], 1, Len(tmp'[r][n])) /\ Marked(tmp'[r][n], 1, Len(tmp'[r][n]))
    BY <1>9, <1>11 DEF MergedTo
  <2>4. MergedTo(row'[r], tmp'[r][n], piece'[r][L].start, piece'[r][L].end,
                 piece'[r][R].start, piece'[r][R].end)
    BY <1>1, <1>9, <1>11, <2>1
  <2>5. CASE pc'[r][n] = "merge"
    BY <2>4, <2>5 DEF SortedAt
  <2>6. CASE pc'[r][n] = "copy" /\ at'[r][n] = p.start
    BY <2>1, <2>2, <2>3, <2>6 DEF SortedAt
  <2>. QED  BY <1>10, <2>5, <2>6
<1>13. ASSUME NEW x \in Node, Due(r, x)' PROVE Due(r, x) /\ x # h
  <2>1. CASE x = Root
    BY <1>1, <1>3, <2>1, RootIsNoHalf DEF Due
  <2>2. CASE x # Root
    <3>1. PICK q \in Inner : pc'[r][q] = "join" /\ Half(x, q)
      BY <1>13, <2>2 DEF Due
    <3>2. q \in Node /\ q # n
      BY <1>10, <3>1, Children
    <3>3. x # h
      BY <1>1, <1>3, <3>1, <3>2, OneParent
    <3>. QED  BY <1>10, <3>1, <3>2, <3>3 DEF Due
  <2>. QED  BY <2>1, <2>2
<1>14. SortedAt(r, h)'
  <2>1. pc[r][h] \in {"idle", "done"}
    BY <1>1, <1>3 DEF RowNow, RowInv, Resting, Half
  <2>2. pc'[r][h] \in {"idle", "done"}
    BY <1>3, <1>10, <2>1
  <2>3. ~Due(r, h)'
    BY <1>3, <1>13
  <2>. QED  BY <2>2, <2>3 DEF SortedAt
<1>15. ASSUME NEW x \in Node, x # n, x # h PROVE SortedAt(r, x)'
  <2>1. SortedAt(r, x)
    BY DEF ClearBefore, Clear
  <2>2. ASSUME pc[r][x] \in {"join", "merge"}
        PROVE  Left(x) \in Node /\ Right(x) \in Node /\ Left(x) # h /\ Right(x) # h
    <3>1. x \in Inner
      BY <1>1, <2>2 DEF RowNow, RowInv, Levels
    <3>2. Left(x) \in Node /\ Right(x) \in Node /\ Half(Left(x), x) /\ Half(Right(x), x)
      BY <3>1, Children DEF Half
    <3>. QED  BY <1>1, <1>3, <1>15, <3>1, <3>2, OneParent
  <2>3. ASSUME pc[r][x] = "join" PROVE pc'[r][Left(x)] # "idle" /\ pc'[r][Right(x)] # "idle"
    <3>1. pc[r][Left(x)] # "idle" /\ pc[r][Right(x)] # "idle"
      BY <2>1, <2>3 DEF SortedAt
    <3>. QED  BY <1>10, <2>2, <2>3, <3>1
  <2>4. ASSUME pc[r][x] = "merge"
        PROVE piece'[r][Left(x)] = piece[r][Left(x)] /\ piece'[r][Right(x)] = piece[r][Right(x)]
    BY <1>8, <2>2, <2>4
  <2>5. /\ pc'[r][x] = pc[r][x] /\ piece'[r][x] = piece[r][x]
        /\ at'[r][x] = at[r][x] /\ tmp'[r][x] = tmp[r][x]
    BY <1>8, <1>9, <1>10, <1>15
  <2>. QED  BY <1>1, <1>13, <2>1, <2>3, <2>4, <2>5, SortedElsewhere
<1>16. piece'[r][Root] = Whole(r)' /\ pc'[r][Root] # "idle"
  <2>1. Root \in Node /\ Root # h
    BY <1>1, <1>3, RootIsNoHalf
  <2>2. pc[r][Root] # "idle"
    BY DEF ClearBefore, Clear
  <2>3. piece'[r][Root] = piece[r][Root] /\ pc'[r][Root] # "idle"
    BY <1>8, <1>10, <2>1, <2>2
  <2>. QED  BY <1>1, <2>3 DEF Whole, matches, req
<1>17. ASSUME NEW x \in Held(r)' PROVE x \in Held(r)
  <2>1. CASE \E j \in 0..(count'[r] - 1) : x = row'[r][j]
    BY <1>1, <2>1, HeldIs
  <2>2. CASE \E y \in Node : /\ pc'[r][y] \in {"merge", "copy"}
                             /\ \E i \in 1..Len(tmp'[r][y]) : x = tmp'[r][y][i]
    <3>1. PICK y \in Node : /\ pc'[r][y] \in {"merge", "copy"}
                            /\ \E i \in 1..Len(tmp'[r][y]) : x = tmp'[r][y][i]
      BY <2>2
    <3>2. CASE y # n
      BY <1>9, <1>10, <3>1, <3>2, HeldIs
    <3>3. CASE y = n
      <4>1. x = row[r][k] \/ \E j \in 1..Len(t) : x = t[j]
        <5>1. PICK j \in 1..Len(Append(t, row[r][k])) : x = Append(t, row[r][k])[j]
          BY <1>9, <3>1, <3>3
        <5>2. \/ Append(t, row[r][k])[j] = row[r][k]
              \/ j \in 1..Len(t) /\ Append(t, row[r][k])[j] = t[j]
          BY <1>4, <1>11, <5>1, OneMore
        <5>. QED  BY <5>1, <5>2
      <4>2. row[r][k] \in Held(r)
        BY <1>7, HeldIs
      <4>3. \A j \in 1..Len(t) : t[j] \in Held(r)
        BY <1>1, HeldIs
      <4>. QED  BY <4>1, <4>2, <4>3
    <3>. QED  BY <3>2, <3>3
  <2>. QED  BY <1>17, <2>1, <2>2, HeldIs
<1>18. Made(r)'
  BY <1>1, <1>17, MadeStays
<1>. QED  BY <1>12, <1>14, <1>15, <1>16, <1>18 DEF Clear

\* A copy that ends leaves in the piece what has been merged.
LEMMA CopyClear ==
  ASSUME NEW r \in Request, NEW n \in Node, ClearBefore(r, n), Copy(r, n)
  PROVE  Clear(r)'
<1>. SUFFICES ASSUME NEW i, i = at[r][n], NEW p, p = piece[r][n], NEW s, s = p.start, NEW e, e = p.end,
                     NEW t, t = tmp[r][n], NEW x0, x0 = t[i - s + 1]
     PROVE  Clear(r)'
  OBVIOUS
<1>1. pc[r][n] = "copy" /\ RowBefore(r, n) /\ SortedAt(r, n)
  BY DEF Copy, ClearBefore, Clear
<1>2. /\ s \in Int /\ e \in Int /\ count[r] \in Nat /\ i \in Int /\ t \in Seq(Entry)
      /\ row[r] \in [Slot -> Entry] /\ \A j \in 0..(count[r] - 1) : j \in Slot
  BY <1>1, RowTypes DEF RowBefore
<1>3. /\ 0 <= s /\ e < count[r] /\ s <= i /\ i <= e /\ Len(t) = e - s + 1
  BY <1>1 DEF RowBefore, Placed, PlacedAt
<1>4. /\ i \in 0..(count[r] - 1) /\ Within(i, p) /\ Slot \subseteq Int /\ i \in Slot
      /\ \A k \in s..e : k - s + 1 \in 1..Len(t)
      /\ i - s + 1 \in 1..Len(t)
  <2>1. i \in 0..(count[r] - 1) /\ Within(i, p)
    <3>1. 0 <= i /\ i < count[r]
      BY <1>2, <1>3
    <3>. QED  BY <1>2, <1>3, <3>1, InRow DEF Within
  <2>2. Slot \subseteq Int /\ i \in Slot
    BY <1>2, <2>1 DEF Slot
  <2>3. \A a, b \in Int : \A k \in a..b : k - a + 1 \in 1..(b - a + 1)
    OBVIOUS
  <2>4. \A k \in s..e : k - s + 1 \in 1..Len(t)
    BY <1>2, <1>3, <2>3
  <2>5. i \in s..e
    BY <1>2, <1>3
  <2>. QED  BY <2>1, <2>2, <2>4, <2>5
<1>5. /\ piece' = piece /\ count' = count
      /\ row'[r] = [row[r] EXCEPT ![i] = x0]
      /\ \A x \in Node : x # n => pc'[r][x] = pc[r][x] /\ tmp'[r][x] = tmp[r][x] /\ at'[r][x] = at[r][x]
      /\ at'[r][n] = i + 1
  <2>1. /\ row \in [Request -> [Slot -> Entry]] /\ at \in [Request -> [Node -> 0..MAX_MOVIES]]
        /\ pc \in [Request -> [Node -> State]] /\ tmp \in [Request -> [Node -> Seq(Entry)]]
    BY <1>1 DEF RowBefore, TypeOK, State
  <2>2. /\ piece' = piece /\ count' = count
        /\ row' = [row EXCEPT ![r][i] = x0] /\ at' = [at EXCEPT ![r][n] = i + 1]
    BY DEF Copy
  <2>3. pc' = pc \/ pc' = [pc EXCEPT ![r][n] = "done"]
    BY DEF Copy
  <2>4. tmp' = tmp \/ tmp' = [tmp EXCEPT ![r][n] = <<>>]
    BY DEF Copy
  <2>5. \A x \in Node : x # n => pc'[r][x] = pc[r][x]
    BY <2>1, <2>3
  <2>6. \A x \in Node : x # n => tmp'[r][x] = tmp[r][x]
    BY <2>1, <2>4
  <2>7. row'[r] = [row[r] EXCEPT ![i] = x0]
    BY <2>1, <2>2
  <2>. QED  BY <2>1, <2>2, <2>5, <2>6, <2>7
<1>6. \/ i = e /\ pc'[r][n] = "done" /\ tmp'[r][n] = <<>>
      \/ i # e /\ pc'[r][n] = "copy" /\ tmp'[r][n] = t
  <2>1. CASE i = e
    BY <2>1 DEF Copy, ClearBefore, RowBefore, TypeOK
  <2>2. CASE i # e
    BY <1>1, <2>2 DEF Copy
  <2>. QED  BY <2>1, <2>2
<1>7. row'[r][i] = x0 /\ \A j \in Slot : j # i => row'[r][j] = row[r][j]
  BY <1>2, <1>4, <1>5
<1>8. Ordered(t, 1, Len(t)) /\ Marked(t, 1, Len(t))
  BY <1>1 DEF SortedAt
<1>9. \A k \in s..i : row'[r][k] = t[k - s + 1]
  <2>. SUFFICES ASSUME NEW k \in s..i PROVE row'[r][k] = t[k - s + 1]
    OBVIOUS
  <2>1. k \in 0..(count[r] - 1)
    BY <1>2, <1>3
  <2>2. CASE k = i
    BY <1>7, <2>2
  <2>3. CASE k # i
    <3>1. k \in s..(i - 1)
      BY <1>2, <2>3
    <3>2. row[r][k] = t[k - s + 1]
      BY <1>1, <3>1 DEF SortedAt
    <3>. QED  BY <1>2, <1>7, <2>1, <2>3, <3>2
  <2>. QED  BY <2>2, <2>3
<1>10. SortedAt(r, n)'
  <2>1. (i + 1) - 1 = i
    BY <1>2
  <2>2. CASE i = e /\ pc'[r][n] = "done" /\ tmp'[r][n] = <<>>
    <3>1. \A k \in s..e : k - s + 1 \in 1..Len(t) /\ row'[r][k] = t[k - s + 1]
      BY <1>4, <1>9, <2>2
    <3>2. Ordered(row'[r], s, e)
      <4>. SUFFICES ASSUME NEW a \in s..e, NEW b \in s..e, a < b PROVE NotWorse(row'[r][a], row'[r][b])
        BY DEF Ordered
      <4>1. a - s + 1 < b - s + 1
        BY <1>2
      <4>. QED  BY <1>8, <3>1, <4>1 DEF Ordered
    <3>3. Marked(row'[r], s, e)
      BY <1>8, <3>1 DEF Marked
    <3>. QED  BY <1>5, <2>2, <3>2, <3>3 DEF SortedAt
  <2>3. CASE i # e /\ pc'[r][n] = "copy" /\ tmp'[r][n] = t
    <3>1. piece'[r][n].start = s /\ at'[r][n] - 1 = i
      BY <1>5, <2>1
    <3>. QED  BY <1>8, <1>9, <2>3, <3>1 DEF SortedAt
  <2>. QED  BY <1>6, <2>2, <2>3
<1>11. ASSUME NEW x \in Held(r)' PROVE x \in Held(r)
  <2>1. \A j \in 0..(count[r] - 1) : row[r][j] \in Held(r)
    BY HeldIs
  <2>2. \A j \in 1..Len(t) : t[j] \in Held(r)
    BY <1>1, HeldIs
  <2>3. CASE \E j \in 0..(count'[r] - 1) : x = row'[r][j]
    <3>1. PICK j \in 0..(count[r] - 1) : x = row'[r][j]
      BY <1>5, <2>3
    <3>2. CASE j = i
      BY <1>4, <1>7, <2>2, <3>1, <3>2
    <3>3. CASE j # i
      BY <1>2, <1>7, <2>1, <3>1, <3>3
    <3>. QED  BY <3>2, <3>3
  <2>4. CASE \E y \in Node : /\ pc'[r][y] \in {"merge", "copy"}
                             /\ \E j \in 1..Len(tmp'[r][y]) : x = tmp'[r][y][j]
    <3>1. PICK y \in Node : /\ pc'[r][y] \in {"merge", "copy"}
                            /\ \E j \in 1..Len(tmp'[r][y]) : x = tmp'[r][y][j]
      BY <2>4
    <3>2. CASE y # n
      BY <1>5, <3>1, <3>2, HeldIs
    <3>3. CASE y = n
      BY <1>6, <2>2, <3>1, <3>3
    <3>. QED  BY <3>2, <3>3
  <2>. QED  BY <1>11, <2>3, <2>4, HeldIs
<1>12. \A k \in 0..(count[r] - 1) : Within(k, p) \/ row'[r][k] = row[r][k]
  BY <1>2, <1>4, <1>7
<1>13. pc[r][n] \in State \ {"idle", "done"} /\ pc'[r][n] \in State \ {"idle", "join"}
       /\ pc[r][n] \in Working
  BY <1>1, <1>6 DEF State, Working
<1>. QED  BY <1>5, <1>10, <1>11, <1>12, <1>13, OneGoesOn

-----------------------------------------------------------------------------
(* All rows.                                                               *)

\* A step that leaves the calls and the entries of a request alone.
LEMMA OtherClear ==
  ASSUME NEW x \in Request, RowNow(x), count[x] = matches(x), Clear(x),
         input' = input, count'[x] = count[x], RowStays(x),
         \A k \in 0..(count[x] - 1) : row'[x][k] = row[x][k]
  PROVE  Clear(x)'
<1>1. pc'[x] = pc[x] /\ piece'[x] = piece[x] /\ at'[x] = at[x] /\ tmp'[x] = tmp[x]
  BY DEF RowStays
<1>2. piece[x][Root] = Whole(x) /\ pc[x][Root] # "idle" /\ Made(x)
  BY DEF Clear
<1>3. ASSUME NEW n \in Node PROVE SortedAt(x, n)'
  <2>1. SortedAt(x, n)
    BY DEF Clear
  <2>2. Due(x, n)' <=> Due(x, n)
    BY <1>1 DEF Due
  <2>3. pc[x][n] = "join" => pc'[x][Left(n)] # "idle" /\ pc'[x][Right(n)] # "idle"
    BY <1>1, <2>1 DEF SortedAt
  <2>. QED  BY <1>1, <1>2, <2>1, <2>2, <2>3, SortedElsewhere
<1>4. ASSUME NEW y \in Held(x)' PROVE y \in Held(x)
  BY <1>1, <1>4, HeldIs
<1>5. Made(x)'
  BY <1>2, <1>4, MadeStays
<1>6. piece'[x][Root] = Whole(x)' /\ pc'[x][Root] # "idle"
  BY <1>1, <1>2 DEF Whole, matches, req
<1>. QED  BY <1>3, <1>5, <1>6 DEF Clear

SInv == CInv /\ AllSorted

LEMMA RowsNow ==
  ASSUME CInv, NEW x \in Request
  PROVE  RowNow(x)
BY DEF CInv, IInv, NothingLost, RowNow

LEMMA SMergeSort ==
  ASSUME SInv, NEW r \in Request, NEW n \in Node, MergeSort(r, n)
  PROVE  AllSorted'
<1>1. /\ input' = input /\ count' = count /\ UNCHANGED <<main, filterpc, file>>
      /\ starved \subseteq starved'
  BY DEF MergeSort, Small, Split, Sort, SortNothing, Mark, Join, Merge, Copy
<1>2. CInv /\ RowBefore(r, n)
  BY <1>1 DEF SInv, CInv, IInv, NothingLost, RowBefore
<1>3. \A x \in Request : (Spoiled(x)' <=> Spoiled(x)) /\ (Sorted(x)' <=> Sorted(x))
  BY <1>1 DEF Spoiled, Sorted, req, num_of_reqs
<1>4. ASSUME NEW x \in Request, filterpc'[x] = "sorting", ~Spoiled(x), x \notin starved'
      PROVE  Clear(x)'
  <2>1. filterpc[x] = "sorting" /\ Clear(x)
    BY <1>1, <1>4 DEF SInv, AllSorted
  <2>2. RowNow(x) /\ count[x] = matches(x)
    BY <1>2, <2>1, RowsNow, CountIs
  <2>3. CASE x = r
    <3>1. ClearBefore(r, n) /\ r \notin starved'
      BY <1>2, <1>4, <2>1, <2>2, <2>3 DEF ClearBefore
    <3>2. Clear(r)'
      BY <3>1, SmallClear, SplitClear, SortClear, NothingClear, JoinClear, MergeClear, CopyClear
      DEF MergeSort
    <3>. QED  BY <2>3, <3>2
  <2>4. CASE x # r
    <3>1. RowStays(x) /\ (Mark(r, n) \/ row'[x] = row[x])
      BY <1>2, <2>4, OthersStay DEF CInv
    <3>2. \A k \in 0..(count[x] - 1) : row'[x][k] = row[x][k]
      BY <1>2, <1>4, <2>1, <3>1, MarkSpoils
    <3>. QED  BY <1>1, <2>1, <2>2, <3>1, <3>2, OtherClear
  <2>. QED  BY <2>3, <2>4
<1>5. AnswersSorted'
  BY <1>1, <1>3 DEF SInv, AllSorted, AnswersSorted
<1>. QED  BY <1>3, <1>4, <1>5 DEF AllSorted

\* The entries of a filter are not marked yet, and of one rounding.
LEMMA SFilter ==
  ASSUME SInv, NEW r \in Request, Filter(r)
  PROVE  AllSorted'
<1>1. /\ CInv /\ TypeOK /\ filterpc[r] = "filter" /\ \A n \in Node : pc[r][n] = "idle"
      /\ Loads(input) /\ r < num_of_reqs
  BY DEF Filter, SInv, CInv, IInv, FilteredFirst, Started, Untouched
<1>2. Loaded(input, req(r)) /\ matches(r) \in 0..MAX_MOVIES /\ MAX_MOVIES \in Nat
  <2>1. input \in Files /\ num_of_reqs \in Nat /\ matches(r) \in 0..MAX_MOVIES
    BY <1>1, ReqsAre
  <2>2. r + 1 \in 1..Len(input.requests)
    BY <1>1, <2>1 DEF Request, num_of_reqs
  <2>3. input.requests[r + 1] \in Range(input.requests)
    <3>1. DOMAIN input.requests = 1..Len(input.requests)
      BY <2>1 DEF Files
    <3>. QED  BY <2>2, <3>1 DEF Range
  <2>. QED  BY <1>1, <2>1, <2>3, LimitAssumption DEF Loaded, req
<1>3. PICK rounding \in Roundings(input, req(r)) :
        row' = [row EXCEPT ![r] =
                  [k \in Slot |-> IF k < Len(Matches(input, req(r), rounding))
                                  THEN Matches(input, req(r), rounding)[k + 1] ELSE @[k]]]
  BY DEF Filter
<1>. SUFFICES ASSUME NEW w, w = Matches(input, req(r), rounding), NEW c, c = matches(r)
     PROVE  AllSorted'
  OBVIOUS
<1>4. /\ Len(w) = c /\ c \in 0..MAX_MOVIES
      /\ \A k \in 1..c : Of(input, req(r), rounding, w[k]) /\ w[k].secrets = 0
  <2>1. Len(w) = c
    BY <1>2, MatchesAll DEF matches, Loaded
  <2>. QED  BY <1>2, <2>1, MatchesAre DEF matches
<1>5. /\ count' = [count EXCEPT ![r] = c]
      /\ piece' = [piece EXCEPT ![r][Root] = Whole(r)]
      /\ pc' = [pc EXCEPT ![r][Root] = Launched]
      /\ filterpc' = [filterpc EXCEPT ![r] = "sorting"]
      /\ starved \subseteq starved' /\ (r \notin starved' => Launched = "start")
      /\ UNCHANGED <<input, at, tmp, file, main, crashed>>
  BY DEF Filter, Launched
<1>6. /\ row \in [Request -> [Slot -> Entry]] /\ count \in [Request -> 0..MAX_MOVIES]
      /\ piece \in [Request -> [Node -> Bounded]] /\ pc \in [Request -> [Node -> State]]
      /\ filterpc \in [Request -> FilterState] /\ tmp \in [Request -> [Node -> Seq(Entry)]]
  BY <1>1 DEF TypeOK, Bounded, LevelOf, State, FilterState
<1>7. \A k \in 0..(c - 1) : row'[r][k] = w[k + 1] /\ k + 1 \in 1..c
  <2>1. row'[r] = [k \in Slot |-> IF k < c THEN w[k + 1] ELSE row[r][k]]
    BY <1>3, <1>4, <1>6
  <2>2. \A k \in 0..(c - 1) : k \in Slot /\ k < c /\ k + 1 \in 1..c
    BY <1>2, <1>4 DEF Slot
  <2>. QED  BY <2>1, <2>2
<1>8. /\ \A x \in Request : x # r =>
           RowStays(x) /\ row'[x] = row[x] /\ count'[x] = count[x] /\ filterpc'[x] = filterpc[x]
      /\ count'[r] = c /\ filterpc'[r] = "sorting"
      /\ piece'[r][Root] = Whole(r) /\ pc'[r][Root] = Launched
      /\ \A n \in Node : n # Root => pc'[r][n] = "idle"
  BY <1>1, <1>3, <1>5, <1>6, RootIsNoHalf DEF RowStays
<1>9. ASSUME r \notin starved' PROVE Clear(r)'
  <2>1. pc'[r][Root] = "start"
    BY <1>5, <1>8, <1>9
  <2>2. Unmarked(row'[r], 0, c - 1)
    BY <1>4, <1>7 DEF Unmarked
  <2>3. piece'[r][Root].start = 0 /\ piece'[r][Root].end = c - 1
    BY <1>8 DEF Whole
  <2>4. SortedAt(r, Root)'
    BY <2>1, <2>2, <2>3 DEF SortedAt
  <2>5. \A n \in Node : n # Root => SortedAt(r, n)'
    BY <1>8 DEF SortedAt
  <2>6. ASSUME NEW x \in Held(r)' PROVE Of(input, req(r), rounding, x)
    <3>1. \A n \in Node : pc'[r][n] \notin {"merge", "copy"}
      BY <1>8, <2>1
    <3>2. \E k \in 0..(c - 1) : x = row'[r][k]
      BY <1>8, <2>6, <3>1, HeldIs
    <3>. QED  BY <1>4, <1>7, <3>2
  <2>7. Made(r)'
    BY <1>5, <2>6 DEF Made, req
  <2>8. piece'[r][Root] = Whole(r)' /\ pc'[r][Root] # "idle"
    BY <1>5, <1>8, <2>1 DEF Whole, matches, req
  <2>. QED  BY <2>4, <2>5, <2>7, <2>8 DEF Clear
<1>10. \A x \in Request : (Spoiled(x)' <=> Spoiled(x)) /\ (Sorted(x)' <=> Sorted(x))
  BY <1>5 DEF Spoiled, Sorted, req, num_of_reqs
<1>11. ASSUME NEW x \in Request, filterpc'[x] = "sorting", ~Spoiled(x), x \notin starved'
       PROVE  Clear(x)'
  <2>1. CASE x = r
    BY <1>9, <1>11, <2>1
  <2>2. CASE x # r
    <3>1. filterpc[x] = "sorting" /\ Clear(x)
      BY <1>5, <1>8, <1>11, <2>2 DEF SInv, AllSorted
    <3>2. RowNow(x) /\ count[x] = matches(x)
      BY <1>1, <3>1, RowsNow, CountIs
    <3>. QED  BY <1>5, <1>8, <2>2, <3>1, <3>2, OtherClear
  <2>. QED  BY <2>1, <2>2
<1>12. AnswersSorted'
  BY <1>5, <1>8, <1>10 DEF SInv, AllSorted, AnswersSorted
<1>. QED  BY <1>10, <1>11, <1>12 DEF AllSorted

\* The root is done: its piece is the answer.
LEMMA SOutput ==
  ASSUME SInv, NEW r \in Request, Output(r)
  PROVE  AllSorted'
<1>1. /\ CInv /\ TypeOK /\ filterpc[r] = "sorting" /\ pc[r][Root] \in {"idle", "done"}
      /\ file' = [file EXCEPT ![r] = [k \in 1..count[r] |-> row[r][k - 1]]]
      /\ filterpc' = [filterpc EXCEPT ![r] = "done"]
      /\ UNCHANGED <<input, row, count, piece, pc, at, tmp, main, starved>>
  BY DEF Output, Ended, SInv, CInv
<1>2. /\ count[r] \in Nat /\ file \in [Request -> Seq(Entry)] /\ filterpc \in [Request -> FilterState]
  BY <1>1, LimitAssumption DEF TypeOK, FilterState
<1>3. \A x \in Request : (Spoiled(x)' <=> Spoiled(x)) /\ (x # r => (Sorted(x)' <=> Sorted(x)))
  BY <1>1, <1>2 DEF Spoiled, Sorted, req, num_of_reqs
<1>. SUFFICES ASSUME NEW c, c = count[r], NEW a, a = [k \in 1..c |-> row[r][k - 1]]
     PROVE  AllSorted'
  OBVIOUS
<1>4. ASSUME Clear(r) PROVE Sorted(r)'
  <2>1. /\ pc[r][Root] = "done" /\ Due(r, Root) /\ piece[r][Root] = Whole(r) /\ Root \in Node
        /\ c = matches(r) /\ Loads(input) /\ r < num_of_reqs
    BY <1>1, <1>4, CountIs, RootIsNoHalf DEF Clear, Due
  <2>2. Ordered(row[r], 0, c - 1) /\ Marked(row[r], 0, c - 1)
    BY <1>4, <2>1 DEF Clear, SortedAt, Whole
  <2>3. PICK rounding \in Roundings(input, req(r)) :
          \A x \in Held(r) : Of(input, req(r), rounding, x)
    BY <1>4 DEF Clear, Made
  <2>4. c \in Nat /\ Len(a) = c /\ \A k \in 1..c : a[k] = row[r][k - 1] /\ k - 1 \in 0..(c - 1)
    <3>1. c \in Nat
      BY <1>2
    <3>2. \A b : b = [k \in 1..c |-> row[r][k - 1]] => Len(b) = c
      BY <3>1
    <3>. QED  BY <3>1, <3>2
  <2>5. \A k \in 1..Len(a) : Of(input, req(r), rounding, a[k])
    BY <2>3, <2>4, HeldIs
  <2>6. Ordered(a, 1, Len(a))
    <3>. SUFFICES ASSUME NEW i \in 1..c, NEW j \in 1..c, i < j PROVE NotWorse(a[i], a[j])
      BY <2>4 DEF Ordered
    <3>1. i - 1 < j - 1
      BY <2>4
    <3>. QED  BY <2>2, <2>4, <3>1 DEF Ordered
  <2>7. Marked(a, 1, Len(a))
    BY <2>2, <2>4 DEF Marked
  <2>8. Loaded(input, req(r))
    <3>1. input \in Files /\ num_of_reqs \in Nat
      BY <1>1, ReqsAre
    <3>2. r + 1 \in 1..Len(input.requests)
      BY <2>1, <3>1 DEF Request, num_of_reqs
    <3>3. DOMAIN input.requests = 1..Len(input.requests)
      BY <3>1 DEF Files
    <3>4. input.requests[r + 1] \in Range(input.requests)
      BY <3>2, <3>3 DEF Range
    <3>. QED  BY <2>1, <3>1, <3>4 DEF Loaded, req
  <2>9. IsSorted(a, input, req(r))
    BY <2>3, <2>5, <2>6, <2>7, <2>8, AnswerInOrder
  <2>10. file'[r] = a
    BY <1>1, <1>2
  <2>. QED  BY <1>1, <2>9, <2>10 DEF Sorted, req
<1>5. ASSUME NEW x \in Request, filterpc'[x] = "done" PROVE Spoiled(x)' \/ x \in starved' \/ Sorted(x)'
  <2>1. CASE x = r
    BY <1>1, <1>3, <1>4, <2>1 DEF SInv, AllSorted
  <2>2. CASE x # r
    <3>1. filterpc[x] = "done"
      BY <1>1, <1>2, <1>5, <2>2
    <3>. QED  BY <1>1, <1>3, <2>2, <3>1 DEF SInv, AllSorted, AnswersSorted
  <2>. QED  BY <2>1, <2>2
<1>6. ASSUME NEW x \in Request, filterpc'[x] = "sorting", ~Spoiled(x), x \notin starved'
      PROVE  Clear(x)'
  <2>1. filterpc[x] = "sorting" /\ Clear(x)
    BY <1>1, <1>2, <1>6 DEF SInv, AllSorted
  <2>2. RowNow(x) /\ count[x] = matches(x) /\ RowStays(x)
    BY <1>1, <2>1, RowsNow, CountIs DEF RowStays
  <2>. QED  BY <1>1, <2>1, <2>2, OtherClear
<1>. QED  BY <1>3, <1>5, <1>6 DEF AllSorted, AnswersSorted

LEMMA MainSorted ==
  ASSUME SInv, starved \subseteq starved',
         UNCHANGED <<input, row, count, piece, pc, at, tmp, file>>,
         \A x \in Request : filterpc'[x] \in {"sorting", "done"} => filterpc'[x] = filterpc[x]
  PROVE  AllSorted'
<1>1. \A x \in Request : (Spoiled(x)' <=> Spoiled(x)) /\ (Sorted(x)' <=> Sorted(x))
  BY DEF Spoiled, Sorted, req, num_of_reqs
<1>2. ASSUME NEW x \in Request, filterpc'[x] = "sorting", ~Spoiled(x), x \notin starved'
      PROVE  Clear(x)'
  <2>1. filterpc[x] = "sorting" /\ Clear(x)
    BY <1>2 DEF SInv, AllSorted
  <2>2. RowNow(x) /\ count[x] = matches(x) /\ RowStays(x)
    BY <2>1, RowsNow, CountIs DEF SInv, RowStays
  <2>. QED  BY <2>1, <2>2, OtherClear
<1>3. AnswersSorted'
  BY <1>1 DEF SInv, AllSorted, AnswersSorted
<1>. QED  BY <1>1, <1>2, <1>3 DEF AllSorted

LEMMA SInit == Init => SInv
<1>. SUFFICES ASSUME Init PROVE SInv
  OBVIOUS
<1>1. AllSorted
  BY DEF Init, AllSorted, AnswersSorted
<1>. QED  BY <1>1, CInit DEF SInv

LEMMA SNext == SInv /\ [Next]_vars => SInv'
<1>. SUFFICES ASSUME SInv, [Next]_vars PROVE SInv'
  OBVIOUS
<1>1. CInv'
  BY CNext DEF SInv
<1>2. CASE Initialize
  <2>1. UNCHANGED <<input, row, count, piece, pc, at, tmp, filterpc, file, starved>>
    BY <1>2 DEF Initialize
  <2>. QED  BY <1>1, <2>1, MainSorted DEF SInv
<1>3. CASE Create
  <2>1. /\ main \in 0..(num_of_reqs - 1) /\ starved \subseteq starved'
        /\ UNCHANGED <<input, row, count, piece, pc, at, tmp, file, crashed>>
        /\ filterpc' = [filterpc EXCEPT ![main] = IF CanCreate THEN "filter" ELSE "failed"]
    BY <1>3 DEF Create
  <2>2. filterpc \in [Request -> FilterState]
    BY DEF SInv, CInv, TypeOK, FilterState
  <2>3. \A x \in Request : filterpc'[x] \in {"sorting", "done"} => filterpc'[x] = filterpc[x]
    BY <2>1, <2>2
  <2>. QED  BY <1>1, <2>1, <2>3, MainSorted DEF SInv
<1>4. CASE Return
  <2>1. UNCHANGED <<input, row, count, piece, pc, at, tmp, filterpc, file, starved>>
    BY <1>4 DEF Return
  <2>. QED  BY <1>1, <2>1, MainSorted DEF SInv
<1>5. CASE UNCHANGED vars
  <2>1. UNCHANGED <<input, row, count, piece, pc, at, tmp, filterpc, file, starved>>
    BY <1>5 DEF vars
  <2>. QED  BY <1>1, <2>1, MainSorted DEF SInv
<1>6. CASE \E r \in Request, n \in Node : MergeSort(r, n)
  BY <1>1, <1>6, SMergeSort DEF SInv
<1>7. CASE \E r \in Request : Filter(r) \/ Output(r)
  BY <1>1, <1>7, SFilter, SOutput DEF SInv
<1>. QED  BY <1>2, <1>3, <1>4, <1>5, <1>6, <1>7 DEF Next

\* In every behaviour of tserver, however its threads are interleaved, an answer
\* that is written lists its movies in the order in which the files put them,
\* each marked once, unless a thread of the request could not be created or the
\* row of the next request has spoiled it: a merge never reads a half that is
\* not sorted yet, and no mark is lost or made twice.
THEOREM AnswersInOrder == Spec => []AnswersSorted
<1>1. SInv => AnswersSorted
  BY DEF SInv, AllSorted
<1>. QED  BY <1>1, SInit, SNext, PTL DEF Spec

=============================================================================
