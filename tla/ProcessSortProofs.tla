-------------------------- MODULE ProcessSortProofs --------------------------
(***************************************************************************)
(* Theorems about pserver of hw4: whatever the number of movies and levels, *)
(* and whichever forks fail or children die, two processes never work on   *)
(* the same slot, the answer lists every match once, and it is in order if  *)
(* every process could be created and no grade is below 0.                 *)
(***************************************************************************)
EXTENDS ProcessSort, MovieSortProofs

-----------------------------------------------------------------------------
(* The tree of processes.                                                  *)

\* Processes that may fork.
Inner == {n \in Node : Len(n) <= MaxLevel}

LEMMA NodeSeq == \A n : n \in Node <=> n \in Seq({0, 1}) /\ Len(n) <= MaxLevel + 1
<1>. SUFFICES ASSUME NEW n PROVE n \in Node <=> n \in Seq({0, 1}) /\ Len(n) <= MaxLevel + 1
  OBVIOUS
<1>1. ASSUME n \in Node PROVE n \in Seq({0, 1}) /\ Len(n) <= MaxLevel + 1
  <2>1. PICK k \in 0..(MaxLevel + 1) : n \in [1..k -> {0, 1}]
    BY <1>1 DEF Node
  <2>2. k \in Nat /\ MaxLevel \in Nat
    BY SortAssumption
  <2>3. n \in Seq({0, 1}) /\ Len(n) = k
    BY <2>1, <2>2
  <2>. QED  BY <2>2, <2>3
<1>2. ASSUME n \in Seq({0, 1}), Len(n) <= MaxLevel + 1 PROVE n \in Node
  <2>1. n \in [1..Len(n) -> {0, 1}] /\ Len(n) \in Nat
    BY <1>2
  <2>2. Len(n) \in 0..(MaxLevel + 1)
    BY <1>2, <2>1, SortAssumption
  <2>. QED  BY <2>1, <2>2 DEF Node
<1>. QED  BY <1>1, <1>2

LEMMA Children ==
  ASSUME NEW n \in Inner
  PROVE  /\ n \in Node
         /\ Left(n) \in Node /\ Right(n) \in Node
         /\ Len(Left(n)) = Len(n) + 1 /\ Len(Right(n)) = Len(n) + 1
         /\ Left(n) # Right(n) /\ Left(n) # n /\ Right(n) # n
<1>1. n \in Node /\ n \in Seq({0, 1}) /\ Len(n) <= MaxLevel
  BY NodeSeq DEF Inner
<1>2. Left(n) \in Seq({0, 1}) /\ Right(n) \in Seq({0, 1})
  BY <1>1 DEF Left, Right
<1>3. Len(Left(n)) = Len(n) + 1 /\ Len(Right(n)) = Len(n) + 1
  BY <1>1 DEF Left, Right
<1>4. Left(n) \in Node /\ Right(n) \in Node
  BY <1>1, <1>2, <1>3, NodeSeq, SortAssumption
<1>5. Left(n)[Len(n) + 1] = 0 /\ Right(n)[Len(n) + 1] = 1
  BY <1>1 DEF Left, Right
<1>6. Left(n) # n /\ Right(n) # n
  BY <1>1, <1>3
<1>. QED  BY <1>1, <1>3, <1>4, <1>5, <1>6

\* Is m a half of n?
Half(m, n) == m = Left(n) \/ m = Right(n)

LEMMA OneParent ==
  ASSUME NEW n \in Inner, NEW p \in Inner, NEW m, Half(m, n), Half(m, p)
  PROVE  n = p
<1>1. n \in Seq({0, 1}) /\ p \in Seq({0, 1})
  BY NodeSeq DEF Inner
<1>2. \E a, b \in {0, 1} : Append(n, a) = Append(p, b)
  BY DEF Half, Left, Right
<1>3. PICK a, b \in {0, 1} : Append(n, a) = Append(p, b)
  BY <1>2
<1>. QED  BY <1>1, <1>3

LEMMA RootIsNoHalf ==
  /\ Root \in Node
  /\ Len(Root) = 0
  /\ \A n \in Inner : ~Half(Root, n)
<1>1. Root \in Seq({0, 1}) /\ Len(Root) = 0
  BY DEF Root
<1>2. Root \in Node
  <2>1. 0 <= MaxLevel + 1
    BY SortAssumption
  <2>2. Root \in Node <=> Root \in Seq({0, 1}) /\ Len(Root) <= MaxLevel + 1
    BY NodeSeq
  <2>. QED  BY <1>1, <2>1, <2>2
<1>3. ASSUME NEW n \in Inner PROVE ~Half(Root, n)
  BY <1>1, Children DEF Half, Inner, Node
<1>. QED  BY <1>1, <1>2, <1>3

-----------------------------------------------------------------------------
(* The inductive invariant.                                                *)

State == {"idle", "initialize", "filter", "start", "fork", "wait", "merge", "nothing",
          "fetch", "sort", "copy", "output", "exited"}
Working == {"start", "merge", "nothing", "fetch", "sort", "copy"}
Waiting == {"fork", "wait"}
Absent == {"idle", "exited"}
Piece == [start : Int, end : Int, level : Int]

Within(x, p) == p.start <= x /\ x <= p.end

\* What a process leaves to its child n.
HalfOf(n, p) == IF n = Left(p) THEN LeftHalf(piece[p]) ELSE RightHalf(piece[p])

\* Slot x is n's: n works on it, or n's parent has left it to n, which was not
\* created yet or has ended.
Has(n, x) ==
  \/ pc[n] \in Working /\ Within(x, piece[n])
  \/ pc[n] \in Absent /\ \E p \in Inner :
       pc[p] \in Waiting /\ Half(n, p) /\ Within(x, HalfOf(n, p))

Typed ==
  /\ input \in Input
  /\ pc \in [Node -> State]
  /\ piece \in [Node -> Piece]
  /\ forked \in [Node -> SUBSET Node]

\* No slot is two processes'.
Disjoint ==
  \A m, n \in Node : m # n => \A x \in Int : ~(Has(m, x) /\ Has(n, x))

\* A process knows its level, and only main has another start than a fork.
Levels ==
  \A n \in Node :
    /\ pc[n] \notin {"idle", "initialize", "filter"} => piece[n].level = Len(n)
    /\ pc[n] \in Waiting \cup {"merge"} => n \in Inner
    /\ pc[n] \in {"initialize", "filter", "output"} => n = Root

\* Only large pieces are split, so only main may have a piece of no slot.
NonEmpty ==
  \A n \in Node :
    /\ n # Root /\ pc[n] # "idle" => piece[n].start <= piece[n].end
    /\ pc[n] \in Waiting => IsLarge(piece[n])
    /\ pc[n] = "nothing" => n = Root

\* Until main has filtered nobody else is there.
MainFirst ==
  pc[Root] \in {"initialize", "filter"} => \A n \in Node : n # Root => pc[n] = "idle"

\* Children are there only while their parent forks or waits for them, and
\* they sort the parent's halves.
Forks ==
  \A p \in Inner :
    /\ pc[p] \notin Waiting \cup {"merge", "copy", "output", "exited"} =>
         pc[Left(p)] = "idle" /\ pc[Right(p)] = "idle"
    /\ pc[p] = "fork" => pc[Right(p)] = "idle"
    /\ pc[p] \in {"merge", "copy", "output", "exited"} =>
         pc[Left(p)] \in Absent /\ pc[Right(p)] \in Absent
    /\ pc[p] \in Waiting => \A c \in {Left(p), Right(p)} :
         /\ pc[c] # "idle" => piece[c] = HalfOf(c, p)
         /\ pc[c] \notin Absent => c \in forked[p]

IInv == Typed /\ Disjoint /\ Levels /\ NonEmpty /\ MainFirst /\ Forks

-----------------------------------------------------------------------------
(* The steps.                                                              *)

\* The halves that a process computes.
LEMMA Halved ==
  ASSUME Typed, NEW n \in Inner
  PROVE  /\ HalfOf(Left(n), n) \in Piece /\ HalfOf(Right(n), n) \in Piece
         /\ piece[n].level = Len(n) =>
              HalfOf(Left(n), n).level = Len(n) + 1 /\ HalfOf(Right(n), n).level = Len(n) + 1
         /\ IsLarge(piece[n]) => \A c \in {Left(n), Right(n)} :
              HalfOf(c, n).start <= HalfOf(c, n).end
         /\ \A x \in Int :
              /\ ~(Within(x, HalfOf(Left(n), n)) /\ Within(x, HalfOf(Right(n), n)))
              /\ Within(x, piece[n]) =>
                   Within(x, HalfOf(Left(n), n)) \/ Within(x, HalfOf(Right(n), n))
              /\ IsLarge(piece[n]) =>
                   (Within(x, HalfOf(Left(n), n)) \/ Within(x, HalfOf(Right(n), n))
                      => Within(x, piece[n]))
<1>1. piece[n] \in Piece /\ Left(n) # Right(n)
  BY Children DEF Typed
<1>2. PICK a \in Int, b \in Int : a = piece[n].start /\ b = piece[n].end
  BY <1>1 DEF Piece
<1>3. PICK m \in Int : m = (b + a) \div 2
  OBVIOUS
<1>4. /\ HalfOf(Left(n), n) = [start |-> a, end |-> m, level |-> piece[n].level + 1]
      /\ HalfOf(Right(n), n) = [start |-> m + 1, end |-> b, level |-> piece[n].level + 1]
  BY <1>1, <1>2, <1>3 DEF HalfOf, LeftHalf, RightHalf
<1>5. IsLarge(piece[n]) => a <= m /\ m < b
  BY <1>2, <1>3, SortAssumption DEF IsLarge
<1>6. piece[n].level + 1 \in Int
  BY <1>1 DEF Piece
<1>7. HalfOf(Left(n), n) \in Piece /\ HalfOf(Right(n), n) \in Piece
  BY <1>4, <1>6 DEF Piece
<1>8. ASSUME NEW x \in Int
      PROVE  /\ Within(x, HalfOf(Left(n), n)) <=> a <= x /\ x <= m
             /\ Within(x, HalfOf(Right(n), n)) <=> m + 1 <= x /\ x <= b
             /\ Within(x, piece[n]) <=> a <= x /\ x <= b
  BY <1>2, <1>4 DEF Within
<1>9. IsLarge(piece[n]) => \A c \in {Left(n), Right(n)} : HalfOf(c, n).start <= HalfOf(c, n).end
  BY <1>4, <1>5
<1>. QED  BY <1>4, <1>5, <1>7, <1>8, <1>9

\* Where the parent of a process is that is there.
LEMMA ParentWaits ==
  ASSUME IInv, NEW p \in Inner, NEW c \in Node, Half(c, p), pc[c] \notin Absent
  PROVE  /\ pc[p] \in Waiting
         /\ piece[c] = HalfOf(c, p) /\ c \in forked[p]
         /\ pc[p] = "fork" => c = Left(p)
<1>1. pc[c] # "idle" /\ c \in {Left(p), Right(p)} /\ pc[p] \in State
  BY Children DEF Absent, Half, IInv, Typed
<1>2. pc[p] \in Waiting
  BY <1>1 DEF IInv, Forks, Half, State
<1>. QED  BY <1>1, <1>2 DEF IInv, Forks, Half

\* Nothing changes that the invariant is about.
LEMMA NothingChanges ==
  ASSUME IInv, UNCHANGED <<input, pc, piece, forked>>
  PROVE  IInv'
<1>1. \A n \in Node, x \in Int : Has(n, x)' <=> Has(n, x)
  BY DEF Has, HalfOf
<1>2. Disjoint'
  BY <1>1 DEF IInv, Disjoint
<1>3. Forks'
  BY DEF IInv, Forks, HalfOf
<1>. QED  BY <1>2, <1>3 DEF IInv, Typed, Levels, NonEmpty, MainFirst

\* A process goes on with its own piece, or ends.
LEMMA GoesOn ==
  ASSUME IInv, NEW n \in Node, pc[n] \in Working \cup {"output"},
         NEW s \in {"fetch", "nothing", "sort", "copy", "output", "exited"},
         s \in {"fetch", "nothing", "sort"} => pc[n] \in {"start", "fetch", "sort"},
         s = "copy" => pc[n] # "output",
         s \in {"nothing", "output"} => n = Root,
         pc' = [pc EXCEPT ![n] = s], UNCHANGED <<input, piece, forked>>
  PROVE  IInv'
<1>1. Typed' /\ pc'[n] = s /\ \A m \in Node : m # n => pc'[m] = pc[m]
  BY DEF IInv, Typed, State
<1>2. \A p \in Inner : pc'[p] \in Waiting <=> pc[p] \in Waiting
  BY <1>1, Children DEF Waiting, Working
<1>3. ASSUME NEW m \in Node, NEW x \in Int, Has(m, x)' PROVE Has(m, x)
  <2>1. CASE m # n
    BY <1>1, <1>2, <1>3, <2>1 DEF Has, HalfOf
  <2>2. CASE m = n /\ s # "exited"
    BY <1>1, <1>3, <2>2 DEF Has, Working, Absent
  <2>3. CASE m = n /\ s = "exited"
    <3>1. PICK p \in Inner : pc'[p] \in Waiting /\ Half(n, p) /\ Within(x, HalfOf(n, p))
      BY <1>1, <1>3, <2>3 DEF Has, HalfOf, Working
    <3>2. n # Root
      BY <3>1, RootIsNoHalf
    <3>3. pc[n] # "output"
      BY <3>2 DEF IInv, Levels
    <3>4. pc[n] \in Working /\ pc[n] \notin Absent
      BY <3>3 DEF Working, Absent
    <3>5. piece[n] = HalfOf(n, p)
      BY <3>1, <3>4, ParentWaits
    <3>. QED  BY <2>3, <3>1, <3>4, <3>5 DEF Has
  <2>. QED  BY <2>1, <2>2, <2>3
<1>4. Disjoint'
  BY <1>3 DEF IInv, Disjoint
<1>5. Levels'
  BY <1>1 DEF IInv, Levels, Working, Waiting
<1>8. NonEmpty'
  BY <1>1 DEF IInv, NonEmpty, Working, Waiting
<1>6. MainFirst'
  <2>. SUFFICES ASSUME pc'[Root] \in {"initialize", "filter"} PROVE FALSE
    BY DEF MainFirst
  <2>1. n # Root /\ pc[Root] = pc'[Root]
    BY <1>1, RootIsNoHalf
  <2>. QED  BY <2>1 DEF IInv, MainFirst, Working
<1>7. Forks'
  <2>. SUFFICES ASSUME NEW p \in Inner
       PROVE /\ pc'[p] \notin Waiting \cup {"merge", "copy", "output", "exited"} =>
                  pc'[Left(p)] = "idle" /\ pc'[Right(p)] = "idle"
             /\ pc'[p] = "fork" => pc'[Right(p)] = "idle"
             /\ pc'[p] \in {"merge", "copy", "output", "exited"} =>
                  pc'[Left(p)] \in Absent /\ pc'[Right(p)] \in Absent
             /\ pc'[p] \in Waiting => \A c \in {Left(p), Right(p)} :
                  /\ pc'[c] # "idle" => piece[c] = HalfOf(c, p)
                  /\ pc'[c] \notin Absent => c \in forked[p]
    BY DEF Forks, HalfOf
  <2>1. p \in Node /\ Left(p) \in Node /\ Right(p) \in Node /\ Left(p) # p /\ Right(p) # p
    BY Children
  <2>2. CASE p = n
    <3>1. pc'[Left(p)] = pc[Left(p)] /\ pc'[Right(p)] = pc[Right(p)]
      BY <1>1, <2>1, <2>2
    <3>. QED  BY <1>1, <2>2, <3>1 DEF IInv, Forks, Working, Waiting, Absent
  <2>3. CASE p # n /\ ~Half(n, p)
    BY <1>1, <2>1, <2>3 DEF IInv, Forks, Half
  <2>4. CASE p # n /\ Half(n, p)
    <3>1. pc[n] \notin Absent
      BY DEF Absent, Working
    <3>2. /\ pc'[p] = pc[p] /\ pc[p] \in Waiting /\ piece[n] = HalfOf(n, p) /\ n \in forked[p]
          /\ pc[p] = "fork" => n = Left(p)
      BY <1>1, <2>1, <2>4, <3>1, ParentWaits
    <3>3. \A c \in {Left(p), Right(p)} : c # n => pc'[c] = pc[c]
      BY <1>1, <2>1
    <3>. QED  BY <2>1, <3>2, <3>3, Children DEF IInv, Forks, Waiting
  <2>. QED  BY <2>2, <2>3, <2>4
<1>. QED  BY <1>1, <1>4, <1>5, <1>6, <1>7, <1>8 DEF IInv

\* A process forks, or fails to fork, one of its children.
LEMMA ForksOne ==
  ASSUME IInv, NEW n \in Inner, NEW c \in Node, Half(c, n), pc[c] = "idle",
         \/ pc[n] = "start" /\ IsLarge(piece[n]) /\ c = Left(n)
         \/ pc[n] = "fork" /\ c = Right(n),
         Fork(n, c, HalfOf(c, n), IF c = Left(n) THEN "fork" ELSE "wait"),
         UNCHANGED input
  PROVE  IInv'
<1>. DEFINE b == IF c = Left(n) THEN "fork" ELSE "wait"
<1>1. /\ n \in Node /\ Left(n) \in Node /\ Right(n) \in Node
      /\ Left(n) # Right(n) /\ Left(n) # n /\ Right(n) # n /\ c # n
      /\ Half(Left(n), n) /\ Half(Right(n), n) /\ c \in {Left(n), Right(n)}
      /\ Len(Left(n)) = Len(n) + 1 /\ Len(Right(n)) = Len(n) + 1
  BY Children DEF Half
<1>2. /\ pc \in [Node -> State] /\ piece \in [Node -> Piece] /\ forked \in [Node -> SUBSET Node]
      /\ HalfOf(c, n) \in Piece
      /\ piece[n].level = Len(n) /\ HalfOf(c, n).level = Len(c)
  BY <1>1, Halved DEF IInv, Typed, Levels
<1>3. \E t \in {"start", "idle"} :
        /\ pc' = [pc EXCEPT ![n] = b, ![c] = t]
        /\ piece' = [piece EXCEPT ![c] = IF t = "start" THEN HalfOf(c, n) ELSE @]
        /\ forked' = [forked EXCEPT ![n] = IF t = "start" THEN @ \cup {c} ELSE @]
  <2>1. CASE /\ pc' = [pc EXCEPT ![n] = b, ![c] = "start"]
             /\ piece' = [piece EXCEPT ![c] = HalfOf(c, n)]
             /\ forked' = [forked EXCEPT ![n] = @ \cup {c}]
    BY <2>1
  <2>2. CASE pc' = [pc EXCEPT ![n] = b] /\ UNCHANGED <<piece, forked>>
    <3>1. [pc EXCEPT ![n] = b, ![c] = "idle"] = [pc EXCEPT ![n] = b]
      BY <1>1, <1>2
    <3>2. /\ [piece EXCEPT ![c] = IF "idle" = "start" THEN HalfOf(c, n) ELSE @] = piece
          /\ [forked EXCEPT ![n] = IF "idle" = "start" THEN @ \cup {c} ELSE @] = forked
      BY <1>1, <1>2
    <3>. QED  BY <2>2, <3>1, <3>2
  <2>. QED  BY <2>1, <2>2 DEF Fork
<1>4. PICK t \in {"start", "idle"} :
        /\ pc' = [pc EXCEPT ![n] = b, ![c] = t]
        /\ piece' = [piece EXCEPT ![c] = IF t = "start" THEN HalfOf(c, n) ELSE @]
        /\ forked' = [forked EXCEPT ![n] = IF t = "start" THEN @ \cup {c} ELSE @]
  BY <1>3
<1>5. /\ pc'[n] = b /\ pc'[c] = t /\ \A m \in Node : m \notin {n, c} => pc'[m] = pc[m]
      /\ \A m \in Node : m # c => piece'[m] = piece[m]
      /\ t = "start" => piece'[c] = HalfOf(c, n) /\ c \in forked'[n]
      /\ t = "idle" => piece' = piece
      /\ \A m \in Node : forked[m] \subseteq forked'[m]
  BY <1>1, <1>2, <1>4
<1>6. Typed'
  <2>1. b \in State /\ t \in State
    BY DEF State
  <2>. QED  BY <1>1, <1>2, <1>4, <2>1 DEF IInv, Typed
<1>7. b \in Waiting /\ b \notin Working \cup Absent /\ pc[n] \notin Absent
      /\ (b = "fork" <=> c = Left(n))
  BY DEF Waiting, Working, Absent
<1>8. \A p \in Inner : p # n => /\ pc'[p] \in Waiting => pc[p] \in Waiting /\ p # c /\ pc'[p] = pc[p]
                                /\ ~Half(c, p)
  BY <1>1, <1>5, OneParent DEF Waiting, Inner
<1>9. \A m \in Node : HalfOf(m, n)' = HalfOf(m, n)
  BY <1>1, <1>5 DEF HalfOf
<1>10. \A p \in Inner, m \in Node : p # n /\ pc'[p] \in Waiting => HalfOf(m, p)' = HalfOf(m, p)
  BY <1>1, <1>5, <1>8 DEF HalfOf, Inner
<1>11. ASSUME NEW m \in Node, NEW x \in Int, Has(m, x)'
       PROVE  /\ m # n
              /\ pc[n] = "start" /\ m \in {Left(n), Right(n)} => Within(x, HalfOf(m, n))
              /\ pc[n] = "fork" \/ m \notin {Left(n), Right(n)} => Has(m, x)
  <2>1. m # n
    BY <1>5, <1>7, <1>11 DEF Has
  <2>2. CASE m = c
    <3>1. Within(x, HalfOf(c, n))
      <4>1. CASE t = "start"
        BY <1>1, <1>5, <1>11, <2>2, <4>1 DEF Has, Working, Absent
      <4>2. CASE t = "idle"
        BY <1>1, <1>5, <1>8, <1>9, <1>11, <2>2, <4>2 DEF Has, Working
      <4>. QED  BY <4>1, <4>2
    <3>2. pc[n] = "fork" => Has(c, x)
      BY <3>1 DEF Has, Waiting, Absent
    <3>. QED  BY <1>1, <2>1, <2>2, <3>1, <3>2
  <2>3. CASE m \in {Left(n), Right(n)} /\ m # c
    <3>1. pc'[m] = pc[m] /\ piece'[m] = piece[m] /\ Half(m, n)
      BY <1>1, <1>5, <2>1, <2>3
    <3>2. ASSUME pc[m] \in Absent PROVE Within(x, HalfOf(m, n))
      <4>1. PICK p \in Inner : pc'[p] \in Waiting /\ Half(m, p) /\ Within(x, HalfOf(m, p)')
        BY <1>11, <3>1, <3>2 DEF Has, Working, Absent
      <4>2. p = n
        BY <3>1, <4>1, OneParent
      <4>. QED  BY <1>9, <4>1, <4>2
    <3>3. CASE pc[n] = "start"
      <4>1. pc[m] = "idle"
        BY <2>3, <3>3 DEF IInv, Forks, Waiting
      <4>. QED  BY <2>1, <2>3, <3>2, <3>3, <4>1 DEF Absent
    <3>4. CASE pc[n] = "fork"
      <4>1. CASE pc[m] \in Absent
        BY <2>1, <3>1, <3>2, <3>4, <4>1 DEF Has, Waiting
      <4>2. CASE pc[m] \notin Absent
        BY <1>11, <2>1, <3>1, <3>4, <4>2 DEF Has
      <4>. QED  BY <4>1, <4>2
    <3>. QED  BY <3>3, <3>4
  <2>4. CASE m \notin {Left(n), Right(n)}
    <3>1. pc'[m] = pc[m] /\ piece'[m] = piece[m] /\ ~Half(m, n)
      BY <1>1, <1>5, <2>1, <2>4 DEF Half
    <3>. QED  BY <1>8, <1>10, <1>11, <2>1, <2>4, <3>1 DEF Has
  <2>. QED  BY <2>2, <2>3, <2>4
<1>12. Disjoint'
  <2>. SUFFICES ASSUME NEW x \in Node, NEW y \in Node, x # y, NEW z \in Int,
                       Has(x, z)', Has(y, z)'
                PROVE  FALSE
    BY DEF Disjoint
  <2>1. CASE pc[n] = "fork"
    BY <1>11, <2>1 DEF IInv, Disjoint
  <2>2. CASE pc[n] = "start"
    <3>1. \A h \in {Left(n), Right(n)} : Within(z, HalfOf(h, n)) => Has(n, z)
      BY <2>2, Halved DEF IInv, Has, Working
    <3>2. \A m \in Node : m # n => ~(Has(n, z) /\ Has(m, z))
      BY <1>1 DEF IInv, Disjoint
    <3>3. ~(Within(z, HalfOf(Left(n), n)) /\ Within(z, HalfOf(Right(n), n)))
      BY Halved DEF IInv
    <3>4. CASE x \in {Left(n), Right(n)} /\ y \in {Left(n), Right(n)}
      BY <1>11, <2>2, <3>3, <3>4
    <3>5. CASE x \in {Left(n), Right(n)} /\ y \notin {Left(n), Right(n)}
      BY <1>11, <2>2, <3>1, <3>2, <3>5
    <3>6. CASE x \notin {Left(n), Right(n)} /\ y \in {Left(n), Right(n)}
      BY <1>11, <2>2, <3>1, <3>2, <3>6
    <3>7. CASE x \notin {Left(n), Right(n)} /\ y \notin {Left(n), Right(n)}
      BY <1>11, <3>7 DEF IInv, Disjoint
    <3>. QED  BY <3>4, <3>5, <3>6, <3>7
  <2>. QED  BY <2>1, <2>2
<1>13. Levels'
  <2>. SUFFICES ASSUME NEW m \in Node
                PROVE  /\ pc'[m] \notin {"idle", "initialize", "filter"} => piece'[m].level = Len(m)
                       /\ pc'[m] \in Waiting \cup {"merge"} => m \in Inner
                       /\ pc'[m] \in {"initialize", "filter", "output"} => m = Root
    BY DEF Levels
  <2>1. CASE m = n
    BY <1>1, <1>2, <1>5, <1>7, <2>1
  <2>2. CASE m = c
    BY <1>1, <1>2, <1>5, <2>2 DEF Waiting
  <2>3. CASE m \notin {n, c}
    BY <1>5, <2>3 DEF IInv, Levels
  <2>. QED  BY <2>1, <2>2, <2>3
<1>16. NonEmpty'
  <2>1. IsLarge(piece[n]) /\ HalfOf(c, n).start <= HalfOf(c, n).end
    BY <1>1, Halved DEF IInv, NonEmpty, Waiting
  <2>2. c # Root
    BY RootIsNoHalf
  <2>. SUFFICES ASSUME NEW m \in Node
                PROVE  /\ m # Root /\ pc'[m] # "idle" => piece'[m].start <= piece'[m].end
                       /\ pc'[m] \in Waiting => IsLarge(piece'[m])
                       /\ pc'[m] = "nothing" => m = Root
    BY DEF NonEmpty, IsLarge
  <2>3. CASE m = n
    BY <1>1, <1>5, <1>7, <2>1, <2>3 DEF IInv, NonEmpty, Waiting, Absent
  <2>4. CASE m = c
    BY <1>5, <2>1, <2>4 DEF Waiting
  <2>5. CASE m \notin {n, c}
    BY <1>5, <2>5 DEF IInv, NonEmpty
  <2>. QED  BY <2>3, <2>4, <2>5
<1>14. MainFirst'
  <2>. SUFFICES ASSUME pc'[Root] \in {"initialize", "filter"} PROVE FALSE
    BY DEF MainFirst
  <2>1. Root # c /\ Root # n
    BY <1>1, <1>5, RootIsNoHalf
  <2>2. pc[Root] = pc'[Root] /\ pc[n] # "idle"
    BY <1>5, <2>1, RootIsNoHalf
  <2>. QED  BY <1>1, <2>1, <2>2 DEF IInv, MainFirst
<1>15. Forks'
  <2>. SUFFICES ASSUME NEW p \in Inner
       PROVE /\ pc'[p] \notin Waiting \cup {"merge", "copy", "output", "exited"} =>
                  pc'[Left(p)] = "idle" /\ pc'[Right(p)] = "idle"
             /\ pc'[p] = "fork" => pc'[Right(p)] = "idle"
             /\ pc'[p] \in {"merge", "copy", "output", "exited"} =>
                  pc'[Left(p)] \in Absent /\ pc'[Right(p)] \in Absent
             /\ pc'[p] \in Waiting => \A d \in {Left(p), Right(p)} :
                  /\ pc'[d] # "idle" => piece'[d] = HalfOf(d, p)'
                  /\ pc'[d] \notin Absent => d \in forked'[p]
    BY DEF Forks
  <2>1. p \in Node /\ Left(p) \in Node /\ Right(p) \in Node /\ Left(p) # p /\ Right(p) # p
    BY Children
  <2>2. CASE p = n
    <3>1. \A d \in {Left(n), Right(n)} : d # c => pc'[d] = pc[d] /\ piece'[d] = piece[d]
      BY <1>1, <1>5
    <3>2. c = Left(n) => pc'[Right(n)] = "idle"
      <4>1. c = Left(n) => pc[Right(n)] = "idle"
        BY <1>1 DEF IInv, Forks, Waiting
      <4>. QED  BY <1>1, <3>1, <4>1
    <3>3. pc'[c] # "idle" => piece'[c] = HalfOf(c, n) /\ c \in forked'[n]
      BY <1>5
    <3>4. ASSUME NEW d \in {Left(n), Right(n)}, d # c
          PROVE  /\ pc'[d] # "idle" => piece'[d] = HalfOf(d, n)
                 /\ pc'[d] \notin Absent => d \in forked'[n]
      <4>1. CASE c = Left(n)
        BY <1>1, <3>2, <3>4, <4>1 DEF Absent
      <4>2. CASE c = Right(n)
        <5>1. pc[n] = "fork" /\ d = Left(n)
          BY <1>1, <3>4, <4>2
        <5>2. /\ pc[d] # "idle" => piece[d] = HalfOf(d, n)
              /\ pc[d] \notin Absent => d \in forked[n]
          BY <5>1 DEF IInv, Forks, Waiting
        <5>. QED  BY <1>1, <1>5, <3>1, <3>4, <5>2
      <4>3. c = Left(n) \/ c = Right(n)
        BY <1>1
      <4>. QED  BY <4>1, <4>2, <4>3
    <3>5. pc'[n] \in Waiting /\ (pc'[n] = "fork" => c = Left(n))
      BY <1>5, <1>7
    <3>6. \A d \in {Left(n), Right(n)} :
            /\ pc'[d] # "idle" => piece'[d] = HalfOf(d, n)'
            /\ pc'[d] \notin Absent => d \in forked'[n]
      <4>1. \A d \in {Left(n), Right(n)} : HalfOf(d, n)' = HalfOf(d, n)
        BY <1>1, <1>9
      <4>2. pc'[c] \notin Absent => pc'[c] # "idle"
        BY DEF Absent
      <4>. QED  BY <3>3, <3>4, <4>1, <4>2
    <3>7. /\ pc'[p] \in {"fork", "wait"}
          /\ pc'[p] = "fork" => pc'[Right(p)] = "idle"
      BY <2>2, <3>2, <3>5 DEF Waiting
    <3>8. \A d \in {Left(p), Right(p)} :
            /\ pc'[d] # "idle" => piece'[d] = HalfOf(d, p)'
            /\ pc'[d] \notin Absent => d \in forked'[p]
      BY <2>2, <3>6 DEF HalfOf
    <3>. QED  BY <3>7, <3>8 DEF Waiting
  <2>3. CASE p = c
    <3>1. pc[Left(c)] = "idle" /\ pc[Right(c)] = "idle"
      BY <2>3 DEF IInv, Forks, Waiting
    <3>2. Left(c) # n /\ Right(c) # n
      <4>1. Len(Left(p)) = Len(p) + 1 /\ Len(Right(p)) = Len(p) + 1
        BY Children
      <4>2. Len(n) \in Nat /\ Len(p) = Len(n) + 1
        BY <1>1, <2>3, NodeSeq
      <4>. QED  BY <2>3, <4>1, <4>2
    <3>. QED  BY <1>5, <2>1, <2>3, <3>1, <3>2 DEF Waiting
  <2>4. CASE p \notin {n, c}
    <3>1. Left(p) # c /\ Right(p) # c /\ pc'[p] = pc[p]
      BY <1>5, <1>8, <2>1, <2>4 DEF Half
    <3>2. piece'[Left(p)] = piece[Left(p)] /\ piece'[Right(p)] = piece[Right(p)]
          /\ HalfOf(Left(p), p)' = HalfOf(Left(p), p) /\ HalfOf(Right(p), p)' = HalfOf(Right(p), p)
      BY <1>5, <2>1, <2>4, <3>1 DEF HalfOf
    <3>3. CASE n \notin {Left(p), Right(p)}
      BY <1>5, <2>1, <3>1, <3>2, <3>3 DEF IInv, Forks
    <3>4. CASE n \in {Left(p), Right(p)}
      <4>1. pc[p] \in Waiting /\ piece[n] = HalfOf(n, p) /\ n \in forked[p]
            /\ (pc[p] = "fork" => n = Left(p))
        BY <1>1, <1>7, <3>4, ParentWaits DEF Half
      <4>2. \A d \in {Left(p), Right(p)} : d # n => pc'[d] = pc[d]
        BY <1>5, <2>1, <3>1
      <4>. QED  BY <1>1, <1>5, <2>1, <3>1, <3>2, <4>1, <4>2 DEF IInv, Forks, Waiting
    <3>. QED  BY <3>3, <3>4
  <2>. QED  BY <2>2, <2>3, <2>4
<1>. QED  BY <1>6, <1>12, <1>13, <1>14, <1>15, <1>16 DEF IInv

\* Both children that there are have ended: the process merges their halves.
LEMMA Merges ==
  ASSUME IInv, NEW n \in Node, Wait(n)
  PROVE  IInv'
<1>1. /\ pc[n] = "wait" /\ n \in Inner /\ pc' = [pc EXCEPT ![n] = "merge"]
      /\ forked' = [forked EXCEPT ![n] = {}] /\ UNCHANGED <<input, piece>>
      /\ \A c \in forked[n] : pc[c] = "exited"
  BY DEF Wait, ChildrenEnded, IInv, Levels, Waiting
<1>2. /\ Left(n) \in Node /\ Right(n) \in Node /\ Left(n) # n /\ Right(n) # n
      /\ Half(Left(n), n) /\ Half(Right(n), n)
  BY <1>1, Children DEF Half
<1>3. pc[Left(n)] \in Absent /\ pc[Right(n)] \in Absent
  BY <1>1 DEF IInv, Forks, Waiting, Absent
<1>4. Typed' /\ pc'[n] = "merge" /\ \A m \in Node : m # n => pc'[m] = pc[m]
  BY <1>1 DEF IInv, Typed, State
<1>5. ASSUME NEW m \in Node, m # n, NEW x \in Int, Has(m, x)'
      PROVE  Has(m, x) /\ ~Half(m, n)
  <2>1. \A p \in Inner : pc'[p] \in Waiting => p # n /\ pc[p] \in Waiting
    BY <1>4 DEF Inner, Waiting
  <2>2. CASE Half(m, n)
    <3>1. pc'[m] \in Absent
      BY <1>3, <1>4, <1>5, <2>2 DEF Half
    <3>2. PICK p \in Inner : pc'[p] \in Waiting /\ Half(m, p)
      BY <1>5, <3>1 DEF Has, Working, Absent
    <3>. QED  BY <1>1, <2>1, <2>2, <3>2, OneParent
  <2>. QED  BY <1>1, <1>4, <1>5, <2>1, <2>2 DEF Has, HalfOf
<1>6. ASSUME NEW x \in Int, Has(n, x)' PROVE Has(Left(n), x) \/ Has(Right(n), x)
  <2>1. Within(x, piece[n])
    BY <1>1, <1>4, <1>6 DEF Has, Absent
  <2>2. Within(x, HalfOf(Left(n), n)) \/ Within(x, HalfOf(Right(n), n))
    BY <1>1, <2>1, Halved DEF IInv
  <2>. QED  BY <1>1, <1>2, <1>3, <2>2 DEF Has, Waiting
<1>7. Disjoint'
  <2>. SUFFICES ASSUME NEW x \in Node, NEW y \in Node, x # y, NEW z \in Int,
                       Has(x, z)', Has(y, z)'
                PROVE  FALSE
    BY DEF Disjoint
  <2>1. ASSUME NEW m \in Node, m # n, Has(m, z)' PROVE ~Has(n, z)'
    <3>1. Has(m, z) /\ m # Left(n) /\ m # Right(n)
      BY <1>2, <1>5, <2>1
    <3>. QED  BY <1>2, <1>6, <3>1 DEF IInv, Disjoint
  <2>2. CASE x = n \/ y = n
    BY <2>1, <2>2
  <2>. QED  BY <1>5, <2>2 DEF IInv, Disjoint
<1>8. Levels' /\ NonEmpty'
  BY <1>1, <1>4 DEF IInv, Levels, NonEmpty, Waiting
<1>9. MainFirst'
  <2>. SUFFICES ASSUME pc'[Root] \in {"initialize", "filter"} PROVE FALSE
    BY DEF MainFirst
  <2>1. n # Root /\ pc[Root] = pc'[Root]
    BY <1>4, RootIsNoHalf
  <2>. QED  BY <1>1, <2>1 DEF IInv, MainFirst
<1>10. Forks'
  <2>. SUFFICES ASSUME NEW p \in Inner
       PROVE /\ pc'[p] \notin Waiting \cup {"merge", "copy", "output", "exited"} =>
                  pc'[Left(p)] = "idle" /\ pc'[Right(p)] = "idle"
             /\ pc'[p] = "fork" => pc'[Right(p)] = "idle"
             /\ pc'[p] \in {"merge", "copy", "output", "exited"} =>
                  pc'[Left(p)] \in Absent /\ pc'[Right(p)] \in Absent
             /\ pc'[p] \in Waiting => \A c \in {Left(p), Right(p)} :
                  /\ pc'[c] # "idle" => piece[c] = HalfOf(c, p)
                  /\ pc'[c] \notin Absent => c \in forked'[p]
    BY <1>1 DEF Forks, HalfOf
  <2>1. p \in Node /\ Left(p) \in Node /\ Right(p) \in Node /\ Left(p) # p /\ Right(p) # p
    BY Children
  <2>2. CASE p = n
    BY <1>2, <1>3, <1>4, <2>2 DEF Waiting
  <2>3. CASE p # n /\ ~Half(n, p)
    <3>1. forked'[p] = forked[p]
      BY <1>1, <2>1, <2>3 DEF IInv, Typed
    <3>. QED  BY <1>4, <2>1, <2>3, <3>1 DEF IInv, Forks, Half
  <2>4. CASE p # n /\ Half(n, p)
    <3>1. /\ pc'[p] = pc[p] /\ pc[p] \in Waiting /\ piece[n] = HalfOf(n, p) /\ n \in forked[p]
          /\ pc[p] = "fork" => n = Left(p)
      BY <1>1, <1>4, <2>1, <2>4, ParentWaits DEF Absent
    <3>2. \A c \in {Left(p), Right(p)} : c # n => pc'[c] = pc[c]
      BY <1>4, <2>1
    <3>3. forked'[p] = forked[p]
      BY <1>1, <2>1, <2>4 DEF IInv, Typed
    <3>. QED  BY <2>1, <3>1, <3>2, <3>3, Children DEF IInv, Forks, Waiting
  <2>. QED  BY <2>2, <2>3, <2>4
<1>. QED  BY <1>4, <1>7, <1>8, <1>9, <1>10 DEF IInv

\* The number of matching movies is a number.
LEMMA CountIsNat ==
  ASSUME input \in Input
  PROVE  count \in Nat
<1>1. input.lines \in Seq(Line)
  BY SortAssumption DEF Files
<1>2. num_of(input) \in Int
  BY <1>1 DEF num_of
<1>3. IsFiniteSet(1..num_of(input))
  BY <1>2, FS_Interval
<1>4. IsFiniteSet(Hit(input, req))
  BY <1>3, FS_Subset DEF Hit
<1>. QED  BY <1>4, FS_CardinalityType DEF count

\* main reads the files, and then has all slots to itself.
LEMMA MainGoesOn ==
  ASSUME IInv, Initialize \/ Filter
  PROVE  IInv'
<1>0. Root \in Node /\ (\A n \in Inner : ~Half(Root, n)) /\ Len(Root) = 0
  BY RootIsNoHalf
<1>1. pc[Root] \in {"initialize", "filter"}
  BY DEF Initialize, Filter
<1>2. \A n \in Node : n # Root => pc[n] = "idle"
  BY <1>1 DEF IInv, MainFirst
<1>3. \/ UNCHANGED <<input, pc, piece, forked>>
      \/ \E s \in {"filter", "start"}, w \in Piece :
           /\ pc' = [pc EXCEPT ![Root] = s] /\ piece' = [piece EXCEPT ![Root] = w]
           /\ UNCHANGED <<input, forked>>
           /\ s = "start" => w.level = 0
  <2>1. CASE Initialize
    <3>1. piece[Root] \in Piece /\ [piece EXCEPT ![Root] = piece[Root]] = piece
      BY <1>0 DEF IInv, Typed
    <3>. QED  BY <2>1, <3>1 DEF Initialize
  <2>2. CASE Filter
    <3>1. [start |-> 0, end |-> count - 1, level |-> 0] \in Piece
      BY CountIsNat DEF Piece, IInv, Typed
    <3>. QED  BY <2>2, <3>1 DEF Filter
  <2>. QED  BY <2>1, <2>2
<1>4. CASE UNCHANGED <<input, pc, piece, forked>>
  BY <1>4, NothingChanges
<1>5. ASSUME NEW s \in {"filter", "start"}, NEW w \in Piece,
             pc' = [pc EXCEPT ![Root] = s], piece' = [piece EXCEPT ![Root] = w],
             UNCHANGED <<input, forked>>, s = "start" => w.level = 0
      PROVE  IInv'
  <2>1. /\ Typed' /\ pc'[Root] = s /\ piece'[Root] = w
        /\ \A n \in Node : n # Root => pc'[n] = "idle"
    BY <1>0, <1>2, <1>5 DEF IInv, Typed, State
  <2>2. \A n \in Inner : pc'[n] \notin Waiting
    BY <2>1 DEF Inner, Waiting
  <2>3. \A n \in Node, x \in Int : Has(n, x)' => n = Root
    BY <2>1, <2>2 DEF Has, Working
  <2>4. Disjoint'
    BY <2>3 DEF Disjoint
  <2>5. Levels'
    BY <1>0, <1>5, <2>1 DEF Levels, Waiting
  <2>8. NonEmpty'
    BY <2>1 DEF NonEmpty, Waiting
  <2>6. MainFirst'
    BY <2>1 DEF MainFirst
  <2>7. Forks'
    <3>1. \A p \in Inner : /\ pc'[p] \in {"idle", "filter", "start"}
                           /\ pc'[Left(p)] = "idle" /\ pc'[Right(p)] = "idle"
      BY <1>0, <2>1, Children DEF Half
    <3>. QED  BY <3>1 DEF Forks, Waiting
  <2>. QED  BY <2>1, <2>4, <2>5, <2>6, <2>7, <2>8 DEF IInv
<1>. QED  BY <1>3, <1>4, <1>5

LEMMA InvInit == Init => IInv
<1>. SUFFICES ASSUME Init PROVE IInv
  OBVIOUS
<1>0. Root \in Node /\ \A n \in Inner : ~Half(Root, n)
  BY RootIsNoHalf
<1>1. Typed
  BY DEF Init, Typed, State, Piece, NoPiece
<1>2. \A n \in Node : pc[n] = IF n = Root THEN "initialize" ELSE "idle"
  BY DEF Init
<1>3. \A n \in Node, x \in Int : ~Has(n, x)
  BY <1>2 DEF Has, Working, Waiting, Inner
<1>4. Disjoint /\ Levels /\ NonEmpty /\ MainFirst
  BY <1>2, <1>3 DEF Disjoint, Levels, NonEmpty, MainFirst, Waiting
<1>5. Forks
  <2>1. \A p \in Inner : /\ pc[p] \in {"idle", "initialize"}
                         /\ pc[Left(p)] = "idle" /\ pc[Right(p)] = "idle"
    BY <1>0, <1>2, Children DEF Half
  <2>. QED  BY <2>1 DEF Forks, Waiting
<1>. QED  BY <1>1, <1>4, <1>5 DEF IInv

\* One step of one process.
LEMMA InvMerge ==
  ASSUME IInv, NEW n \in Node, pmerge(n)
  PROVE  IInv'
<1>1. pc[n] \in State /\ piece[n] \in Piece /\ pc \in [Node -> State]
  BY DEF IInv, Typed
<1>2. CASE ForkLeft(n)
  <2>1. pc[n] = "start" /\ IsLarge(piece[n]) /\ Fork(n, Left(n), LeftHalf(piece[n]), "fork") /\ UNCHANGED input
    BY <1>2 DEF ForkLeft
  <2>2. n \in Inner
    BY <1>1, <2>1, NodeSeq, SortAssumption DEF IInv, Levels, IsLarge, Inner, Piece
  <2>3. Left(n) \in Node /\ Half(Left(n), n) /\ pc[Left(n)] = "idle" /\ HalfOf(Left(n), n) = LeftHalf(piece[n])
    BY <2>1, <2>2, Children DEF Half, HalfOf, IInv, Forks, Waiting
  <2>. QED  BY <2>1, <2>2, <2>3, ForksOne
<1>3. CASE ForkRight(n)
  <2>1. pc[n] = "fork" /\ Fork(n, Right(n), RightHalf(piece[n]), "wait") /\ UNCHANGED input
    BY <1>3 DEF ForkRight
  <2>2. n \in Inner
    BY <2>1 DEF IInv, Levels, Waiting
  <2>3. /\ Right(n) \in Node /\ Half(Right(n), n) /\ pc[Right(n)] = "idle" /\ Right(n) # Left(n)
        /\ HalfOf(Right(n), n) = RightHalf(piece[n])
    BY <2>1, <2>2, Children DEF Half, HalfOf, IInv, Forks, Waiting
  <2>. QED  BY <2>1, <2>2, <2>3, ForksOne
<1>4. CASE Wait(n)
  BY <1>4, Merges
<1>5. CASE UNCHANGED <<input, pc, piece, forked>>
  BY <1>5, NothingChanges
<1>6. CASE Merge(n)
  BY <1>5, <1>6, GoesOn DEF Merge, Working
<1>7. CASE Small(n)
  <2>1. n # Root => piece[n].start <= piece[n].end
    BY <1>7 DEF Small, IInv, NonEmpty
  <2>. QED  BY <1>7, <2>1, GoesOn DEF Small, Working
<1>8. CASE Fetch(n)
  BY <1>8, GoesOn DEF Fetch, Working
<1>9. CASE Sort(n)
  BY <1>9, GoesOn DEF Sort, Working
<1>10. CASE SortNothing(n)
  BY <1>10, GoesOn DEF SortNothing, Working, IInv, NonEmpty
<1>11. CASE Copy(n)
  <2>1. pc' = [pc EXCEPT ![n] = "copy"] \/ pc' = [pc EXCEPT ![n] = "exited"]
        \/ (n = Root /\ pc' = [pc EXCEPT ![n] = "output"])
    BY <1>11 DEF Copy
  <2>. QED  BY <1>11, <2>1, GoesOn DEF Copy, Working
<1>. QED  BY <1>2, <1>3, <1>4, <1>6, <1>7, <1>8, <1>9, <1>10, <1>11 DEF pmerge

LEMMA InvNext == IInv /\ [Next]_vars => IInv'
<1>. SUFFICES ASSUME IInv, [Next]_vars PROVE IInv'
  OBVIOUS
<1>1. CASE UNCHANGED vars
  BY <1>1, NothingChanges DEF vars
<1>2. CASE Output
  BY <1>2, GoesOn, RootIsNoHalf DEF Output
<1>. QED  BY <1>1, <1>2, InvMerge, MainGoesOn DEF Next

LEMMA InvDisjoint == IInv => SlicesDisjoint
<1>. SUFFICES ASSUME IInv, NEW m \in Node, NEW n \in Node, m # n,
                     NEW x \in Slice(m), x \in Slice(n)
     PROVE FALSE
  BY DEF SlicesDisjoint
<1>1. ASSUME NEW p \in Node, x \in Slice(p) PROVE x \in Int /\ Has(p, x)
  BY <1>1 DEF Slice, Has, Working, Within, IInv, Typed, Piece
<1>. QED  BY <1>1 DEF IInv, Disjoint

\* In every behaviour of pserver, for any files, any number of levels, and
\* whatever forks fail and children die, no two processes work on the same slot
\* of the shared tables at the same time: pmerge needs no locks.
THEOREM SlicesStayDisjoint == Spec => []SlicesDisjoint
<1>. QED  BY InvInit, InvNext, InvDisjoint, PTL DEF Spec

-----------------------------------------------------------------------------
(* No movie is lost.  The invariant says where the movies are: in the      *)
(* slots, and while a process works on its piece also in its own array.    *)

Bounded == [start : 0..MAX_MOVIES, end : -1..(MAX_MOVIES - 1), level : 0..(MaxLevel + 1)]

\* Where the left half of a piece ends.
Middle(n) == LeftHalf(piece[n]).end

\* Slot k is one that process n has taken into its array.
Taken(n, k) ==
  \/ pc[n] = "fetch" /\ piece[n].start <= k /\ k < i[n]
  \/ pc[n] = "sort" /\ Within(k, piece[n])
  \/ pc[n] = "merge" /\ piece[n].start <= k /\ k < lstart[n]
  \/ pc[n] = "merge" /\ Middle(n) < k /\ k < rstart[n]

\* Slot k is one that process n will copy an entry to.
Copying(n, k) == pc[n] = "copy" /\ i[n] <= k /\ k <= piece[n].end

\* The movie in slot k is in the array of process n.
InArray(n, k) == \E j \in 1..Len(tmp[n]) : tmp[n][j].movie = shared[k].movie

\* Movie m is in slot k, or in what will be copied there.
Carries(k, m) ==
  \/ \E n \in Node : Copying(n, k) /\ tmp[n][k - piece[n].start + 1].movie = m
  \/ (\A n \in Node : ~Copying(n, k)) /\ shared[k].movie = m

\* A merge has taken some of the left half and some of the right, and is not at
\* the end.
Merging(n) ==
  /\ piece[n].start <= lstart[n] /\ lstart[n] <= Middle(n) + 1
  /\ Middle(n) < rstart[n] /\ rstart[n] <= piece[n].end + 1
  /\ Len(tmp[n]) = (lstart[n] - piece[n].start) + (rstart[n] - (Middle(n) + 1))
  /\ Len(tmp[n]) <= piece[n].end - piece[n].start

Early == {"idle", "initialize", "filter"}

\* What a process knows of its piece, its slots and its array.
PlacedAt(n) ==
  /\ pc[n] \notin Early => 0 <= piece[n].start /\ piece[n].end < count
  /\ pc[n] \in Early \cup Waiting \cup {"start", "nothing"} => tmp[n] = <<>>
  /\ pc[n] = "fetch" => /\ piece[n].start <= i[n] /\ i[n] <= piece[n].end
                        /\ Len(tmp[n]) = i[n] - piece[n].start
  /\ pc[n] = "sort" => /\ 1 <= i[n] /\ i[n] <= Len(tmp[n])
                       /\ Len(tmp[n]) = piece[n].end - piece[n].start + 1
  /\ pc[n] = "merge" => Merging(n)
  /\ pc[n] = "copy" => /\ piece[n].start <= i[n] /\ i[n] <= piece[n].end
                       /\ Len(tmp[n]) = piece[n].end - piece[n].start + 1

Placed == \A n \in Node : PlacedAt(n)

\* main has read the files, and its piece is all that matches.
HasRead ==
  /\ pc[Root] # "initialize" => Loads(input)
  /\ pc[Root] \notin Early => piece[Root].end = count - 1

\* What was taken is in the array, and nothing that matches is missing.
Kept ==
  /\ \A n \in Node, k \in Slot : Taken(n, k) => InArray(n, k)
  /\ pc[Root] \notin Early => \A m \in Hit(input, req) : \E k \in 0..(count - 1) : Carries(k, m)

-----------------------------------------------------------------------------
(* Steps that leave the slots alone.                                       *)

Standing == IInv /\ TypeOK /\ HasRead /\ Placed /\ Kept

\* The types of what a process knows.
LEMMA Knows ==
  ASSUME Standing, NEW n \in Node
  PROVE  /\ piece[n] \in Bounded /\ piece[n].start \in Int /\ piece[n].end \in Int
         /\ i[n] \in Int /\ lstart[n] \in Int /\ rstart[n] \in Int /\ Middle(n) \in Int
         /\ tmp[n] \in Seq(Entry) /\ shared \in [Slot -> Entry] /\ Slot \subseteq Int
<1>1. piece[n] \in Bounded /\ MAX_MOVIES \in Nat
  BY LimitAssumption DEF Standing, TypeOK, Bounded
<1>2. piece[n].start \in Int /\ piece[n].end \in Int
  BY <1>1 DEF Bounded
<1>3. Middle(n) \in Int
  BY <1>2 DEF Middle, LeftHalf
<1>4. i[n] \in Int /\ lstart[n] \in Int /\ rstart[n] \in Int
  BY <1>1 DEF Standing, TypeOK
<1>. QED  BY <1>1, <1>2, <1>3, <1>4 DEF Standing, TypeOK, Slot

\* Once main has filtered, the movies that match fit the table.
LEMMA CountFits ==
  ASSUME IInv, HasRead, NEW n \in Node, pc[n] \notin Early \/ pc[n] = "filter"
  PROVE  /\ count \in Nat /\ count <= MAX_MOVIES /\ Loads(input)
         /\ \A k \in 0..(count - 1) : k \in Slot
<1>1. pc[Root] # "initialize"
  BY DEF IInv, MainFirst, Levels, Early
<1>2. Loads(input) /\ input \in Files
  BY <1>1, SortAssumption DEF HasRead, IInv, Typed
<1>3. count \in 0..MAX_MOVIES
  BY <1>2, HitFinite DEF count
<1>4. MAX_MOVIES \in Nat
  BY LimitAssumption
<1>. QED  BY <1>2, <1>3, <1>4 DEF Slot

\* Nothing happens to process x.
Same(x) ==
  /\ pc'[x] = pc[x] /\ piece'[x] = piece[x] /\ i'[x] = i[x] /\ tmp'[x] = tmp[x]
  /\ lstart'[x] = lstart[x] /\ rstart'[x] = rstart[x]

\* Process x is created.
Born(x) ==
  /\ x # Root /\ pc[x] = "idle" /\ pc'[x] = "start" /\ tmp'[x] = tmp[x]
  /\ 0 <= piece'[x].start /\ piece'[x].end < count

\* One process works on its own array, and what it has taken is there.
LEMMA Quietly ==
  ASSUME Standing, NEW n \in Node, pc[n] \notin Early \cup {"copy"}, pc'[n] \notin Early,
         input' = input, shared' = shared, piece'[n] = piece[n],
         \A x \in Node : x # n => Same(x) \/ Born(x),
         PlacedAt(n)', pc'[n] = "copy" => i'[n] = piece[n].start,
         \A k \in Slot : Taken(n, k)' \/ Copying(n, k)' => InArray(n, k)'
  PROVE  HasRead' /\ Placed' /\ Kept'
<1>0. Root \in Node
  BY RootIsNoHalf
<1>1. count' = count /\ req' = req
  BY DEF count, req
<1>2. HasRead'
  <2>1. CASE n = Root
    BY <1>1, <2>1 DEF Standing, HasRead, Early
  <2>2. CASE n # Root
    BY <1>0, <1>1, <2>2 DEF Standing, HasRead, Same, Born
  <2>. QED  BY <2>1, <2>2
<1>3. ASSUME NEW x \in Node, x # n PROVE PlacedAt(x)'
  <2>1. PlacedAt(x)
    BY DEF Standing, Placed
  <2>2. CASE Same(x)
    BY <1>1, <2>1, <2>2 DEF PlacedAt, Merging, Middle, LeftHalf, Same
  <2>3. CASE Born(x)
    BY <1>1, <2>1, <2>3 DEF PlacedAt, Born, Early
  <2>. QED  BY <1>3, <2>2, <2>3
<1>4. ASSUME NEW x \in Node, NEW k \in Slot, Taken(x, k)' PROVE InArray(x, k)'
  <2>1. CASE x = n
    BY <1>4, <2>1
  <2>2. CASE x # n /\ Same(x)
    <3>1. Taken(x, k)
      BY <1>4, <2>2 DEF Taken, Same, Middle, LeftHalf, Within
    <3>2. InArray(x, k)
      BY <3>1 DEF Standing, Kept
    <3>. QED  BY <2>2, <3>2 DEF InArray, Same
  <2>3. CASE Born(x)
    BY <1>4, <2>3 DEF Taken, Born
  <2>. QED  BY <2>1, <2>2, <2>3
<1>5. ASSUME NEW x \in Node, x # n, NEW k PROVE Copying(x, k)' <=> Copying(x, k)
  BY <1>5 DEF Copying, Same, Born
<1>6. ASSUME pc'[Root] \notin Early, NEW m \in Hit(input, req)
      PROVE  \E k \in 0..(count - 1) : Carries(k, m)'
  <2>1. pc[Root] \notin Early
    BY <1>0, <1>6 DEF Same, Born
  <2>2. PICK k \in 0..(count - 1) : Carries(k, m)
    BY <2>1 DEF Standing, Kept
  <2>3. k \in Slot /\ k \in Int /\ count \in Nat
    BY <1>0, <2>1, CountFits DEF Standing
  <2>4. CASE \E x \in Node : Copying(x, k) /\ tmp[x][k - piece[x].start + 1].movie = m
    <3>1. PICK x \in Node : Copying(x, k) /\ tmp[x][k - piece[x].start + 1].movie = m
      BY <2>4
    <3>2. x # n /\ pc[x] = "copy"
      BY <3>1 DEF Copying
    <3>3. Copying(x, k)' /\ tmp'[x] = tmp[x] /\ piece'[x] = piece[x]
      BY <1>5, <3>1, <3>2 DEF Same, Born
    <3>. WITNESS k \in 0..(count - 1)
    <3>. QED  BY <3>1, <3>3 DEF Carries
  <2>5. CASE (\A x \in Node : ~Copying(x, k)) /\ shared[k].movie = m /\ ~Copying(n, k)'
    <3>1. \A x \in Node : ~Copying(x, k)'
      BY <1>5, <2>5
    <3>. WITNESS k \in 0..(count - 1)
    <3>. QED  BY <2>5, <3>1 DEF Carries
  <2>6. CASE shared[k].movie = m /\ Copying(n, k)'
    <3>1. PICK j \in 1..Len(tmp'[n]) : tmp'[n][j].movie = m
      BY <2>3, <2>6 DEF InArray
    <3>. SUFFICES ASSUME NEW s, s = piece[n].start, NEW e, e = piece[n].end
         PROVE \E g \in 0..(count - 1) : Carries(g, m)'
      OBVIOUS
    <3>2. s \in Int /\ e \in Int
      BY Knows
    <3>3. /\ pc'[n] = "copy" /\ i'[n] = s /\ 0 <= s /\ e < count /\ s <= e
          /\ Len(tmp'[n]) = e - s + 1
      BY <1>1, <2>6 DEF Copying, PlacedAt
    <3>4. PICK g \in Int : g = s + (j - 1)
      BY <3>2
    <3>5. s <= g /\ g <= e /\ g - s + 1 = j
      <4>1. j \in Int /\ 1 <= j /\ j <= e - s + 1
        BY <3>2, <3>3
      <4>2. s <= g
        BY <3>2, <3>4, <4>1
      <4>3. g <= e
        BY <3>2, <3>4, <4>1
      <4>4. g - s + 1 = j
        BY <3>2, <3>4, <4>1
      <4>. QED  BY <4>2, <4>3, <4>4
    <3>6. Copying(n, g)' /\ tmp'[n][g - piece'[n].start + 1].movie = m
      BY <3>1, <3>3, <3>5 DEF Copying
    <3>7. 0 <= g /\ g < count
      <4>1. \A a, b, c, d \in Int : 0 <= a /\ a <= b /\ b <= c /\ c < d => 0 <= b /\ b < d
        OBVIOUS
      <4>2. g \in Int /\ count \in Int
        BY <2>3, <3>4
      <4>. QED  BY <3>2, <3>3, <3>5, <4>1, <4>2
    <3>. g \in 0..(count - 1)
      BY <2>3, <3>4, <3>7
    <3>. WITNESS g \in 0..(count - 1)
    <3>. QED  BY <3>6 DEF Carries
  <2>. QED  BY <2>2, <2>4, <2>5, <2>6 DEF Carries
<1>7. Placed'
  BY <1>3 DEF Placed
<1>8. Kept'
  BY <1>1, <1>4, <1>6 DEF Kept
<1>. QED  BY <1>2, <1>7, <1>8

-----------------------------------------------------------------------------
(* The steps of a process, one by one.                                     *)

\* What a step must show; the rest of the invariant follows.
Does(n) == HasRead' /\ Placed' /\ Kept' /\ TypeOK'

\* The types after a step that changes no more than what n knows and the state and
\* piece of a child.
LEMMA Types ==
  ASSUME Standing, NEW n \in Node, UNCHANGED <<input, file>>, shared' \in [Slot -> Entry],
         piece' \in [Node -> Bounded], pc' \in [Node -> State],
         i' \in [Node -> 0..MAX_MOVIES], lstart' \in [Node -> 0..MAX_MOVIES],
         rstart' \in [Node -> 0..MAX_MOVIES], tmp' \in [Node -> Seq(Entry)],
         forked' \in [Node -> SUBSET Node], crashed' \in BOOLEAN, starved' \in BOOLEAN
  PROVE  TypeOK'
BY DEF Standing, TypeOK, Bounded, State

\* The types that a step may build upon.
LEMMA TypesNow ==
  ASSUME Standing
  PROVE  /\ shared \in [Slot -> Entry] /\ piece \in [Node -> Bounded] /\ pc \in [Node -> State]
         /\ i \in [Node -> 0..MAX_MOVIES] /\ lstart \in [Node -> 0..MAX_MOVIES]
         /\ rstart \in [Node -> 0..MAX_MOVIES] /\ tmp \in [Node -> Seq(Entry)]
         /\ forked \in [Node -> SUBSET Node] /\ crashed \in BOOLEAN /\ starved \in BOOLEAN
         /\ MAX_MOVIES \in Nat \ {0} /\ MaxLevel \in Nat
BY LimitAssumption, SortAssumption DEF Standing, TypeOK, Bounded, State

\* A half of a large piece is a piece within it.
LEMMA HalfFits ==
  ASSUME Standing, NEW n \in Inner, IsLarge(piece[n]), piece[n].level = Len(n), pc[n] \notin Early
  PROVE  /\ LeftHalf(piece[n]) \in Bounded /\ RightHalf(piece[n]) \in Bounded
         /\ 0 <= LeftHalf(piece[n]).start /\ LeftHalf(piece[n]).end < count
         /\ 0 <= RightHalf(piece[n]).start /\ RightHalf(piece[n]).end < count
         /\ piece[n].start <= Middle(n) /\ Middle(n) < piece[n].end
<1>. SUFFICES ASSUME NEW s, s = piece[n].start, NEW e, e = piece[n].end,
                     NEW v, v = piece[n].level, NEW m, m = (e + s) \div 2
     PROVE  /\ LeftHalf(piece[n]) \in Bounded /\ RightHalf(piece[n]) \in Bounded
            /\ 0 <= LeftHalf(piece[n]).start /\ LeftHalf(piece[n]).end < count
            /\ 0 <= RightHalf(piece[n]).start /\ RightHalf(piece[n]).end < count
            /\ piece[n].start <= Middle(n) /\ Middle(n) < piece[n].end
  OBVIOUS
<1>1. n \in Node /\ Len(n) \in Nat /\ Len(n) <= MaxLevel
  BY NodeSeq DEF Inner
<1>2. /\ s \in 0..MAX_MOVIES /\ e \in -1..(MAX_MOVIES - 1) /\ v = Len(n)
      /\ MAX_MOVIES \in Nat /\ MaxLevel \in Nat
  BY <1>1, TypesNow DEF Bounded
<1>3. s \in Int /\ e \in Int /\ s < e
  <2>1. e - s > SplitSize /\ SplitSize \in Nat
    BY SortAssumption DEF IsLarge
  <2>2. s \in Int /\ e \in Int
    BY <1>2
  <2>3. \A x, y \in Int : \A z \in Nat : y - x > z => x < y
    OBVIOUS
  <2>. QED  BY <2>1, <2>2, <2>3
<1>4. m \in Int /\ s <= m /\ m < e
  <2>1. \A x, y \in Int : x < y => /\ (y + x) \div 2 \in Int
                                  /\ x <= (y + x) \div 2 /\ (y + x) \div 2 < y
    OBVIOUS
  <2>. QED  BY <1>3, <2>1
<1>5. 0 <= s /\ e < count /\ count \in Nat
  BY <1>1, CountFits DEF Standing, Placed, PlacedAt
<1>6. m \in -1..(MAX_MOVIES - 1) /\ m + 1 \in 0..MAX_MOVIES /\ v + 1 \in 0..(MaxLevel + 1)
  <2>1. s <= MAX_MOVIES /\ 0 <= s /\ e <= MAX_MOVIES - 1 /\ MAX_MOVIES \in Int
    BY <1>2
  <2>2. m \in -1..(MAX_MOVIES - 1) /\ m + 1 \in 0..MAX_MOVIES
    <3>1. 0 <= m /\ m <= MAX_MOVIES - 1
      BY <1>3, <1>4, <2>1
    <3>. QED  BY <1>4, <2>1, <3>1
  <2>3. v \in Int /\ 0 <= v /\ v <= MaxLevel /\ MaxLevel \in Int
    BY <1>1, <1>2
  <2>. QED  BY <2>2, <2>3
<1>7. /\ LeftHalf(piece[n]) = [start |-> s, end |-> m, level |-> v + 1]
      /\ RightHalf(piece[n]) = [start |-> m + 1, end |-> e, level |-> v + 1]
  BY DEF LeftHalf, RightHalf
<1>8. LeftHalf(piece[n]) \in Bounded /\ RightHalf(piece[n]) \in Bounded
  BY <1>2, <1>6, <1>7 DEF Bounded
<1>9. m < count /\ 0 <= m + 1
  BY <1>2, <1>4, <1>5
<1>. QED  BY <1>4, <1>5, <1>7, <1>8, <1>9 DEF Middle

LEMMA ForkDoes ==
  ASSUME Standing, NEW n \in Inner, NEW c \in Node, Half(c, n), pc[c] = "idle",
         pc[n] \in {"start", "fork"}, NEW h, h \in {LeftHalf(piece[n]), RightHalf(piece[n])},
         NEW next \in Waiting, IsLarge(piece[n]), Fork(n, c, h, next),
         UNCHANGED <<input, shared, i, lstart, rstart, tmp, file, crashed>>
  PROVE  Does(n)
<1>1. n \in Node /\ c # n /\ c # Root /\ next \in State /\ "start" \in State
  BY Children, RootIsNoHalf DEF Half, Waiting, State
<1>2. piece[n].level = Len(n) /\ pc[n] \notin Early \cup {"copy"}
  BY <1>1 DEF Standing, IInv, Levels, Early
<1>3. h \in Bounded /\ 0 <= h.start /\ h.end < count
  BY <1>2, HalfFits
<1>4. \/ /\ forked' = [forked EXCEPT ![n] = @ \cup {c}] /\ piece' = [piece EXCEPT ![c] = h]
         /\ pc' = [pc EXCEPT ![n] = next, ![c] = "start"] /\ starved' = starved
      \/ /\ pc' = [pc EXCEPT ![n] = next] /\ starved' = TRUE /\ UNCHANGED <<forked, piece>>
  BY DEF Fork
<1>5. TypeOK'
  <2>1. /\ piece' \in [Node -> Bounded] /\ pc' \in [Node -> State]
        /\ forked' \in [Node -> SUBSET Node] /\ starved' \in BOOLEAN
    <3>1. forked[n] \cup {c} \in SUBSET Node
      BY <1>1, TypesNow
    <3>2. CASE UNCHANGED <<forked, piece>> /\ pc' = [pc EXCEPT ![n] = next] /\ starved' = TRUE
      BY <1>1, <3>2, TypesNow
    <3>3. CASE /\ forked' = [forked EXCEPT ![n] = @ \cup {c}] /\ piece' = [piece EXCEPT ![c] = h]
               /\ pc' = [pc EXCEPT ![n] = next, ![c] = "start"] /\ starved' = starved
      <4>1. forked' \in [Node -> SUBSET Node]
        BY <3>1, <3>3, TypesNow
      <4>2. piece' \in [Node -> Bounded]
        BY <1>3, <3>3, TypesNow
      <4>3. pc' \in [Node -> State]
        BY <1>1, <3>3, TypesNow
      <4>. QED  BY <3>3, <4>1, <4>2, <4>3, TypesNow
    <3>. QED  BY <1>4, <3>2, <3>3
  <2>. QED  BY <1>1, <2>1, TypesNow, Types
<1>6. /\ pc'[n] = next /\ piece'[n] = piece[n]
      /\ \A x \in Node : x # n => Same(x) \/ Born(x)
  <2>1. pc'[n] = next /\ piece'[n] = piece[n]
    BY <1>1, <1>4, TypesNow
  <2>2. ASSUME NEW x \in Node, x # n PROVE Same(x) \/ Born(x)
    <3>1. CASE x = c
      BY <1>1, <1>3, <1>4, <2>2, <3>1, TypesNow DEF Same, Born
    <3>2. CASE x # c
      BY <1>4, <2>2, <3>2, TypesNow DEF Same
    <3>. QED  BY <3>1, <3>2
  <2>. QED  BY <2>1, <2>2
<1>7. PlacedAt(n)'
  <2>1. PlacedAt(n) /\ count' = count
    BY <1>1 DEF Standing, Placed, count, req
  <2>. QED  BY <1>2, <1>6, <2>1 DEF PlacedAt, Waiting, Early
<1>8. \A k : ~Taken(n, k)' /\ ~Copying(n, k)'
  BY <1>6 DEF Taken, Copying, Waiting
<1>9. pc'[n] \notin Early \cup {"copy"}
  BY <1>6 DEF Waiting, Early
<1>. QED  BY <1>1, <1>2, <1>5, <1>6, <1>7, <1>8, <1>9, Quietly DEF Does

\* A process changes nothing but what it knows itself.
Alone(n, s, a, b, d, t) ==
  /\ pc' = [pc EXCEPT ![n] = s] /\ i' = [i EXCEPT ![n] = a]
  /\ lstart' = [lstart EXCEPT ![n] = b] /\ rstart' = [rstart EXCEPT ![n] = d]
  /\ tmp' = [tmp EXCEPT ![n] = t]

LEMMA AloneDoes ==
  ASSUME Standing, NEW n \in Node, pc[n] \notin Early \cup {"copy"},
         NEW s \in State \ Early, NEW a \in 0..MAX_MOVIES, NEW b \in 0..MAX_MOVIES,
         NEW d \in 0..MAX_MOVIES, NEW t \in Seq(Entry), Alone(n, s, a, b, d, t),
         UNCHANGED <<input, shared, piece, file, starved>>, crashed' \in BOOLEAN,
         forked' \in [Node -> SUBSET Node],
         PlacedAt(n)', s = "copy" => a = piece[n].start,
         \A k \in Slot : Taken(n, k)' \/ Copying(n, k)' => InArray(n, k)'
  PROVE  Does(n)
<1>1. /\ pc'[n] = s /\ i'[n] = a /\ lstart'[n] = b /\ rstart'[n] = d /\ tmp'[n] = t
      /\ \A x \in Node : x # n => Same(x)
  BY TypesNow DEF Alone, Same
<1>2. pc' \in [Node -> State] /\ tmp' \in [Node -> Seq(Entry)]
  BY TypesNow DEF Alone
<1>3. /\ i' \in [Node -> 0..MAX_MOVIES] /\ lstart' \in [Node -> 0..MAX_MOVIES]
      /\ rstart' \in [Node -> 0..MAX_MOVIES]
  BY TypesNow DEF Alone
<1>4. TypeOK'
  BY <1>2, <1>3, TypesNow, Types
<1>. QED  BY <1>1, <1>4, Quietly DEF Does

\* What a process holds of its own.
LEMMA Unchanged ==
  ASSUME Standing, NEW n \in Node
  PROVE  /\ i[n] \in 0..MAX_MOVIES /\ lstart[n] \in 0..MAX_MOVIES /\ rstart[n] \in 0..MAX_MOVIES
         /\ tmp[n] \in Seq(Entry) /\ pc[n] \in State /\ forked \in [Node -> SUBSET Node]
         /\ UNCHANGED i => i' = [i EXCEPT ![n] = i[n]]
         /\ UNCHANGED tmp => tmp' = [tmp EXCEPT ![n] = tmp[n]]
         /\ UNCHANGED lstart => lstart' = [lstart EXCEPT ![n] = lstart[n]]
         /\ UNCHANGED rstart => rstart' = [rstart EXCEPT ![n] = rstart[n]]
         /\ UNCHANGED pc => pc' = [pc EXCEPT ![n] = pc[n]]
BY TypesNow

\* The slots of a piece are in the table.
LEMMA PieceFits ==
  ASSUME Standing, NEW n \in Node, pc[n] \notin Early, piece[n].start <= piece[n].end
  PROVE  /\ 0 <= piece[n].start /\ piece[n].end < count /\ count \in Nat /\ count <= MAX_MOVIES
         /\ MAX_MOVIES \in Nat /\ piece[n].start \in 0..MAX_MOVIES
         /\ \A k \in Int : Within(k, piece[n]) => k \in Slot /\ k \in 0..(count - 1)
<1>1. 0 <= piece[n].start /\ piece[n].end < count
  BY DEF Standing, Placed, PlacedAt
<1>2. count \in Nat /\ count <= MAX_MOVIES /\ MAX_MOVIES \in Nat /\ \A k \in 0..(count - 1) : k \in Slot
  BY CountFits, LimitAssumption DEF Standing
<1>3. piece[n].start \in Int /\ piece[n].end \in Int
  BY Knows
<1>4. \A k \in Int : Within(k, piece[n]) => k \in 0..(count - 1)
  BY <1>1, <1>2, <1>3 DEF Within
<1>5. piece[n].start \in 0..MAX_MOVIES
  BY <1>1, <1>2, <1>3
<1>. QED  BY <1>1, <1>2, <1>4, <1>5

LEMMA WaitDoes ==
  ASSUME Standing, NEW n \in Node, Wait(n)
  PROVE  Does(n)
<1>1. /\ pc[n] = "wait" /\ pc' = [pc EXCEPT ![n] = "merge"]
      /\ lstart' = [lstart EXCEPT ![n] = piece[n].start]
      /\ rstart' = [rstart EXCEPT ![n] = RightHalf(piece[n]).start]
      /\ forked' = [forked EXCEPT ![n] = {}]
      /\ UNCHANGED <<input, shared, piece, i, tmp, file, crashed, starved>>
  BY DEF Wait
<1>2. n \in Inner /\ IsLarge(piece[n]) /\ piece[n].level = Len(n) /\ pc[n] \notin Early \cup {"copy"}
  BY <1>1 DEF Standing, IInv, Levels, NonEmpty, Waiting, Early
<1>. SUFFICES ASSUME NEW s, s = piece[n].start, NEW e, e = piece[n].end, NEW m, m = Middle(n)
     PROVE  Does(n)
  OBVIOUS
<1>3. s <= m /\ m < e /\ s \in Int /\ e \in Int /\ m \in Int
  BY <1>2, HalfFits, Knows
<1>4. RightHalf(piece[n]).start = m + 1
  BY DEF RightHalf, Middle, LeftHalf
<1>5. s \in 0..MAX_MOVIES /\ m + 1 \in 0..MAX_MOVIES
  <2>1. LeftHalf(piece[n]) \in Bounded /\ RightHalf(piece[n]) \in Bounded
    BY <1>2, HalfFits
  <2>. QED  BY <1>4, <2>1 DEF Bounded, LeftHalf
<1>6. /\ pc'[n] = "merge" /\ lstart'[n] = s /\ rstart'[n] = m + 1
      /\ tmp'[n] = <<>> /\ piece'[n] = piece[n]
  BY <1>1, <1>4, TypesNow DEF Standing, Placed, PlacedAt, Waiting
<1>7. Middle(n)' = m
  BY <1>6 DEF Middle
<1>8. PlacedAt(n)'
  <2>1. PlacedAt(n) /\ count' = count
    BY <1>1 DEF Standing, Placed, count, req
  <2>2. Len(tmp'[n]) = 0
    BY <1>6
  <2>3. 0 = (s - s) + ((m + 1) - (m + 1)) /\ 0 <= e - s /\ m + 1 <= e + 1 /\ s <= m + 1 /\ m < m + 1 /\ s <= s
    <3>1. 0 = (s - s) + ((m + 1) - (m + 1)) /\ s <= s /\ m < m + 1
      BY <1>3
    <3>2. m + 1 <= e + 1 /\ s <= m + 1
      BY <1>3
    <3>3. 0 <= e - s
      <4>1. s < e
        BY <1>3
      <4>. QED  BY <1>3, <4>1
    <3>. QED  BY <3>1, <3>2, <3>3
  <2>4. Merging(n)'
    BY <1>6, <1>7, <2>2, <2>3 DEF Merging
  <2>. QED  BY <1>2, <1>6, <2>1, <2>4 DEF PlacedAt, Early, Waiting
<1>9. \A k \in Slot : ~Taken(n, k)' /\ ~Copying(n, k)'
  <2>. SUFFICES ASSUME NEW k \in Slot PROVE ~Taken(n, k)' /\ ~Copying(n, k)'
    OBVIOUS
  <2>1. k \in Int
    BY DEF Slot
  <2>. QED  BY <1>3, <1>6, <1>7, <2>1 DEF Taken, Copying
<1>10. Alone(n, "merge", i[n], s, m + 1, tmp[n])
  BY <1>1, <1>4, Unchanged DEF Alone
<1>11. "merge" \in State \ Early /\ forked' \in [Node -> SUBSET Node] /\ crashed' \in BOOLEAN
  BY <1>1, TypesNow DEF State, Early
<1>. QED  BY <1>1, <1>2, <1>5, <1>8, <1>9, <1>10, <1>11, Unchanged, AloneDoes

LEMMA SmallDoes ==
  ASSUME Standing, NEW n \in Node, Small(n)
  PROVE  Does(n)
<1>. DEFINE s == IF piece[n].start <= piece[n].end THEN "fetch" ELSE "nothing"
<1>1. /\ pc[n] = "start" /\ pc' = [pc EXCEPT ![n] = s] /\ i' = [i EXCEPT ![n] = piece[n].start]
      /\ UNCHANGED <<input, shared, piece, lstart, rstart, tmp, forked, file, crashed, starved>>
  BY DEF Small
<1>2. s \in State \ Early /\ s \in {"fetch", "nothing"} /\ (s = "fetch" => piece[n].start <= piece[n].end)
  BY DEF State, Early
<1>. HIDE DEF s
<1>3. piece[n].start \in 0..MAX_MOVIES /\ piece[n].start \in Int
  BY Knows DEF Bounded
<1>4. pc'[n] = s /\ i'[n] = piece[n].start /\ tmp'[n] = <<>> /\ piece'[n] = piece[n]
  BY <1>1, TypesNow DEF Standing, Placed, PlacedAt
<1>5. PlacedAt(n)'
  <2>1. PlacedAt(n) /\ count' = count
    BY <1>1 DEF Standing, Placed, count, req
  <2>2. 0 = piece[n].start - piece[n].start /\ piece[n].start <= piece[n].start
    BY <1>3
  <2>3. Len(<<>>) = 0
    OBVIOUS
  <2>. QED  BY <1>1, <1>2, <1>4, <2>1, <2>2, <2>3 DEF PlacedAt, Early, Waiting
<1>6. \A k \in Slot : ~Taken(n, k)' /\ ~Copying(n, k)'
  <2>. SUFFICES ASSUME NEW k \in Slot PROVE ~Taken(n, k)' /\ ~Copying(n, k)'
    OBVIOUS
  <2>1. k \in Int
    BY DEF Slot
  <2>. QED  BY <1>2, <1>3, <1>4, <2>1 DEF Taken, Copying
<1>7. Alone(n, s, piece[n].start, lstart[n], rstart[n], tmp[n])
  BY <1>1, Unchanged DEF Alone
<1>8. pc[n] \notin Early \cup {"copy"} /\ crashed' \in BOOLEAN /\ forked' \in [Node -> SUBSET Node] /\ s # "copy"
  BY <1>1, <1>2, TypesNow DEF Early
<1>. QED  BY <1>1, <1>2, <1>3, <1>5, <1>6, <1>7, <1>8, Unchanged, AloneDoes

LEMMA SortNothingDoes ==
  ASSUME Standing, NEW n \in Node, SortNothing(n)
  PROVE  Does(n)
<1>1. /\ pc[n] = "nothing" /\ pc' = [pc EXCEPT ![n] = "output"] /\ crashed' \in BOOLEAN
      /\ UNCHANGED <<input, shared, piece, i, lstart, rstart, tmp, forked, file, starved>>
  BY DEF SortNothing
<1>2. pc'[n] = "output" /\ piece'[n] = piece[n] /\ "output" \in State \ Early
  BY <1>1, TypesNow DEF State, Early
<1>3. PlacedAt(n)'
  <2>1. PlacedAt(n) /\ count' = count
    BY <1>1 DEF Standing, Placed, count, req
  <2>. QED  BY <1>1, <1>2, <2>1 DEF PlacedAt, Early, Waiting
<1>4. \A k : ~Taken(n, k)' /\ ~Copying(n, k)'
  BY <1>2 DEF Taken, Copying
<1>5. Alone(n, "output", i[n], lstart[n], rstart[n], tmp[n])
  BY <1>1, Unchanged DEF Alone
<1>6. pc[n] \notin Early \cup {"copy"} /\ forked' \in [Node -> SUBSET Node]
  BY <1>1, TypesNow DEF Early
<1>. QED  BY <1>1, <1>2, <1>3, <1>4, <1>5, <1>6, Unchanged, AloneDoes

LEMMA FetchDoes ==
  ASSUME Standing, NEW n \in Node, Fetch(n)
  PROVE  Does(n)
<1>. SUFFICES ASSUME NEW s, s = piece[n].start, NEW e, e = piece[n].end, NEW k, k = i[n],
                     NEW t, t = tmp[n], NEW q, q = IF k = e THEN "sort" ELSE "fetch",
                     NEW a, a = IF k = e THEN 1 ELSE k + 1
     PROVE  Does(n)
  OBVIOUS
<1>1. /\ pc[n] = "fetch" /\ tmp' = [tmp EXCEPT ![n] = Append(t, shared[k])]
      /\ i' = [i EXCEPT ![n] = a] /\ pc' = [pc EXCEPT ![n] = q]
      /\ UNCHANGED <<input, shared, piece, lstart, rstart, forked, file, crashed, starved>>
  <2>1. i' = [i EXCEPT ![n] = a]
    BY DEF Fetch
  <2>. QED  BY <2>1 DEF Fetch
<1>2. s <= k /\ k <= e /\ Len(t) = k - s /\ s \in Int /\ e \in Int /\ k \in Int
  BY <1>1, Knows DEF Standing, Placed, PlacedAt
<1>20. t \in Seq(Entry) /\ shared \in [Slot -> Entry] /\ pc[n] \notin Early \cup {"copy"}
  BY <1>1, Knows DEF Early
<1>3. /\ 0 <= s /\ e < count /\ count \in Nat /\ count <= MAX_MOVIES /\ MAX_MOVIES \in Nat
      /\ \A j \in Int : Within(j, piece[n]) => j \in Slot
  <2>1. piece[n].start <= piece[n].end
    BY <1>2
  <2>. QED  BY <1>20, <2>1, PieceFits
<1>4. k \in Slot /\ shared[k] \in Entry
  BY <1>2, <1>3, <1>20 DEF Within
<1>. SUFFICES ASSUME NEW u, u = Append(t, shared[k])
     PROVE  Does(n)
  OBVIOUS
<1>5. /\ u \in Seq(Entry) /\ Len(u) = Len(t) + 1 /\ Len(t) \in Nat
      /\ u[Len(t) + 1] = shared[k] /\ \A j \in 1..Len(t) : u[j] = t[j]
  BY <1>20, <1>4
<1>6. a \in 0..MAX_MOVIES /\ a \in Int
  <2>1. 1 <= MAX_MOVIES
    BY <1>2, <1>3
  <2>2. k + 1 <= MAX_MOVIES /\ 0 <= k + 1
    BY <1>2, <1>3
  <2>. QED  BY <1>2, <1>3, <2>1, <2>2
<1>7. pc'[n] = q /\ i'[n] = a /\ tmp'[n] = u /\ piece'[n] = piece[n]
  BY <1>1, TypesNow
<1>8. PlacedAt(n)'
  <2>1. PlacedAt(n) /\ count' = count
    BY <1>1 DEF Standing, Placed, count, req
  <2>2. CASE k = e
    <3>1. q = "sort" /\ a = 1
      BY <2>2
    <3>2. 1 <= a /\ a <= Len(u) /\ Len(u) = e - s + 1
      BY <1>2, <1>5, <2>2, <3>1
    <3>. QED  BY <1>2, <1>20, <1>7, <2>1, <3>1, <3>2 DEF PlacedAt, Early, Waiting
  <2>3. CASE k # e
    <3>1. q = "fetch" /\ a = k + 1
      BY <2>3
    <3>2. s <= a /\ a <= e /\ Len(u) = a - s
      <4>1. k + 1 <= e /\ s <= k + 1
        BY <1>2, <2>3
      <4>2. Len(u) = (k - s) + 1
        BY <1>2, <1>5
      <4>3. (k - s) + 1 = (k + 1) - s
        <5>1. k \in Int /\ s \in Int
          BY <1>2
        <5>. QED  BY <5>1
      <4>. QED  BY <3>1, <4>1, <4>2, <4>3
    <3>. QED  BY <1>2, <1>20, <1>7, <2>1, <3>1, <3>2 DEF PlacedAt, Early, Waiting
  <2>. QED  BY <2>2, <2>3
<1>9. ASSUME NEW j \in Slot, Taken(n, j)' \/ Copying(n, j)' PROVE InArray(n, j)'
  <2>1. j \in Int
    BY DEF Slot
  <2>2. j = k \/ Taken(n, j)
    <3>1. s <= j /\ j <= k
      <4>1. CASE k = e
        BY <1>7, <1>9, <4>1 DEF Taken, Copying, Within
      <4>2. CASE k # e
        <5>1. s <= j /\ j < k + 1
          BY <1>7, <1>9, <4>2 DEF Taken, Copying
        <5>. QED  BY <1>2, <2>1, <5>1
      <4>. QED  BY <4>1, <4>2
    <3>2. j = k \/ j < k
      BY <1>2, <2>1, <3>1
    <3>. QED  BY <1>1, <3>1, <3>2 DEF Taken
  <2>3. CASE j = k
    <3>. Len(t) + 1 \in 1..Len(u)
      BY <1>5
    <3>1. u[Len(t) + 1].movie = shared[j].movie
      BY <1>5, <2>3
    <3>. QED  BY <1>1, <1>7, <3>1 DEF InArray
  <2>4. CASE Taken(n, j)
    <3>1. PICK g \in 1..Len(t) : t[g].movie = shared[j].movie
      BY <2>4 DEF Standing, Kept, InArray
    <3>. g \in 1..Len(u)
      BY <1>5
    <3>2. u[g].movie = shared[j].movie
      BY <1>5, <3>1
    <3>. QED  BY <1>1, <1>7, <3>2 DEF InArray
  <2>. QED  BY <2>2, <2>3, <2>4
<1>10. Alone(n, q, a, lstart[n], rstart[n], u)
  BY <1>1, Unchanged DEF Alone
<1>11. q \in State \ Early /\ q # "copy" /\ crashed' \in BOOLEAN /\ forked' \in [Node -> SUBSET Node]
  BY <1>1, TypesNow DEF State, Early
<1>. QED  BY <1>1, <1>2, <1>20, <1>5, <1>6, <1>8, <1>9, <1>10, <1>11, Unchanged, AloneDoes

LEMMA SortDoes ==
  ASSUME Standing, NEW n \in Node, Sort(n)
  PROVE  Does(n)
<1>. SUFFICES ASSUME NEW s, s = piece[n].start, NEW e, e = piece[n].end, NEW k, k = i[n],
                     NEW t, t = tmp[n], NEW c, c = Len(t)
     PROVE  Does(n)
  OBVIOUS
<1>1. /\ pc[n] = "sort"
      /\ UNCHANGED <<input, shared, piece, lstart, rstart, forked, file, starved>>
  BY DEF Sort
<1>20. t \in Seq(Entry) /\ shared \in [Slot -> Entry] /\ pc[n] \notin Early \cup {"copy"}
  BY <1>1, Knows DEF Early
<1>2. /\ 1 <= k /\ k <= c /\ c = e - s + 1 /\ k \in Int /\ c \in Nat
      /\ s \in Int /\ e \in Int
  <2>1. k \in Int /\ s \in Int /\ e \in Int /\ c \in Nat
    BY <1>20, Knows
  <2>. QED  BY <1>1, <2>1 DEF Standing, Placed, PlacedAt
<1>3. /\ 0 <= s /\ e < count /\ count \in Nat /\ count <= MAX_MOVIES /\ MAX_MOVIES \in Nat
      /\ s \in 0..MAX_MOVIES /\ s <= e
  <2>1. piece[n].start <= piece[n].end
    BY <1>2
  <2>. QED  BY <1>20, <2>1, PieceFits
<1>4. ASSUME NEW j \in Slot, Within(j, piece[n])
      PROVE  \E g \in 1..c : t[g].movie = shared[j].movie
  <2>1. Taken(n, j)
    BY <1>1, <1>4 DEF Taken
  <2>. QED  BY <2>1 DEF Standing, Kept, InArray
<1>5. PlacedAt(n) /\ count' = count
  BY <1>1 DEF Standing, Placed, count, req
<1>6. CASE Aborts(t, k, c)
  <2>1. pc' = [pc EXCEPT ![n] = "exited"] /\ crashed' = (n = Root) /\ UNCHANGED <<tmp, i>>
    BY <1>6 DEF Sort
  <2>2. pc'[n] = "exited" /\ piece'[n] = piece[n]
    BY <1>1, <2>1, TypesNow
  <2>3. PlacedAt(n)'
    BY <1>2, <1>20, <1>5, <2>2 DEF PlacedAt, Early, Waiting
  <2>4. \A j : ~Taken(n, j)' /\ ~Copying(n, j)'
    BY <2>2 DEF Taken, Copying
  <2>5. Alone(n, "exited", i[n], lstart[n], rstart[n], tmp[n])
    BY <1>1, <2>1, Unchanged DEF Alone
  <2>6. "exited" \in State \ Early /\ forked' \in [Node -> SUBSET Node] /\ crashed' \in BOOLEAN
    BY <1>1, <2>1, TypesNow DEF State, Early
  <2>. QED  BY <1>1, <1>2, <1>20, <2>3, <2>4, <2>5, <2>6, Unchanged, AloneDoes
<1>7. CASE ~Aborts(t, k, c)
  <2>. SUFFICES ASSUME NEW w, w = SortAt(t, k, c),
                       NEW a, a = IF k = c THEN s ELSE k + 1,
                       NEW q, q = IF k = c THEN "copy" ELSE "sort"
       PROVE  Does(n)
    OBVIOUS
  <2>1. /\ tmp' = [tmp EXCEPT ![n] = w] /\ i' = [i EXCEPT ![n] = a]
        /\ pc' = [pc EXCEPT ![n] = q] /\ crashed' = crashed
    <3>1. tmp' = [tmp EXCEPT ![n] = w] /\ crashed' = crashed
      BY <1>7 DEF Sort
    <3>2. i' = [i EXCEPT ![n] = a]
      BY <1>7 DEF Sort
    <3>3. pc' = [pc EXCEPT ![n] = q]
      BY <1>7 DEF Sort
    <3>. QED  BY <3>1, <3>2, <3>3
  <2>2. PICK best \in k..c :
           /\ w \in [1..c -> Entry] /\ w[k] = add_secret(t[best])
           /\ best # k => w[best] = t[k]
           /\ \A j \in 1..c : j # k /\ j # best => w[j] = t[j]
    <3>1. 1..c \subseteq Int /\ c \in Int
      BY <1>2
    <3>2. t \in [1..c -> Entry]
      <4>1. t \in Seq(Entry)
        BY <1>20
      <4>. QED  BY <4>1
    <3>3. k..c \subseteq 1..c
      <4>. SUFFICES ASSUME NEW x \in k..c PROVE x \in 1..c
        OBVIOUS
      <4>1. x \in Int /\ k <= x /\ x <= c /\ k \in Int /\ 1 <= k
        BY <1>2
      <4>. QED  BY <4>1
    <3>4. Swapped(1..c, t, k, c, w)
      BY <1>2, <3>1, <3>2, <3>3, SortSwaps
    <3>. QED  BY <3>4 DEF Swapped
  <2>3. w \in Seq(Entry) /\ Len(w) = c
    <3>1. c \in Nat /\ w \in [1..c -> Entry]
      BY <1>2, <2>2
    <3>. QED  BY <3>1
  <2>4. k \in 1..c /\ best \in 1..c
    <3>1. k \in 1..c
      BY <1>2
    <3>2. best \in Int /\ k <= best /\ best <= c
      BY <1>2
    <3>3. best \in 1..c
      BY <1>2, <3>2
    <3>. QED  BY <3>1, <3>3
  <2>5. w[k].movie = t[best].movie /\ w[best].movie = t[k].movie
    <3>1. t[best] \in Entry
      <4>1. t \in [1..c -> Entry]
        <5>1. t \in Seq(Entry)
          BY <1>20
        <5>. QED  BY <5>1
      <4>. QED  BY <2>4, <4>1
    <3>2. w[k].movie = t[best].movie
      BY <2>2, <3>1, MarkedMovie
    <3>. QED  BY <2>2, <3>2
  <2>6. pc'[n] = q /\ i'[n] = a /\ tmp'[n] = w /\ piece'[n] = piece[n]
    BY <1>1, <2>1, TypesNow
  <2>7. ASSUME NEW j \in Slot, Taken(n, j)' \/ Copying(n, j)' PROVE InArray(n, j)'
    <3>1. Within(j, piece[n])
      <4>1. CASE k = c
        BY <2>6, <2>7, <4>1 DEF Taken, Copying, Within
      <4>2. CASE k # c
        BY <2>6, <2>7, <4>2 DEF Taken, Copying, Within
      <4>. QED  BY <4>1, <4>2
    <3>2. PICK g \in 1..c : t[g].movie = shared[j].movie
      BY <1>4, <3>1
    <3>3. \E h \in 1..c : w[h].movie = t[g].movie
      <4>1. CASE g = k
        BY <2>4, <2>5, <4>1
      <4>2. CASE g = best
        BY <2>4, <2>5, <4>2
      <4>3. CASE g # k /\ g # best
        BY <2>2, <4>3
      <4>. QED  BY <4>1, <4>2, <4>3
    <3>. QED  BY <1>1, <2>3, <2>6, <3>2, <3>3 DEF InArray
  <2>8. PlacedAt(n)'
    <3>1. CASE k = c
      <4>1. q = "copy" /\ a = s /\ s <= s
        BY <1>2, <3>1
      <4>. QED  BY <1>2, <1>20, <1>3, <1>5, <2>3, <2>6, <4>1 DEF PlacedAt, Early, Waiting
    <3>2. CASE k # c
      <4>1. q = "sort" /\ a = k + 1
        BY <3>2
      <4>2. 1 <= a /\ a <= c
        BY <1>2, <3>2, <4>1
      <4>. QED  BY <1>2, <1>20, <1>5, <2>3, <2>6, <4>1, <4>2 DEF PlacedAt, Early, Waiting
    <3>. QED  BY <3>1, <3>2
  <2>9. a \in 0..MAX_MOVIES /\ (q = "copy" => a = s)
    <3>1. CASE k = c
      BY <1>3, <3>1
    <3>2. CASE k # c
      <4>1. k < c
        BY <1>2, <3>2
      <4>2. c <= MAX_MOVIES
        BY <1>2, <1>3
      <4>3. k + 1 <= MAX_MOVIES
        BY <1>2, <1>3, <4>1, <4>2
      <4>4. k + 1 \in 0..MAX_MOVIES
        BY <1>2, <1>3, <4>3
      <4>. QED  BY <3>2, <4>4
    <3>. QED  BY <3>1, <3>2
  <2>10. Alone(n, q, a, lstart[n], rstart[n], w)
    BY <1>1, <2>1, Unchanged DEF Alone
  <2>11. q \in State \ Early /\ crashed' \in BOOLEAN /\ forked' \in [Node -> SUBSET Node]
    BY <1>1, <2>1, TypesNow DEF State, Early
  <2>. QED  BY <1>1, <1>2, <1>20, <2>3, <2>7, <2>8, <2>9, <2>10, <2>11, Unchanged, AloneDoes
<1>. QED  BY <1>6, <1>7

\* A merge takes the better entry.
LEMMA MergeTakes ==
  ASSUME Standing, NEW n \in Node, Merge(n)
  PROVE  \E k, l2, r2 :
           /\ tmp' = [tmp EXCEPT ![n] = Append(@, shared[k])]
           /\ lstart' = [lstart EXCEPT ![n] = l2] /\ rstart' = [rstart EXCEPT ![n] = r2]
           /\ TakesBetter(shared, lstart[n], Middle(n), rstart[n], piece[n].end, k, l2, r2)
<1>. SUFFICES ASSUME NEW s, s = piece[n].start, NEW e, e = piece[n].end, NEW m, m = Middle(n),
                     NEW l, l = lstart[n], NEW r, r = rstart[n], NEW t, t = tmp[n]
     PROVE  \E k, l2, r2 :
              /\ tmp' = [tmp EXCEPT ![n] = Append(t, shared[k])]
              /\ lstart' = [lstart EXCEPT ![n] = l2] /\ rstart' = [rstart EXCEPT ![n] = r2]
              /\ TakesBetter(shared, l, m, r, e, k, l2, r2)
  OBVIOUS
<1>1. s \in Int /\ e \in Int /\ m \in Int /\ l \in Int /\ r \in Int
  BY Knows
<1>2. /\ s <= l /\ l <= m + 1 /\ m < r /\ r <= e + 1
      /\ Len(t) = (l - s) + (r - (m + 1)) /\ Len(t) <= e - s
  BY DEF Merge, Standing, Placed, PlacedAt, Merging
<1>. DEFINE left == l <= m /\ (r > e \/ Better(shared[l], shared[r]))
<1>3. CASE left
  <2>1. /\ tmp' = [tmp EXCEPT ![n] = Append(t, shared[l])]
        /\ lstart' = [lstart EXCEPT ![n] = l + 1] /\ rstart' = rstart
    BY <1>3 DEF Merge, Middle
  <2>2. rstart' = [rstart EXCEPT ![n] = r]
    BY <2>1, Unchanged
  <2>3. l <= m /\ (r <= e => Better(shared[l], shared[r]))
    BY <1>1, <1>3
  <2>. QED  BY <2>1, <2>2, <2>3 DEF TakesBetter
<1>4. CASE ~left
  <2>1. /\ tmp' = [tmp EXCEPT ![n] = Append(t, shared[r])]
        /\ rstart' = [rstart EXCEPT ![n] = r + 1] /\ lstart' = lstart
    BY <1>4 DEF Merge, Middle
  <2>2. lstart' = [lstart EXCEPT ![n] = l]
    BY <2>1, Unchanged
  <2>3. l <= m => r <= e /\ ~Better(shared[l], shared[r])
    BY <1>1, <1>4
  <2>4. r <= e
    <3>1. CASE l <= m
      BY <2>3, <3>1
    <3>2. CASE ~(l <= m)
      <4>1. l = m + 1
        <5>1. \A x, y \in Int : ~(x <= y) /\ x <= y + 1 => x = y + 1
          OBVIOUS
        <5>. QED  BY <1>1, <1>2, <3>2, <5>1
      <4>2. r - s <= e - s
        BY <1>1, <1>2, <4>1
      <4>. QED  BY <1>1, <4>2
    <3>. QED  BY <3>1, <3>2
  <2>. QED  BY <2>1, <2>2, <2>3, <2>4 DEF TakesBetter
<1>. QED  BY <1>3, <1>4

LEMMA MergeDoes ==
  ASSUME Standing, NEW n \in Node, Merge(n)
  PROVE  Does(n)
<1>. SUFFICES ASSUME NEW s, s = piece[n].start, NEW e, e = piece[n].end, NEW m, m = Middle(n),
                     NEW l, l = lstart[n], NEW r, r = rstart[n], NEW t, t = tmp[n]
     PROVE  Does(n)
  OBVIOUS
<1>1. pc[n] = "merge" /\ UNCHANGED <<input, shared, piece, forked, file, crashed, starved>>
  BY DEF Merge
<1>2. s \in Int /\ e \in Int /\ m \in Int /\ l \in Int /\ r \in Int
  BY Knows
<1>20. t \in Seq(Entry) /\ shared \in [Slot -> Entry]
  BY Knows
<1>3. /\ s <= l /\ l <= m + 1 /\ m < r /\ r <= e + 1
      /\ Len(t) = (l - s) + (r - (m + 1)) /\ Len(t) <= e - s /\ Len(t) \in Int
  BY <1>1, <1>20 DEF Standing, Placed, PlacedAt, Merging
<1>4. \E k, l2, r2 :
        /\ tmp' = [tmp EXCEPT ![n] = Append(t, shared[k])]
        /\ lstart' = [lstart EXCEPT ![n] = l2] /\ rstart' = [rstart EXCEPT ![n] = r2]
        /\ \/ k = l /\ l <= m /\ l2 = l + 1 /\ r2 = r
           \/ k = r /\ r <= e /\ l2 = l /\ r2 = r + 1
  BY MergeTakes DEF TakesBetter
<1>5. PICK k, l2, r2 :
        /\ tmp' = [tmp EXCEPT ![n] = Append(t, shared[k])]
        /\ lstart' = [lstart EXCEPT ![n] = l2] /\ rstart' = [rstart EXCEPT ![n] = r2]
        /\ \/ k = l /\ l <= m /\ l2 = l + 1 /\ r2 = r
           \/ k = r /\ r <= e /\ l2 = l /\ r2 = r + 1
  BY <1>4
<1>6. Further(s, e, l, m, r, Len(t), k, l2, r2)
  BY <1>2, <1>3, <1>5, OneFurther
<1>7. k \in Int /\ s <= k /\ k <= e /\ s <= e
  <2>1. l <= m => l <= e
    BY <1>2, <1>3
  <2>2. s <= r
    BY <1>2, <1>3
  <2>3. k \in Int /\ s <= k /\ k <= e
    BY <1>2, <1>3, <1>5, <2>1, <2>2
  <2>. QED  BY <1>2, <2>3
<1>8. /\ 0 <= s /\ e < count /\ count \in Nat /\ count <= MAX_MOVIES /\ MAX_MOVIES \in Nat
      /\ s \in 0..MAX_MOVIES /\ k \in Slot
  BY <1>1, <1>7, PieceFits DEF Early, Within
<1>9. l2 \in 0..MAX_MOVIES /\ r2 \in 0..MAX_MOVIES
  <2>1. l2 \in Int /\ r2 \in Int /\ s <= l2 /\ l2 <= m + 1 /\ m < r2 /\ r2 <= e + 1
    BY <1>6 DEF Further
  <2>2. e + 1 <= MAX_MOVIES
    BY <1>2, <1>8
  <2>5. m < e + 1 /\ s <= m + 1
    <3>1. m < e + 1
      BY <1>2, <1>3
    <3>2. s <= m + 1
      BY <1>2, <1>3
    <3>. QED  BY <3>1, <3>2
  <2>3. 0 <= l2 /\ l2 <= MAX_MOVIES
    BY <1>2, <1>8, <2>1, <2>2, <2>5
  <2>4. 0 <= r2 /\ r2 <= MAX_MOVIES
    BY <1>2, <1>8, <2>1, <2>2, <2>5
  <2>. QED  BY <1>8, <2>1, <2>3, <2>4
<1>. SUFFICES ASSUME NEW u, u = Append(t, shared[k]),
                     NEW q, q = IF Len(t) = e - s THEN "copy" ELSE "merge",
                     NEW a, a = IF Len(t) = e - s THEN s ELSE i[n]
     PROVE  Does(n)
  OBVIOUS
<1>10. /\ u \in Seq(Entry) /\ Len(u) = Len(t) + 1 /\ Len(t) \in Nat
       /\ u[Len(t) + 1] = shared[k] /\ \A j \in 1..Len(t) : u[j] = t[j]
  <2>1. shared[k] \in Entry
    BY <1>20, <1>8
  <2>. QED  BY <1>20, <2>1
<1>11. pc' = [pc EXCEPT ![n] = q] /\ i' = [i EXCEPT ![n] = a]
  <2>1. tmp'[n] = u
    BY <1>5, TypesNow
  <2>2. Len(tmp'[n]) = e - s + 1 <=> Len(t) = e - s
    <3>1. Len(t) + 1 = e - s + 1 <=> Len(t) = e - s
      <4>1. \A x, y \in Int : x + 1 = y + 1 <=> x = y
        OBVIOUS
      <4>2. e - s \in Int
        BY <1>2
      <4>. QED  BY <1>3, <4>1, <4>2
    <3>. QED  BY <1>10, <2>1, <3>1
  <2>3. CASE Len(t) = e - s
    BY <2>2, <2>3 DEF Merge
  <2>4. CASE Len(t) # e - s
    <3>1. pc' = pc /\ i' = i
      BY <2>2, <2>4 DEF Merge
    <3>. QED  BY <1>1, <2>4, <3>1, Unchanged
  <2>. QED  BY <2>3, <2>4
<1>12. Alone(n, q, a, l2, r2, u)
  BY <1>5, <1>11 DEF Alone
<1>13. /\ pc'[n] = q /\ i'[n] = a /\ tmp'[n] = u /\ piece'[n] = piece[n]
       /\ lstart'[n] = l2 /\ rstart'[n] = r2 /\ Middle(n)' = m
  BY <1>1, <1>5, <1>11, TypesNow DEF Middle
<1>14. PlacedAt(n)'
  <2>1. PlacedAt(n) /\ count' = count
    BY <1>1 DEF Standing, Placed, count, req
  <2>2. CASE Len(t) = e - s
    <3>1. q = "copy" /\ a = s /\ s <= s /\ Len(u) = e - s + 1
      BY <1>2, <1>10, <2>2
    <3>. QED  BY <1>7, <1>8, <1>13, <2>1, <3>1 DEF PlacedAt, Early, Waiting
  <2>3. CASE Len(t) # e - s
    <3>1. q = "merge"
      BY <2>3
    <3>2. Len(u) <= e - s
      <4>1. \A x, y \in Int : x <= y /\ x # y => x + 1 <= y
        OBVIOUS
      <4>2. e - s \in Int
        BY <1>2
      <4>. QED  BY <1>3, <1>10, <2>3, <4>1, <4>2
    <3>3. Merging(n)'
      <4>1. Len(u) = (l2 - s) + (r2 - (m + 1))
        BY <1>6, <1>10 DEF Further
      <4>2. s <= l2 /\ l2 <= m + 1 /\ m < r2 /\ r2 <= e + 1
        BY <1>6 DEF Further
      <4>. QED  BY <1>13, <3>2, <4>1, <4>2 DEF Merging
    <3>. QED  BY <1>8, <1>13, <2>1, <3>1, <3>3 DEF PlacedAt, Early, Waiting
  <2>. QED  BY <2>2, <2>3
<1>15. ASSUME NEW j \in Slot, Taken(n, j)' \/ Copying(n, j)' PROVE InArray(n, j)'
  <2>1. j \in Int
    BY DEF Slot
  <2>2. (s <= j /\ j < l2) \/ (m < j /\ j < r2)
    <3>1. CASE q = "merge"
      BY <1>13, <1>15, <3>1 DEF Taken, Copying
    <3>2. CASE q = "copy"
      <4>1. Len(t) = e - s /\ a = s
        BY <3>2
      <4>2. s <= j /\ j <= e
        BY <1>13, <1>15, <3>2, <4>1 DEF Taken, Copying
      <4>3. l2 = m + 1 /\ r2 = e + 1
        BY <1>6, <4>1 DEF Further
      <4>. QED  BY <1>2, <2>1, <4>2, <4>3
    <3>. QED  BY <3>1, <3>2
  <2>3. j = k \/ (s <= j /\ j < l) \/ (m < j /\ j < r)
    BY <1>6, <2>1, <2>2 DEF Further
  <2>4. CASE j = k
    <3>. Len(t) + 1 \in 1..Len(u)
      BY <1>10
    <3>1. u[Len(t) + 1].movie = shared[j].movie
      BY <1>10, <2>4
    <3>. QED  BY <1>1, <1>13, <3>1 DEF InArray
  <2>5. CASE (s <= j /\ j < l) \/ (m < j /\ j < r)
    <3>0. Taken(n, j)
      BY <1>1, <2>5 DEF Taken
    <3>1. PICK g \in 1..Len(t) : t[g].movie = shared[j].movie
      BY <3>0 DEF Standing, Kept, InArray
    <3>. g \in 1..Len(u)
      BY <1>10
    <3>2. u[g].movie = shared[j].movie
      BY <1>10, <3>1
    <3>. QED  BY <1>1, <1>13, <3>2 DEF InArray
  <2>. QED  BY <2>3, <2>4, <2>5
<1>16. a \in 0..MAX_MOVIES /\ (q = "copy" => a = s)
  BY <1>8, Unchanged
<1>17. /\ q \in State \ Early /\ pc[n] \notin Early \cup {"copy"} /\ crashed' \in BOOLEAN
       /\ forked' \in [Node -> SUBSET Node]
  BY <1>1, TypesNow DEF State, Early
<1>. QED  BY <1>1, <1>9, <1>10, <1>12, <1>14, <1>15, <1>16, <1>17, AloneDoes

\* What a process takes or copies is in its piece.
LEMMA TakenWithin ==
  ASSUME Standing, NEW x \in Node, NEW j \in Int, Taken(x, j) \/ Copying(x, j)
  PROVE  pc[x] \in Working /\ Within(j, piece[x])
<1>. SUFFICES ASSUME NEW s, s = piece[x].start, NEW e, e = piece[x].end, NEW k, k = i[x],
                     NEW l, l = lstart[x], NEW r, r = rstart[x], NEW m, m = Middle(x)
     PROVE  pc[x] \in Working /\ s <= j /\ j <= e
  BY DEF Within
<1>1. s \in Int /\ e \in Int /\ k \in Int /\ l \in Int /\ r \in Int /\ m \in Int
  BY Knows
<1>2. PlacedAt(x)
  BY DEF Standing, Placed
<1>3. pc[x] \in Working
  BY DEF Taken, Copying, Working
<1>4. CASE pc[x] = "fetch"
  <2>1. s <= j /\ j < k /\ k <= e
    BY <1>2, <1>4 DEF Taken, Copying, PlacedAt
  <2>. QED  BY <1>1, <1>3, <2>1
<1>5. CASE pc[x] = "sort"
  BY <1>3, <1>5 DEF Taken, Copying, Within
<1>6. CASE pc[x] = "copy"
  <2>1. s <= k /\ k <= j /\ j <= e
    BY <1>2, <1>6 DEF Taken, Copying, PlacedAt
  <2>. QED  BY <1>1, <1>3, <2>1
<1>7. CASE pc[x] = "merge"
  <2>1. s <= l /\ l <= m + 1 /\ m < r /\ r <= e + 1
    BY <1>2, <1>7 DEF PlacedAt, Merging
  <2>2. (s <= j /\ j < l) \/ (m < j /\ j < r)
    BY <1>7 DEF Taken, Copying
  <2>3. s <= m + 1
    BY <1>1, <2>1
  <2>4. m <= e
    BY <1>1, <2>1
  <2>5. s <= j
    BY <1>1, <2>1, <2>2, <2>3
  <2>6. j <= e
    BY <1>1, <2>1, <2>2, <2>4
  <2>. QED  BY <1>3, <2>5, <2>6
<1>. QED  BY <1>4, <1>5, <1>6, <1>7 DEF Taken, Copying

LEMMA CopyDoes ==
  ASSUME Standing, NEW n \in Node, Copy(n)
  PROVE  Does(n)
<1>. SUFFICES ASSUME NEW s, s = piece[n].start, NEW e, e = piece[n].end, NEW k, k = i[n],
                     NEW t, t = tmp[n], NEW x0, x0 = t[k - s + 1],
                     NEW q, q = IF k # e THEN "copy" ELSE IF n = Root THEN "output" ELSE "exited"
     PROVE  Does(n)
  OBVIOUS
<1>1. /\ pc[n] = "copy" /\ shared' = [shared EXCEPT ![k] = x0]
      /\ i' = [i EXCEPT ![n] = k + 1] /\ pc' = [pc EXCEPT ![n] = q]
      /\ UNCHANGED <<input, piece, lstart, rstart, tmp, forked, file, crashed, starved>>
  BY DEF Copy, Copied
<1>2. s \in Int /\ e \in Int /\ k \in Int
  BY Knows
<1>22. t \in Seq(Entry) /\ Slot \subseteq Int /\ shared \in [Slot -> Entry]
  BY Knows
<1>3. s <= k /\ k <= e /\ Len(t) = e - s + 1 /\ pc[n] \notin Early
  BY <1>1 DEF Standing, Placed, PlacedAt, Early
<1>4. /\ 0 <= s /\ e < count /\ count \in Nat /\ count <= MAX_MOVIES /\ MAX_MOVIES \in Nat
      /\ k \in Slot /\ \A j \in 0..(count - 1) : j \in Slot
  <2>1. s <= e
    BY <1>2, <1>3
  <2>2. \A j \in 0..(count - 1) : j \in Slot
    BY <1>3, CountFits DEF Standing
  <2>. QED  BY <1>2, <1>3, <2>1, <2>2, PieceFits DEF Within
<1>5. x0 \in Entry
  <2>1. k - s + 1 \in Int /\ 1 <= k - s + 1
    BY <1>2, <1>3
  <2>2. k - s + 1 <= e - s + 1
    BY <1>2, <1>3
  <2>3. k - s + 1 \in 1..Len(t)
    BY <1>2, <1>3, <2>1, <2>2
  <2>. QED  BY <1>22, <2>3
<1>6. /\ pc'[n] = q /\ i'[n] = k + 1 /\ shared' \in [Slot -> Entry] /\ shared'[k] = x0
      /\ \A j \in Slot : j # k => shared'[j] = shared[j]
      /\ \A x \in Node : x # n => Same(x)
      /\ count' = count /\ req' = req
  <2>1. pc'[n] = q /\ i'[n] = k + 1
    BY <1>1, TypesNow
  <2>2. shared' \in [Slot -> Entry] /\ shared'[k] = x0
    BY <1>1, <1>4, <1>5, <1>22
  <2>3. \A j \in Slot : j # k => shared'[j] = shared[j]
    BY <1>1, <1>22
  <2>4. \A x \in Node : x # n => Same(x)
    BY <1>1, TypesNow DEF Same
  <2>. QED  BY <1>1, <2>1, <2>2, <2>3, <2>4 DEF count, req
<1>7. q \in State \ Early /\ q \in {"copy", "output", "exited"}
  BY DEF State, Early
<1>8. TypeOK'
  <2>1. k + 1 \in 0..MAX_MOVIES
    <3>1. k + 1 <= MAX_MOVIES
      <4>1. k < count
        BY <1>2, <1>3, <1>4
      <4>. QED  BY <1>2, <1>4, <4>1
    <3>2. 0 <= k + 1
      BY <1>2, <1>3, <1>4
    <3>. QED  BY <1>2, <1>4, <3>1, <3>2
  <2>2. i' \in [Node -> 0..MAX_MOVIES] /\ pc' \in [Node -> State]
    BY <1>1, <1>7, <2>1, TypesNow
  <2>. QED  BY <1>1, <1>6, <2>2, TypesNow, Types
<1>9. HasRead'
  <2>1. CASE n = Root
    BY <1>1, <1>3, <1>6, <2>1 DEF Standing, HasRead, Early
  <2>2. CASE n # Root
    BY <1>1, <1>6, <2>2, RootIsNoHalf DEF Standing, HasRead, Same
  <2>. QED  BY <2>1, <2>2
<1>10. PlacedAt(n)'
  <2>1. PlacedAt(n)
    BY DEF Standing, Placed
  <2>2. CASE k = e
    <3>1. q \in {"output", "exited"}
      BY <2>2
    <3>. QED  BY <1>1, <1>4, <1>6, <3>1 DEF PlacedAt, Early, Waiting
  <2>3. CASE k # e
    <3>1. s <= k + 1 /\ k + 1 <= e
      <4>1. s <= k + 1
        BY <1>2, <1>3
      <4>2. k + 1 <= e
        <5>1. \A x, y \in Int : x <= y /\ x # y => x + 1 <= y
          OBVIOUS
        <5>. QED  BY <1>2, <1>3, <2>3, <5>1
      <4>. QED  BY <4>1, <4>2
    <3>2. q = "copy"
      BY <2>3
    <3>. QED  BY <1>1, <1>3, <1>4, <1>6, <3>1, <3>2 DEF PlacedAt, Early, Waiting
  <2>. QED  BY <2>2, <2>3
<1>11. ASSUME NEW x \in Node, x # n PROVE PlacedAt(x)'
  <2>1. PlacedAt(x) /\ Same(x)
    BY <1>6, <1>11 DEF Standing, Placed
  <2>. QED  BY <1>6, <2>1 DEF PlacedAt, Merging, Middle, LeftHalf, Same
\* Nobody else has slot k.
<1>12. ASSUME NEW x \in Node, x # n PROVE ~Taken(x, k) /\ ~Copying(x, k)
  <2>. SUFFICES ASSUME Taken(x, k) \/ Copying(x, k) PROVE FALSE
    OBVIOUS
  <2>1. Has(x, k)
    BY <1>2, TakenWithin DEF Has
  <2>2. Has(n, k)
    BY <1>1, <1>3 DEF Has, Working, Within
  <2>. QED  BY <1>2, <1>12, <2>1, <2>2 DEF Standing, IInv, Disjoint
<1>13. ASSUME NEW x \in Node, NEW j \in Slot, Taken(x, j)' PROVE InArray(x, j)'
  <2>1. x # n
    BY <1>6, <1>7, <1>13 DEF Taken
  <2>2. Same(x)
    BY <1>6, <2>1
  <2>3. Taken(x, j)
    BY <1>13, <2>2 DEF Taken, Same, Middle, LeftHalf, Within
  <2>4. j # k
    BY <1>12, <2>1, <2>3
  <2>5. InArray(x, j)
    BY <2>3 DEF Standing, Kept
  <2>. QED  BY <1>6, <2>2, <2>4, <2>5 DEF InArray, Same
<1>14. ASSUME NEW x \in Node, x # n, NEW j PROVE Copying(x, j)' <=> Copying(x, j)
  BY <1>6, <1>14 DEF Copying, Same
<1>15. \A j : Copying(n, j) <=> k <= j /\ j <= e
  BY <1>1 DEF Copying
<1>16. \A j \in Int : Copying(n, j)' <=> k + 1 <= j /\ j <= e
  <2>1. CASE k = e
    <3>1. q # "copy" /\ \A j \in Int : ~(k + 1 <= j /\ j <= e)
      BY <1>2, <2>1
    <3>. QED  BY <1>6, <3>1 DEF Copying
  <2>2. CASE k # e
    BY <1>1, <1>6, <2>2 DEF Copying
  <2>. QED  BY <2>1, <2>2
<1>17. ASSUME NEW m, Carries(k, m) PROVE Carries(k, m)'
  <2>1. x0.movie = m
    <3>1. Copying(n, k)
      BY <1>2, <1>3, <1>15
    <3>. QED  BY <1>12, <1>17, <3>1 DEF Carries
  <2>2. ~Copying(n, k)'
    BY <1>2, <1>16
  <2>3. \A x \in Node : ~Copying(x, k)'
    BY <1>12, <1>14, <2>2
  <2>. QED  BY <1>6, <2>1, <2>3 DEF Carries
<1>18. ASSUME NEW j \in Slot, j # k, NEW m, Carries(j, m) PROVE Carries(j, m)'
  <2>1. Copying(n, j)' <=> Copying(n, j)
    BY <1>2, <1>15, <1>16, <1>18, <1>22
  <2>2. \A x \in Node : Copying(x, j)' <=> Copying(x, j)
    BY <1>14, <2>1
  <2>3. CASE \E x \in Node : Copying(x, j) /\ tmp[x][j - piece[x].start + 1].movie = m
    BY <1>1, <2>2, <2>3 DEF Carries
  <2>4. CASE (\A x \in Node : ~Copying(x, j)) /\ shared[j].movie = m
    BY <1>6, <1>18, <2>2, <2>4 DEF Carries
  <2>. QED  BY <1>18, <2>3, <2>4 DEF Carries
<1>19. ASSUME pc'[Root] \notin Early, NEW m \in Hit(input, req)
       PROVE  \E j \in 0..(count - 1) : Carries(j, m)'
  <2>1. pc[Root] \notin Early
    BY <1>3, <1>6, <1>19, RootIsNoHalf DEF Same
  <2>2. PICK j \in 0..(count - 1) : Carries(j, m)
    BY <2>1 DEF Standing, Kept
  <2>. WITNESS j \in 0..(count - 1)
  <2>. QED  BY <1>4, <1>17, <1>18, <2>2
<1>20. Placed'
  BY <1>10, <1>11 DEF Placed
<1>21. Kept'
  BY <1>1, <1>6, <1>13, <1>19 DEF Kept
<1>. QED  BY <1>8, <1>9, <1>20, <1>21 DEF Does

-----------------------------------------------------------------------------
(* main.                                                                   *)

\* Nothing changes that the rest of the invariant is about.
LEMMA Stays ==
  ASSUME Standing, UNCHANGED <<input, shared, piece, pc, i, lstart, rstart, tmp>>
  PROVE  HasRead' /\ Placed' /\ Kept'
<1>1. count' = count /\ req' = req
  BY DEF count, req
<1>2. \A n \in Node : PlacedAt(n)' <=> PlacedAt(n)
  BY <1>1 DEF PlacedAt, Merging, Middle, LeftHalf
<1>3. \A n \in Node : \A k : /\ Taken(n, k)' <=> Taken(n, k)
                             /\ Copying(n, k)' <=> Copying(n, k)
                             /\ InArray(n, k)' <=> InArray(n, k)
  BY DEF Taken, Copying, InArray, Middle, LeftHalf, Within
<1>4. \A k, m : Carries(k, m)' <=> Carries(k, m)
  BY <1>3 DEF Carries
<1>5. HasRead'
  BY <1>1 DEF Standing, HasRead
<1>6. Placed'
  BY <1>2 DEF Standing, Placed
<1>7. Kept'
  BY <1>1, <1>3, <1>4 DEF Standing, Kept
<1>. QED  BY <1>5, <1>6, <1>7

LEMMA InitializeDoes ==
  ASSUME Standing, Initialize
  PROVE  Does(Root)
<1>1. /\ pc[Root] = "initialize" /\ Root \in Node
      /\ UNCHANGED <<input, shared, piece, i, lstart, rstart, tmp, forked, file, starved>>
  BY RootIsNoHalf DEF Initialize
<1>2. \A n \in Node : n # Root => pc[n] = "idle"
  BY <1>1 DEF Standing, IInv, MainFirst
<1>3. CASE Loads(input) /\ input.requests # <<>>
  <2>1. pc' = [pc EXCEPT ![Root] = "filter"] /\ crashed' = crashed
    BY <1>3 DEF Initialize
  <2>2. pc'[Root] = "filter" /\ \A n \in Node : n # Root => pc'[n] = "idle"
    BY <1>1, <1>2, <2>1, TypesNow
  <2>3. TypeOK'
    <3>1. "filter" \in State
      BY DEF State
    <3>2. pc' \in [Node -> State]
      BY <2>1, <3>1, TypesNow
    <3>. QED  BY <1>1, <2>1, <3>2, TypesNow, Types
  <2>4. HasRead'
    BY <1>1, <1>3, <2>2 DEF HasRead, Early
  <2>5. \A n \in Node : pc[n] \in Early /\ pc'[n] \in Early
    BY <1>1, <1>2, <2>2 DEF Early
  <2>6. Placed'
    <3>1. \A n \in Node : tmp'[n] = <<>>
      BY <1>1, <2>5 DEF Standing, Placed, PlacedAt
    <3>. QED  BY <2>5, <3>1 DEF Placed, PlacedAt, Early
  <2>7. Kept'
    BY <1>1, <2>5 DEF Kept, Taken, Early
  <2>. QED  BY <2>3, <2>4, <2>6, <2>7 DEF Does
<1>4. CASE ~(Loads(input) /\ input.requests # <<>>)
  <2>1. crashed' = TRUE /\ pc' = pc
    BY <1>4 DEF Initialize
  <2>2. TypeOK'
    BY <1>1, <2>1, TypesNow, Types
  <2>. QED  BY <1>1, <2>1, <2>2, Stays DEF Does
<1>. QED  BY <1>3, <1>4

LEMMA FilterDoes ==
  ASSUME Standing, Filter
  PROVE  Does(Root)
<1>. DEFINE all == [start |-> 0, end |-> count - 1, level |-> 0]
<1>1. /\ pc[Root] = "filter" /\ Root \in Node /\ pc' = [pc EXCEPT ![Root] = "start"]
      /\ UNCHANGED <<input, i, lstart, rstart, tmp, forked, file, crashed, starved>>
  BY RootIsNoHalf DEF Filter
<1>2. PICK rounding \in Roundings(input, req) :
        /\ shared' = [s \in Slot |-> IF s < Len(Matches(input, req, rounding))
                                     THEN Matches(input, req, rounding)[s + 1] ELSE shared[s]]
        /\ piece' = [piece EXCEPT ![Root] = all]
  BY DEF Filter
<1>. SUFFICES ASSUME NEW c, c = count, NEW w, w = Matches(input, req, rounding)
     PROVE  Does(Root)
  OBVIOUS
<1>3. /\ c \in Nat /\ c <= MAX_MOVIES /\ Loads(input) /\ MAX_MOVIES \in Nat
      /\ \A k \in 0..(c - 1) : k \in Slot
  BY <1>1, CountFits, LimitAssumption DEF Standing
<1>4. input \in Files /\ c = Cardinality(Hit(input, req))
  BY SortAssumption DEF Standing, TypeOK, count
<1>5. /\ Len(w) = c /\ \A k \in 1..c : w[k] \in Entry
      /\ \A m \in Hit(input, req) : \E k \in 1..c : w[k].movie = m
  BY <1>3, <1>4, MatchesAll
<1>6. \A s \in Slot : shared'[s] = IF s < c THEN w[s + 1] ELSE shared[s]
  BY <1>2, <1>5
<1>7. shared' \in [Slot -> Entry]
  <2>1. ASSUME NEW s \in Slot PROVE (IF s < c THEN w[s + 1] ELSE shared[s]) \in Entry
    <3>1. CASE s < c
      <4>1. s \in Int /\ 0 <= s
        BY <1>3 DEF Slot
      <4>2. s + 1 \in 1..c
        BY <1>3, <3>1, <4>1
      <4>. QED  BY <1>5, <3>1, <4>2
    <3>2. CASE ~(s < c)
      BY <3>2, TypesNow
    <3>. QED  BY <3>1, <3>2
  <2>. QED  BY <1>2, <1>5, <2>1
<1>8. all \in Bounded
  <2>1. c - 1 \in -1..(MAX_MOVIES - 1)
    BY <1>3
  <2>2. 0 \in 0..MAX_MOVIES /\ 0 \in 0..(MaxLevel + 1)
    BY <1>3, SortAssumption
  <2>. QED  BY <2>1, <2>2 DEF Bounded
<1>9. pc'[Root] = "start" /\ piece'[Root] = all /\ count' = count /\ req' = req
  BY <1>1, <1>2, TypesNow DEF count, req
<1>10. \A n \in Node : n # Root => pc'[n] = "idle"
  <2>1. \A n \in Node : n # Root => pc[n] = "idle"
    BY <1>1 DEF Standing, IInv, MainFirst
  <2>. QED  BY <1>1, <2>1, TypesNow
<1>11. TypeOK'
  <2>1. "start" \in State
    BY DEF State
  <2>2. pc' \in [Node -> State] /\ piece' \in [Node -> Bounded]
    BY <1>1, <1>2, <1>8, <2>1, TypesNow
  <2>. QED  BY <1>1, <1>7, <2>2, TypesNow, Types
<1>12. HasRead'
  BY <1>1, <1>3, <1>9 DEF HasRead
<1>13. Placed'
  <2>1. \A n \in Node : tmp'[n] = <<>>
    <3>1. \A n \in Node : pc[n] \in Early
      BY <1>1 DEF Standing, IInv, MainFirst, Early
    <3>. QED  BY <1>1, <3>1 DEF Standing, Placed, PlacedAt
  <2>2. 0 <= 0 /\ c - 1 < c
    BY <1>3
  <2>3. PlacedAt(Root)'
    <3>1. piece'[Root].start = 0 /\ piece'[Root].end = c - 1 /\ count' = c
      BY <1>9
    <3>2. tmp'[Root] = <<>>
      BY <1>1, <2>1
    <3>3. 0 <= piece'[Root].start /\ piece'[Root].end < count'
      BY <2>2, <3>1
    <3>. QED  BY <1>9, <3>2, <3>3 DEF PlacedAt
  <2>4. ASSUME NEW n \in Node, n # Root PROVE PlacedAt(n)'
    BY <1>10, <2>1, <2>4 DEF PlacedAt, Early
  <2>. QED  BY <2>3, <2>4 DEF Placed
<1>14. \A n \in Node : \A k : ~Taken(n, k)' /\ ~Copying(n, k)'
  BY <1>9, <1>10 DEF Taken, Copying
<1>15. ASSUME NEW m \in Hit(input, req) PROVE \E k \in 0..(c - 1) : Carries(k, m)'
  <2>1. PICK g \in 1..c : w[g].movie = m
    BY <1>5
  <2>2. PICK k \in Int : k = g - 1
    OBVIOUS
  <2>3. k \in 0..(c - 1) /\ k < c /\ k + 1 = g
    <3>1. g \in Int /\ 1 <= g /\ g <= c
      BY <1>3
    <3>2. 0 <= k /\ k <= c - 1
      BY <1>3, <2>2, <3>1
    <3>3. k < c /\ k + 1 = g
      BY <1>3, <2>2, <3>1
    <3>4. c \in Int
      BY <1>3
    <3>5. k \in 0..(c - 1)
      BY <3>2, <3>4
    <3>. QED  BY <3>3, <3>5
  <2>. k \in 0..(c - 1)
    BY <2>3
  <2>. WITNESS k \in 0..(c - 1)
  <2>4. shared'[k].movie = m
    BY <1>3, <1>6, <2>1, <2>3
  <2>. QED  BY <1>14, <2>4 DEF Carries
<1>16. Kept'
  BY <1>1, <1>9, <1>14, <1>15 DEF Kept
<1>. QED  BY <1>11, <1>12, <1>13, <1>16 DEF Does

\* Every process but main was created by another.
LEMMA Parent ==
  ASSUME NEW x \in Node, x # Root
  PROVE  \E p \in Inner : Half(x, p) /\ Len(p) < Len(x)
<1>1. x \in Seq({0, 1}) /\ Len(x) <= MaxLevel + 1 /\ x # <<>>
  BY NodeSeq DEF Root
<1>2. PICK p \in Seq({0, 1}), a \in {0, 1} : Append(p, a) = x /\ Len(x) = Len(p) + 1
  BY <1>1, WayUp
<1>3. Len(p) \in Nat /\ Len(p) <= MaxLevel /\ Len(p) < Len(x)
  BY <1>1, <1>2, SortAssumption
<1>4. p \in Inner
  BY <1>2, <1>3, NodeSeq, SortAssumption DEF Inner
<1>5. Half(x, p)
  BY <1>2 DEF Half, Left, Right
<1>. QED  BY <1>3, <1>4, <1>5

\* When main is ready to write all other processes have ended, or were never
\* created: the topmost one of those that work would have a parent that does not.
LEMMA AllDone ==
  ASSUME IInv, pc[Root] = "output"
  PROVE  \A n \in Node : pc[n] \in Absent \cup {"output"}
<1>. DEFINE Active == {n \in Node : pc[n] \notin Absent \cup {"output"}}
            Depths == {Len(n) : n \in Active}
<1>. SUFFICES ASSUME Active # {} PROVE FALSE
  OBVIOUS
<1>1. Depths \subseteq Nat /\ Depths # {}
  <2>1. \A n \in Node : Len(n) \in Nat
    BY NodeSeq
  <2>. QED  BY <2>1
<1>2. PICK d \in Depths : \A e \in Depths : d <= e
  BY <1>1, LeastNat
<1>3. PICK x \in Active : Len(x) = d
  OBVIOUS
<1>4. PICK p \in Inner : Half(x, p) /\ Len(p) < Len(x)
  BY Parent
<1>5. p \in Node /\ Len(p) \in Nat /\ Len(x) \in Nat
  BY <1>4, NodeSeq DEF Inner
<1>6. p \notin Active
  <2>. SUFFICES ASSUME p \in Active PROVE FALSE
    OBVIOUS
  <2>1. d <= Len(p)
    BY <1>2
  <2>. QED  BY <1>3, <1>4, <1>5, <2>1
<1>7. pc[p] \in Absent \cup {"output"}
  BY <1>5, <1>6
<1>8. pc[Left(p)] \in Absent /\ pc[Right(p)] \in Absent
  BY <1>4, <1>7 DEF IInv, Forks, Absent, Waiting
<1>. QED  BY <1>4, <1>8 DEF Half

\* main writes all that matches.
LEMMA OutputDoes ==
  ASSUME Standing, Output
  PROVE  Does(Root) /\ AnswerComplete'
<1>. SUFFICES ASSUME NEW c, c = count, NEW a, a = [s \in 1..c |-> shared[s - 1]]
     PROVE  Does(Root) /\ AnswerComplete'
  OBVIOUS
<1>1. /\ pc[Root] = "output" /\ Root \in Node /\ pc' = [pc EXCEPT ![Root] = "exited"]
      /\ UNCHANGED <<input, shared, piece, i, lstart, rstart, tmp, forked, crashed, starved>>
  BY RootIsNoHalf DEF Output
<1>2. pc[Root] \notin Early \cup {"copy"}
  BY <1>1 DEF Early
<1>3. c \in Nat /\ \A k \in 0..(c - 1) : k \in Slot
  BY <1>1, <1>2, CountFits DEF Standing
<1>4. file' = a
  <2>1. piece[Root].end = c - 1
    BY <1>2 DEF Standing, HasRead
  <2>2. (c - 1) + 1 = c
    BY <1>3
  <2>. QED  BY <2>1, <2>2 DEF Output
<1>5. a \in Seq(Entry) /\ Len(a) = c /\ \A g \in 1..c : a[g] = shared[g - 1]
  <2>1. \A g \in 1..c : g - 1 \in 0..(c - 1)
    BY <1>3
  <2>2. \A g \in 1..c : shared[g - 1] \in Entry
    BY <1>3, <2>1, TypesNow
  <2>. QED  BY <1>3, <2>2
<1>6. pc'[Root] = "exited" /\ \A n \in Node : n # Root => pc'[n] = pc[n]
  BY <1>1, TypesNow
<1>7. TypeOK'
  <2>1. pc' \in [Node -> State]
    <3>1. "exited" \in State
      BY DEF State
    <3>. QED  BY <1>1, <3>1, TypesNow
  <2>. QED  BY <1>1, <1>4, <1>5, <2>1 DEF Standing, TypeOK, State
<1>8. PlacedAt(Root)'
  <2>1. PlacedAt(Root) /\ count' = count
    BY <1>1 DEF Standing, Placed, count, req
  <2>. QED  BY <1>1, <1>2, <1>6, <2>1 DEF PlacedAt, Early, Waiting
<1>9. HasRead' /\ Placed' /\ Kept'
  <2>1. \A k : ~Taken(Root, k)' /\ ~Copying(Root, k)'
    BY <1>6 DEF Taken, Copying
  <2>2. \A n \in Node : n # Root => Same(n)
    BY <1>1, <1>6 DEF Same
  <2>3. pc'[Root] \notin Early /\ pc'[Root] # "copy" /\ piece'[Root] = piece[Root]
    BY <1>1, <1>6 DEF Early
  <2>. QED  BY <1>1, <1>2, <1>8, <2>1, <2>2, <2>3, Quietly
<1>10. ASSUME NEW m \in Hit(input, req) PROVE \E g \in 1..Len(a) : a[g].movie = m
  <2>1. PICK k \in 0..(c - 1) : Carries(k, m)
    BY <1>2 DEF Standing, Kept
  <2>2. \A n \in Node : ~Copying(n, k)
    BY <1>1, AllDone DEF Standing, Copying, Absent
  <2>3. shared[k].movie = m
    BY <2>1, <2>2 DEF Carries
  <2>4. PICK g \in Int : g = k + 1
    OBVIOUS
  <2>5. g \in 1..c /\ g - 1 = k
    BY <1>3, <2>4
  <2>. g \in 1..Len(a)
    BY <1>5, <2>5
  <2>. WITNESS g \in 1..Len(a)
  <2>. QED  BY <1>5, <2>3, <2>5
<1>11. IsComplete(a, input, req)
  <2>1. input \in Files /\ c = Cardinality(Hit(input, req))
    BY SortAssumption DEF Standing, TypeOK, count
  <2>. QED  BY <1>5, <1>10, <2>1, AnswerOfAll
<1>12. req' = req
  BY <1>1 DEF req
<1>. QED  BY <1>1, <1>4, <1>7, <1>9, <1>11, <1>12 DEF Does, AnswerComplete

-----------------------------------------------------------------------------
(* The theorems.                                                           *)

CInv == Standing /\ AnswerComplete

LEMMA CompleteInit == Init => CInv
<1>. SUFFICES ASSUME Init PROVE CInv
  OBVIOUS
<1>1. IInv /\ Root \in Node
  BY InvInit, RootIsNoHalf
<1>2. pc[Root] = "initialize" /\ \A n \in Node : pc[n] \in {"initialize", "idle"} /\ tmp[n] = <<>>
  BY <1>1 DEF Init
<1>3. \A n \in Node : pc[n] \in Early
  BY <1>2 DEF Early
<1>4. TypeOK
  <2>1. 0 \in 0..MAX_MOVIES /\ 0 \in -1..(MAX_MOVIES - 1) /\ 0 \in 0..(MaxLevel + 1)
    BY LimitAssumption, SortAssumption
  <2>2. NoEntry \in Entry /\ NoFile \in Seq(Entry)
    BY <2>1 DEF NoEntry, Entry, NoFile
  <2>3. piece \in [Node -> [start : 0..MAX_MOVIES, end : -1..(MAX_MOVIES - 1), level : 0..(MaxLevel + 1)]]
    <3>1. NoPiece \in [start : 0..MAX_MOVIES, end : -1..(MAX_MOVIES - 1), level : 0..(MaxLevel + 1)]
      BY <2>1 DEF NoPiece
    <3>2. piece = [n \in Node |-> NoPiece]
      BY DEF Init
    <3>. QED  BY <3>1, <3>2
  <2>4. pc \in [Node -> {"idle", "initialize", "filter", "start", "fork", "wait", "merge",
                       "nothing", "fetch", "sort", "copy", "output", "exited"}]
    BY DEF Init
  <2>5. shared \in [Slot -> Entry] /\ input \in Input /\ file \in Seq(Entry)
    BY <2>2 DEF Init
  <2>6. /\ i \in [Node -> 0..MAX_MOVIES] /\ lstart \in [Node -> 0..MAX_MOVIES]
        /\ rstart \in [Node -> 0..MAX_MOVIES]
    BY <2>1 DEF Init
  <2>7. tmp \in [Node -> Seq(Entry)] /\ forked \in [Node -> SUBSET Node]
    BY DEF Init
  <2>8. crashed \in BOOLEAN /\ starved \in BOOLEAN
    BY DEF Init
  <2>. QED  BY <2>3, <2>4, <2>5, <2>6, <2>7, <2>8 DEF TypeOK
<1>5. HasRead
  BY <1>2 DEF HasRead, Early
<1>6. Placed
  BY <1>2, <1>3 DEF Placed, PlacedAt, Early
<1>7. Kept
  BY <1>1, <1>3 DEF Kept, Taken, Early
<1>8. AnswerComplete
  BY DEF Init, AnswerComplete
<1>. QED  BY <1>1, <1>4, <1>5, <1>6, <1>7, <1>8 DEF CInv, Standing

LEMMA StepDoes ==
  ASSUME Standing, NEW n \in Node, pmerge(n)
  PROVE  Does(n) /\ UNCHANGED <<input, file>>
<1>1. CASE ForkLeft(n)
  <2>1. /\ pc[n] = "start" /\ IsLarge(piece[n]) /\ Fork(n, Left(n), LeftHalf(piece[n]), "fork")
        /\ UNCHANGED <<input, shared, i, lstart, rstart, tmp, file, crashed>>
    BY <1>1 DEF ForkLeft
  <2>2. n \in Inner
    <3>1. piece[n].level = Len(n) /\ Len(n) \in Nat
      BY <2>1, NodeSeq DEF Standing, IInv, Levels
    <3>. QED  BY <2>1, <3>1, SortAssumption DEF IsLarge, Inner
  <2>3. Left(n) \in Node /\ Half(Left(n), n) /\ pc[Left(n)] = "idle" /\ "fork" \in Waiting
    BY <2>1, <2>2, Children DEF Half, Standing, IInv, Forks, Waiting
  <2>. QED  BY <2>1, <2>2, <2>3, ForkDoes
<1>2. CASE ForkRight(n)
  <2>1. /\ pc[n] = "fork" /\ Fork(n, Right(n), RightHalf(piece[n]), "wait")
        /\ UNCHANGED <<input, shared, i, lstart, rstart, tmp, file, crashed>>
    BY <1>2 DEF ForkRight
  <2>2. n \in Inner /\ IsLarge(piece[n])
    BY <2>1 DEF Standing, IInv, Levels, NonEmpty, Waiting
  <2>3. Right(n) \in Node /\ Half(Right(n), n) /\ pc[Right(n)] = "idle" /\ "wait" \in Waiting
    BY <2>1, <2>2, Children DEF Half, Standing, IInv, Forks, Waiting
  <2>. QED  BY <2>1, <2>2, <2>3, ForkDoes
<1>3. CASE Wait(n)
  BY <1>3, WaitDoes DEF Wait
<1>4. CASE Merge(n)
  BY <1>4, MergeDoes DEF Merge
<1>5. CASE Small(n)
  BY <1>5, SmallDoes DEF Small
<1>6. CASE Fetch(n)
  BY <1>6, FetchDoes DEF Fetch
<1>7. CASE Sort(n)
  BY <1>7, SortDoes DEF Sort
<1>8. CASE SortNothing(n)
  BY <1>8, SortNothingDoes DEF SortNothing
<1>9. CASE Copy(n)
  BY <1>9, CopyDoes DEF Copy
<1>. QED  BY <1>1, <1>2, <1>3, <1>4, <1>5, <1>6, <1>7, <1>8, <1>9 DEF pmerge

LEMMA CompleteNext == CInv /\ [Next]_vars => CInv'
<1>. SUFFICES ASSUME CInv, [Next]_vars PROVE CInv'
  OBVIOUS
<1>1. IInv' /\ Standing
  BY InvNext DEF CInv, Standing
<1>2. UNCHANGED <<input, file>> => AnswerComplete'
  BY DEF CInv, AnswerComplete, req
<1>3. CASE UNCHANGED vars
  <2>1. TypeOK'
    BY <1>1, <1>3 DEF Standing, TypeOK, vars
  <2>. QED  BY <1>1, <1>2, <1>3, <2>1, Stays DEF CInv, Standing, vars
<1>4. CASE Initialize
  BY <1>1, <1>2, <1>4, InitializeDoes DEF Initialize, Does, CInv, Standing
<1>5. CASE Filter
  BY <1>1, <1>2, <1>5, FilterDoes DEF Filter, Does, CInv, Standing
<1>6. ASSUME NEW n \in Node, pmerge(n) PROVE CInv'
  BY <1>1, <1>2, <1>6, StepDoes DEF Does, CInv, Standing
<1>7. CASE Output
  BY <1>1, <1>7, OutputDoes DEF Does, CInv, Standing
<1>. QED  BY <1>3, <1>4, <1>5, <1>6, <1>7 DEF Next

\* The indices of every process stay within the tables, its piece and its level
\* within their bounds, whatever the files hold.
THEOREM TypeCorrect == Spec => []TypeOK
<1>1. CInv => TypeOK
  BY DEF CInv, Standing
<1>. QED  BY <1>1, CompleteInit, CompleteNext, PTL DEF Spec

\* The answer that main writes lists the movies that match, each of them once,
\* whatever forks fail and whatever children die of a grade below 0.
THEOREM NothingIsLost == Spec => []AnswerComplete
<1>1. CInv => AnswerComplete
  BY DEF CInv
<1>. QED  BY <1>1, CompleteInit, CompleteNext, PTL DEF Spec

-----------------------------------------------------------------------------
(* The answer is sorted.  The invariant, if all processes were created and *)
(* no grade is below 0: what the slots and the array of a process look     *)
(* like at each point of pmerge, and that all entries come from one        *)
(* rounding of the grades.                                                 *)

\* Is a parent waiting for n?
Due(n) == \E p \in Inner : pc[p] \in Waiting /\ Half(n, p)

SortedAt(n) ==
  /\ pc[n] \in {"start", "fetch"} => Unmarked(shared, piece[n].start, piece[n].end)
  /\ pc[n] = "fetch" => Unmarked(tmp[n], 1, Len(tmp[n]))
  /\ pc[n] = "sort" => SortedTo(tmp[n], 1, i[n], Len(tmp[n]))
  /\ pc[n] = "nothing" => piece[n].end < piece[n].start
  /\ pc[n] \in Waiting => pc[Left(n)] # "idle"
  /\ pc[n] = "fork" => Unmarked(shared, Middle(n) + 1, piece[n].end)
  /\ pc[n] = "wait" => pc[Right(n)] # "idle"
  /\ pc[n] = "merge" =>
       MergedTo(shared, tmp[n], lstart[n], Middle(n), rstart[n], piece[n].end)
  /\ pc[n] = "copy" =>
       /\ Ordered(tmp[n], 1, Len(tmp[n])) /\ Marked(tmp[n], 1, Len(tmp[n]))
       /\ \A k \in piece[n].start..(i[n] - 1) : shared[k] = tmp[n][k - piece[n].start + 1]
  /\ pc[n] = "output" \/ (pc[n] = "exited" /\ Due(n)) =>
       /\ Ordered(shared, piece[n].start, piece[n].end)
       /\ Marked(shared, piece[n].start, piece[n].end)

\* The entries the processes work with.
Held ==
  {shared[k] : k \in 0..(count - 1)} \cup UNION {{tmp[n][j] : j \in 1..Len(tmp[n])} : n \in Node}

\* main's filter made them, all with one rounding.
Made == \E rounding \in Roundings(input, req) : \A x \in Held : Of(input, req, rounding, x)

Clear == (\A n \in Node : SortedAt(n)) /\ piece[Root].start = 0 /\ Made

\* main goes on when there is a request.
AllSorted ==
  pc[Root] # "initialize" =>
    /\ input.requests # <<>>
    /\ pc[Root] = "filter" \/ starved \/ MayBeNegative(input, req) \/ Clear

-----------------------------------------------------------------------------
(* What a step leaves sorted.                                              *)

\* Slot k has to look as the invariant says of x.
Claims(x, k) ==
  \/ Has(x, k)
  \/ pc[x] = "fork" /\ Has(Right(x), k)
  \/ pc[x] = "output" /\ Within(k, piece[x])

LEMMA ClaimsInside ==
  ASSUME Standing, NEW x \in Node, NEW k \in Int, Claims(x, k)
  PROVE  k \in Slot /\ k \in 0..(count - 1)
<1>1. ASSUME NEW n \in Node, pc[n] \notin Early, Within(k, piece[n])
      PROVE  k \in Slot /\ k \in 0..(count - 1)
  <2>1. piece[n].start <= piece[n].end
    BY <1>1, Knows DEF Within
  <2>. QED  BY <1>1, <2>1, PieceFits
<1>2. ASSUME NEW n, Has(n, k), n \in Node PROVE k \in Slot /\ k \in 0..(count - 1)
  <2>1. CASE pc[n] \in Working /\ Within(k, piece[n])
    BY <1>1, <1>2, <2>1 DEF Working, Early
  <2>2. CASE \E p \in Inner : pc[p] \in Waiting /\ Half(n, p) /\ Within(k, HalfOf(n, p))
    <3>1. PICK p \in Inner : pc[p] \in Waiting /\ Half(n, p) /\ Within(k, HalfOf(n, p))
      BY <2>2
    <3>2. p \in Node /\ IsLarge(piece[p]) /\ pc[p] \notin Early
      BY <3>1, Children DEF Standing, IInv, NonEmpty, Waiting, Early
    <3>3. Within(k, piece[p])
      BY <3>1, <3>2, Halved DEF Half, Standing, IInv
    <3>. QED  BY <1>1, <3>2, <3>3
  <2>. QED  BY <1>2, <2>1, <2>2 DEF Has
<1>3. CASE pc[x] = "fork" /\ Has(Right(x), k)
  <2>1. Right(x) \in Node
    BY <1>3, Children DEF Standing, IInv, Levels, Waiting
  <2>. QED  BY <1>2, <1>3, <2>1
<1>4. CASE pc[x] = "output" /\ Within(k, piece[x])
  BY <1>1, <1>4 DEF Early
<1>. QED  BY <1>2, <1>3, <1>4 DEF Claims

\* No other process works on such a slot.
LEMMA ClaimsApart ==
  ASSUME Standing, NEW n \in Node, pc[n] \in Working, NEW x \in Node, x # n,
         NEW k \in Int, Within(k, piece[n])
  PROVE  ~Claims(x, k)
<1>1. Has(n, k)
  BY DEF Has
<1>2. ~Has(x, k)
  BY <1>1 DEF Standing, IInv, Disjoint
<1>3. ASSUME pc[x] = "fork" PROVE ~Has(Right(x), k)
  <2>1. x \in Inner /\ Right(x) \in Node /\ pc[Right(x)] = "idle"
    BY <1>3, Children DEF Standing, IInv, Levels, Forks, Waiting
  <2>2. Right(x) # n
    BY <2>1 DEF Working
  <2>. QED  BY <1>1, <2>1, <2>2 DEF Standing, IInv, Disjoint
<1>4. pc[x] # "output"
  <2>. SUFFICES ASSUME pc[x] = "output" PROVE FALSE
    OBVIOUS
  <2>1. x = Root
    BY DEF Standing, IInv, Levels
  <2>2. pc[n] \in Absent \cup {"output"}
    BY <2>1, AllDone DEF Standing
  <2>. QED  BY <2>2 DEF Absent, Working
<1>. QED  BY <1>2, <1>3, <1>4 DEF Claims

\* What the right child of a forking process is going to get.
LEMMA RightClaimed ==
  ASSUME Standing, NEW n \in Node, pc[n] = "fork"
  PROVE  \A k \in (Middle(n) + 1)..piece[n].end : Claims(n, k)
<1>1. n \in Inner /\ Right(n) \in Node /\ pc[Right(n)] = "idle" /\ pc[n] \in Waiting /\ Left(n) # Right(n)
  BY Children DEF Standing, IInv, Levels, Forks, Waiting
<1>2. HalfOf(Right(n), n).start = Middle(n) + 1 /\ HalfOf(Right(n), n).end = piece[n].end
  BY <1>1 DEF HalfOf, RightHalf, Middle, LeftHalf
<1>3. Middle(n) \in Int /\ piece[n].end \in Int
  BY Knows
<1>4. ASSUME NEW k \in (Middle(n) + 1)..piece[n].end PROVE Within(k, HalfOf(Right(n), n))
  BY <1>2, <1>3 DEF Within
<1>. QED  BY <1>1, <1>4 DEF Claims, Has, Half, Absent

LEMMA SortedElsewhere ==
  ASSUME Standing, NEW x \in Node, SortedAt(x), Same(x),
         pc[x] \in Waiting => /\ pc[Left(x)] # "idle" => pc'[Left(x)] # "idle"
                              /\ pc[Right(x)] # "idle" => pc'[Right(x)] # "idle",
         pc[x] = "exited" /\ Due(x)' => Due(x),
         \A k \in Int : Claims(x, k) => shared'[k] = shared[k]
  PROVE  SortedAt(x)'
<1>. DEFINE s == piece[x].start
            e == piece[x].end
            m == Middle(x)
<1>1. /\ s \in Int /\ e \in Int /\ m \in Int /\ i[x] \in Int /\ lstart[x] \in Int /\ rstart[x] \in Int
      /\ PlacedAt(x)
  BY Knows DEF Standing, Placed
<1>2. /\ pc'[x] = pc[x] /\ tmp'[x] = tmp[x] /\ i'[x] = i[x]
      /\ lstart'[x] = lstart[x] /\ rstart'[x] = rstart[x] /\ piece'[x] = piece[x] /\ Middle(x)' = m
  BY DEF Same, Middle
<1>3. ASSUME pc[x] \in Working \cup {"output"} \/ (pc[x] = "exited" /\ Due(x))
      PROVE  \A k \in s..e : shared'[k] = shared[k]
  <2>. SUFFICES ASSUME NEW k \in s..e PROVE Claims(x, k)
    BY <1>1
  <2>1. k \in Int /\ Within(k, piece[x])
    BY <1>1 DEF Within
  <2>2. CASE pc[x] \in Working \cup {"output"}
    BY <2>1, <2>2 DEF Claims, Has
  <2>3. CASE pc[x] = "exited" /\ Due(x)
    <3>1. PICK p \in Inner : pc[p] \in Waiting /\ Half(x, p)
      BY <2>3 DEF Due
    <3>2. piece[x] = HalfOf(x, p)
      BY <2>3, <3>1 DEF Standing, IInv, Forks, Half
    <3>. QED  BY <2>1, <2>3, <3>1, <3>2 DEF Claims, Has, Absent
  <2>. QED  BY <1>3, <2>2, <2>3
<1>. HIDE DEF s, e, m
<1>4. pc[x] \in {"start", "fetch"} => Unmarked(shared', s, e)
  BY <1>3 DEF SortedAt, Unmarked, Working, s, e
<1>5. pc[x] = "fork" => Unmarked(shared', m + 1, e)
  <2>. SUFFICES ASSUME pc[x] = "fork", NEW k \in (m + 1)..e PROVE shared'[k].secrets = 0
    BY DEF Unmarked
  <2>1. shared'[k] = shared[k]
    BY <1>1, RightClaimed DEF m, e
  <2>. QED  BY <2>1 DEF SortedAt, Unmarked, m, e
<1>6. pc[x] = "merge" => MergedTo(shared', tmp[x], lstart[x], m, rstart[x], e)
  <2>. SUFFICES ASSUME pc[x] = "merge" PROVE MergedTo(shared', tmp[x], lstart[x], m, rstart[x], e)
    OBVIOUS
  <2>1. s <= lstart[x] /\ lstart[x] <= m + 1 /\ m < rstart[x] /\ rstart[x] <= e + 1
    BY <1>1 DEF PlacedAt, Merging, s, e, m
  <2>2. s <= rstart[x] /\ m <= e
    BY <1>1, <2>1
  <2>3. lstart[x]..m \subseteq s..e /\ rstart[x]..e \subseteq s..e
    BY <1>1, <2>1, <2>2
  <2>4. \A k \in s..e : shared'[k] = shared[k]
    BY <1>3 DEF Working
  <2>5. MergedTo(shared, tmp[x], lstart[x], m, rstart[x], e)
    BY DEF SortedAt, m, e
  <2>. QED  BY <2>3, <2>4, <2>5 DEF MergedTo, Ordered, Marked
<1>7. pc[x] = "copy" => \A k \in s..(i[x] - 1) : shared'[k] = tmp[x][k - s + 1]
  <2>. SUFFICES ASSUME pc[x] = "copy", NEW k \in s..(i[x] - 1) PROVE shared'[k] = tmp[x][k - s + 1]
    OBVIOUS
  <2>1. s <= i[x] /\ i[x] <= e
    BY <1>1 DEF PlacedAt, s, e
  <2>2. k \in s..e
    BY <1>1, <2>1
  <2>3. shared'[k] = shared[k]
    BY <1>3, <2>2 DEF Working
  <2>. QED  BY <2>3 DEF SortedAt, s
<1>8. pc[x] = "output" \/ (pc[x] = "exited" /\ Due(x)) => Ordered(shared', s, e) /\ Marked(shared', s, e)
  BY <1>3 DEF SortedAt, Ordered, Marked, s, e
<1>9. /\ pc[x] = "fetch" => Unmarked(tmp[x], 1, Len(tmp[x]))
      /\ pc[x] = "sort" => SortedTo(tmp[x], 1, i[x], Len(tmp[x]))
      /\ pc[x] = "nothing" => e < s
      /\ pc[x] = "copy" => Ordered(tmp[x], 1, Len(tmp[x])) /\ Marked(tmp[x], 1, Len(tmp[x]))
  BY DEF SortedAt, s, e
<1>10. /\ pc[x] \in Waiting => pc'[Left(x)] # "idle"
       /\ pc[x] = "wait" => pc'[Right(x)] # "idle"
  BY DEF SortedAt, Waiting
<1>11. pc'[x] = "output" \/ (pc'[x] = "exited" /\ Due(x)') => Ordered(shared', s, e) /\ Marked(shared', s, e)
  BY <1>2, <1>8
<1>12. piece'[x].start = s /\ piece'[x].end = e
  BY <1>2 DEF s, e
<1>. HIDE DEF s, e, m
<1>. QED  BY <1>2, <1>4, <1>5, <1>6, <1>7, <1>9, <1>10, <1>11, <1>12 DEF SortedAt

\* What is held, one by one.
LEMMA HeldIs ==
  /\ \A x : x \in Held <=> \/ \E k \in 0..(count - 1) : x = shared[k]
                           \/ \E n \in Node : \E j \in 1..Len(tmp[n]) : x = tmp[n][j]
  /\ \A x : x \in Held' <=> \/ \E k \in 0..(count' - 1) : x = shared'[k]
                            \/ \E n \in Node : \E j \in 1..Len(tmp'[n]) : x = tmp'[n][j]
BY DEF Held

\* Entries stay those of the filter when they move and when they are marked.
LEMMA MadeStays ==
  ASSUME input' = input, Made,
         \A x \in Held' : \E y \in Held : x = y \/ x = add_secret(y)
  PROVE  Made'
<1>1. PICK rounding \in Roundings(input, req) : \A x \in Held : Of(input, req, rounding, x)
  BY DEF Made
<1>2. ASSUME NEW x \in Held' PROVE Of(input, req, rounding, x)
  <2>1. PICK y \in Held : x = y \/ x = add_secret(y)
    OBVIOUS
  <2>2. Of(input, req, rounding, y)
    BY <1>1
  <2>3. /\ add_secret(y) \in Entry /\ add_secret(y).movie = y.movie
        /\ add_secret(y).title = y.title /\ add_secret(y).pts = y.pts
    BY <2>2 DEF Of, add_secret, Entry
  <2>. QED  BY <2>1, <2>2, <2>3 DEF Of
<1>3. req' = req
  BY DEF req
<1>. QED  BY <1>2, <1>3 DEF Made

\* A process goes on, and at most creates another.
LEMMA ClearStays ==
  ASSUME Standing, Clear, NEW n \in Node,
         pc[n] \notin Early \cup Absent, pc'[n] \notin Early,
         pc'[n] \in Waiting => pc[n] \in Waiting \cup {"start"},
         \A x \in Node : x # n => Same(x) \/ (Born(x) /\ SortedAt(x)'),
         \/ shared' = shared
         \/ pc[n] \in Working /\ \A k \in Slot : Within(k, piece[n]) \/ shared'[k] = shared[k],
         SortedAt(n)', input' = input, piece'[n] = piece[n],
         \A x \in Held' : \E y \in Held : x = y \/ x = add_secret(y)
  PROVE  Clear'
<1>1. \A x \in Node : pc[x] # "idle" => pc'[x] # "idle"
  BY DEF Same, Born, Early
<1>2. ASSUME NEW x \in Node, x # n, pc[x] = "exited", Due(x)' PROVE Due(x)
  <2>1. PICK p \in Inner : pc'[p] \in Waiting /\ Half(x, p)
    BY <1>2 DEF Due
  <2>2. p \in Node
    BY Children
  <2>3. pc[p] \in Waiting \/ (p = n /\ pc[p] = "start")
    BY <2>1, <2>2 DEF Same, Born, Waiting
  <2>4. pc[p] # "start"
    BY <1>2, <2>1 DEF Standing, IInv, Forks, Half, Waiting
  <2>. QED  BY <2>1, <2>3, <2>4 DEF Due
<1>3. ASSUME NEW x \in Node, x # n, Same(x) PROVE SortedAt(x)'
  <2>1. SortedAt(x)
    BY DEF Clear
  <2>2. ASSUME pc[x] \in Waiting
        PROVE  /\ pc[Left(x)] # "idle" => pc'[Left(x)] # "idle"
               /\ pc[Right(x)] # "idle" => pc'[Right(x)] # "idle"
    <3>1. Left(x) \in Node /\ Right(x) \in Node
      BY <2>2, Children DEF Standing, IInv, Levels
    <3>. QED  BY <1>1, <3>1
  <2>3. ASSUME NEW k \in Int, Claims(x, k) PROVE shared'[k] = shared[k]
    <3>1. k \in Slot
      BY <2>3, ClaimsInside
    <3>2. pc[n] \in Working => ~Within(k, piece[n])
      BY <1>3, <2>3, ClaimsApart
    <3>. QED  BY <3>1, <3>2
  <2>. QED  BY <1>2, <1>3, <2>1, <2>2, <2>3, SortedElsewhere
<1>4. Made'
  BY MadeStays DEF Clear
<1>5. piece'[Root] = piece[Root]
  BY RootIsNoHalf DEF Same, Born
<1>. QED  BY <1>3, <1>4, <1>5 DEF Clear

-----------------------------------------------------------------------------
(* One lemma for each kind of step: what was clear stays clear.            *)

\* The entries after a step of n that leaves the slots alone.
LEMMA HeldByOne ==
  ASSUME UNCHANGED <<input, shared>>, NEW n \in Node, \A x \in Node : x # n => tmp'[x] = tmp[x],
         \A j \in 1..Len(tmp'[n]) : \E y \in Held : tmp'[n][j] = y \/ tmp'[n][j] = add_secret(y)
  PROVE  \A x \in Held' : \E y \in Held : x = y \/ x = add_secret(y)
<1>. SUFFICES ASSUME NEW x \in Held' PROVE \E y \in Held : x = y \/ x = add_secret(y)
  OBVIOUS
<1>1. count' = count
  BY DEF count, req
<1>2. CASE \E k \in 0..(count' - 1) : x = shared'[k]
  BY <1>1, <1>2, HeldIs
<1>3. CASE \E m \in Node : \E j \in 1..Len(tmp'[m]) : x = tmp'[m][j]
  <2>1. PICK m \in Node : \E j \in 1..Len(tmp'[m]) : x = tmp'[m][j]
    BY <1>3
  <2>2. CASE m = n
    BY <2>1, <2>2
  <2>3. CASE m # n
    BY <2>1, <2>3, HeldIs
  <2>. QED  BY <2>2, <2>3
<1>. QED  BY <1>2, <1>3, HeldIs

\* A process changes what it knows itself and goes on with its own piece.
LEMMA AloneClear ==
  ASSUME Standing, Clear, NEW n \in Node, pc[n] \notin Early \cup Absent,
         NEW s \in State \ (Early \cup Waiting), NEW a, NEW b, NEW d, NEW t, Alone(n, s, a, b, d, t),
         UNCHANGED <<input, shared, piece>>, SortedAt(n)',
         \A j \in 1..Len(t) : \E y \in Held : t[j] = y \/ t[j] = add_secret(y)
  PROVE  Clear'
<1>1. pc'[n] = s /\ tmp'[n] = t /\ \A x \in Node : x # n => Same(x) /\ tmp'[x] = tmp[x]
  BY TypesNow DEF Alone, Same
<1>2. \A x \in Held' : \E y \in Held : x = y \/ x = add_secret(y)
  BY <1>1, HeldByOne
<1>. QED  BY <1>1, <1>2, ClearStays

LEMMA SmallClear ==
  ASSUME Standing, Clear, NEW n \in Node, Small(n)
  PROVE  Clear'
<1>. DEFINE s == IF piece[n].start <= piece[n].end THEN "fetch" ELSE "nothing"
<1>1. /\ pc[n] = "start" /\ pc' = [pc EXCEPT ![n] = s] /\ i' = [i EXCEPT ![n] = piece[n].start]
      /\ UNCHANGED <<input, shared, piece, lstart, rstart, tmp>>
  BY DEF Small
<1>2. /\ s \in {"fetch", "nothing"} /\ s \in State \ (Early \cup Waiting)
      /\ s = "nothing" => piece[n].end < piece[n].start
  <2>1. piece[n].start \in Int /\ piece[n].end \in Int
    BY Knows
  <2>. QED  BY <2>1 DEF State, Early, Waiting
<1>. HIDE DEF s
<1>3. Unmarked(shared, piece[n].start, piece[n].end) /\ tmp[n] = <<>> /\ pc'[n] = s
  BY <1>1, TypesNow DEF Clear, SortedAt, Standing, Placed, PlacedAt
<1>4. Unmarked(<<>>, 1, Len(<<>>))
  BY DEF Unmarked
<1>5. SortedAt(n)'
  BY <1>1, <1>2, <1>3, <1>4 DEF SortedAt, Waiting
<1>6. Alone(n, s, piece[n].start, lstart[n], rstart[n], tmp[n])
  BY <1>1, Unchanged DEF Alone
<1>7. pc[n] \notin Early \cup Absent /\ \A j \in 1..Len(tmp[n]) : tmp[n][j] \in Held
  BY <1>1, HeldIs DEF Early, Absent
<1>. QED  BY <1>1, <1>2, <1>5, <1>6, <1>7, AloneClear

LEMMA SortNothingClear ==
  ASSUME Standing, Clear, NEW n \in Node, SortNothing(n)
  PROVE  Clear'
<1>1. /\ pc[n] = "nothing" /\ pc' = [pc EXCEPT ![n] = "output"]
      /\ UNCHANGED <<input, shared, piece, i, lstart, rstart, tmp>>
  BY DEF SortNothing
<1>2. pc'[n] = "output" /\ "output" \in State \ (Early \cup Waiting)
  BY <1>1, TypesNow DEF State, Early, Waiting
<1>3. piece[n].start..piece[n].end = {}
  <2>1. piece[n].start \in Int /\ piece[n].end \in Int /\ piece[n].end < piece[n].start
    BY <1>1, Knows DEF Clear, SortedAt
  <2>. QED  BY <2>1
<1>4. Ordered(shared, piece[n].start, piece[n].end) /\ Marked(shared, piece[n].start, piece[n].end)
  BY <1>3 DEF Ordered, Marked
<1>5. SortedAt(n)'
  BY <1>1, <1>2, <1>4 DEF SortedAt, Waiting
<1>6. Alone(n, "output", i[n], lstart[n], rstart[n], tmp[n])
  BY <1>1, Unchanged DEF Alone
<1>7. pc[n] \notin Early \cup Absent /\ \A j \in 1..Len(tmp[n]) : tmp[n][j] \in Held
  BY <1>1, HeldIs DEF Early, Absent
<1>. QED  BY <1>1, <1>2, <1>5, <1>6, <1>7, AloneClear

\* Both halves are sorted when their processes have exited.
LEMMA WaitClear ==
  ASSUME Standing, Clear, NEW n \in Node, Wait(n)
  PROVE  Clear'
<1>1. /\ pc[n] = "wait" /\ ChildrenEnded(n) /\ pc' = [pc EXCEPT ![n] = "merge"]
      /\ lstart' = [lstart EXCEPT ![n] = piece[n].start]
      /\ rstart' = [rstart EXCEPT ![n] = RightHalf(piece[n]).start]
      /\ UNCHANGED <<input, shared, piece, i, tmp>>
  BY DEF Wait
<1>2. n \in Inner /\ Left(n) \in Node /\ Right(n) \in Node /\ Left(n) # Right(n)
  BY <1>1, Children DEF Standing, IInv, Levels, Waiting
<1>3. ASSUME NEW c \in {Left(n), Right(n)}
      PROVE  /\ Ordered(shared, HalfOf(c, n).start, HalfOf(c, n).end)
             /\ Marked(shared, HalfOf(c, n).start, HalfOf(c, n).end)
  <2>1. pc[c] # "idle" /\ c \in Node
    BY <1>1, <1>2 DEF Clear, SortedAt, Waiting
  <2>2. pc[n] \in Waiting /\ Half(c, n)
    BY <1>1 DEF Waiting, Half
  <2>3. piece[c] = HalfOf(c, n) /\ (pc[c] \notin Absent => c \in forked[n])
    BY <1>2, <2>1, <2>2 DEF Standing, IInv, Forks
  <2>4. pc[c] = "exited"
    BY <1>1, <2>1, <2>3 DEF ChildrenEnded, Absent
  <2>5. Due(c)
    BY <1>2, <2>2 DEF Due
  <2>. QED  BY <2>1, <2>3, <2>4, <2>5 DEF Clear, SortedAt
<1>4. /\ HalfOf(Left(n), n).start = piece[n].start /\ HalfOf(Left(n), n).end = Middle(n)
      /\ HalfOf(Right(n), n).start = RightHalf(piece[n]).start
      /\ HalfOf(Right(n), n).end = piece[n].end
  BY <1>2 DEF HalfOf, LeftHalf, RightHalf, Middle
<1>5. /\ pc'[n] = "merge" /\ lstart'[n] = piece[n].start /\ rstart'[n] = RightHalf(piece[n]).start
      /\ tmp[n] = <<>> /\ Middle(n)' = Middle(n)
  BY <1>1, TypesNow DEF Standing, Placed, PlacedAt, Waiting, Middle
<1>6. MergedTo(shared, <<>>, piece[n].start, Middle(n), RightHalf(piece[n]).start, piece[n].end)
  <2>1. Len(<<>>) = 0 /\ 1..0 = {}
    OBVIOUS
  <2>2. Ordered(<<>>, 1, Len(<<>>)) /\ Marked(<<>>, 1, Len(<<>>))
    BY <2>1 DEF Ordered, Marked
  <2>. QED  BY <1>3, <1>4, <2>1, <2>2 DEF MergedTo
<1>7. SortedAt(n)'
  BY <1>1, <1>5, <1>6 DEF SortedAt, Waiting
<1>8. Alone(n, "merge", i[n], piece[n].start, RightHalf(piece[n]).start, tmp[n])
  BY <1>1, Unchanged DEF Alone
<1>9. /\ pc[n] \notin Early \cup Absent /\ \A j \in 1..Len(tmp[n]) : tmp[n][j] \in Held
      /\ "merge" \in State \ (Early \cup Waiting)
  BY <1>1, HeldIs DEF Early, Absent, State, Waiting
<1>. QED  BY <1>1, <1>7, <1>8, <1>9, AloneClear

LEMMA FetchClear ==
  ASSUME Standing, Clear, NEW n \in Node, Fetch(n)
  PROVE  Clear'
<1>. SUFFICES ASSUME NEW k, k = i[n], NEW t, t = tmp[n], NEW u, u = Append(t, shared[k]),
                     NEW q, q = IF k = piece[n].end THEN "sort" ELSE "fetch",
                     NEW a, a = IF k = piece[n].end THEN 1 ELSE k + 1
     PROVE  Clear'
  OBVIOUS
<1>1. /\ pc[n] = "fetch" /\ tmp' = [tmp EXCEPT ![n] = u]
      /\ i' = [i EXCEPT ![n] = a] /\ pc' = [pc EXCEPT ![n] = q]
      /\ UNCHANGED <<input, shared, piece, lstart, rstart>>
  <2>1. i' = [i EXCEPT ![n] = a]
    BY DEF Fetch
  <2>. QED  BY <2>1 DEF Fetch
<1>2. /\ piece[n].start <= k /\ k <= piece[n].end /\ k \in Int /\ t \in Seq(Entry)
      /\ shared \in [Slot -> Entry] /\ pc[n] \notin Early \cup Absent
  BY <1>1, Knows DEF Standing, Placed, PlacedAt, Early, Absent
<1>3. k \in Slot /\ k \in 0..(count - 1)
  <2>1. Claims(n, k)
    BY <1>1, <1>2 DEF Claims, Has, Working, Within
  <2>. QED  BY <1>2, <2>1, ClaimsInside
<1>4. /\ Unmarked(shared, piece[n].start, piece[n].end) /\ Unmarked(t, 1, Len(t))
      /\ shared[k].secrets = 0
  <2>1. Unmarked(shared, piece[n].start, piece[n].end) /\ Unmarked(t, 1, Len(t))
    BY <1>1 DEF Clear, SortedAt
  <2>2. k \in piece[n].start..piece[n].end
    BY <1>2, Knows
  <2>. QED  BY <2>1, <2>2 DEF Unmarked
<1>5. shared[k] \in Entry /\ u \in Seq(Entry)
  BY <1>2, <1>3
<1>6. \A j \in 1..Len(u) : u[j] = shared[k] \/ (j \in 1..Len(t) /\ u[j] = t[j])
  BY <1>2, <1>5, OneMore
<1>7. Unmarked(u, 1, Len(u))
  BY <1>4, <1>6 DEF Unmarked
<1>8. pc'[n] = q /\ i'[n] = a /\ tmp'[n] = u
  BY <1>1, TypesNow
<1>9. SortedAt(n)'
  <2>1. SortedTo(u, 1, 1, Len(u))
    <3>1. 1..(1 - 1) = {}
      OBVIOUS
    <3>. QED  BY <1>7, <3>1 DEF SortedTo, Marked
  <2>2. q \in {"sort", "fetch"} /\ (q = "sort" => a = 1)
    OBVIOUS
  <2>. QED  BY <1>1, <1>4, <1>7, <1>8, <2>1, <2>2 DEF SortedAt, Waiting
<1>10. \A j \in 1..Len(u) : u[j] \in Held
  BY <1>3, <1>6, HeldIs
<1>11. Alone(n, q, a, lstart[n], rstart[n], u)
  BY <1>1, Unchanged DEF Alone
<1>12. q \in State \ (Early \cup Waiting)
  BY DEF State, Early, Waiting
<1>. QED  BY <1>1, <1>2, <1>9, <1>10, <1>11, <1>12, AloneClear

\* The first request, once main has read it.
LEMMA AskedIsLoaded ==
  ASSUME Standing, pc[Root] # "initialize", input.requests # <<>>
  PROVE  Loaded(input, req)
<1>1. input \in Files /\ Loads(input) /\ input.requests \in Seq(Query)
  BY SortAssumption DEF Standing, HasRead, TypeOK, Files
<1>2. 1 \in DOMAIN input.requests /\ req = input.requests[1]
  BY <1>1 DEF req
<1>. QED  BY <1>1, <1>2 DEF Loaded, Range

\* No grade is below 0, so no process aborts.
LEMMA NoAbort ==
  ASSUME Standing, Clear, NEW n \in Node, pc[n] = "sort", pc[Root] # "initialize",
         input.requests # <<>>, ~MayBeNegative(input, req)
  PROVE  ~Aborts(tmp[n], i[n], Len(tmp[n]))
<1>. SUFFICES ASSUME NEW k, k = i[n], NEW t, t = tmp[n], NEW best, best = argmax(t, k, Len(t))
     PROVE  ~(t[best].pts < 0)
  BY DEF Aborts
<1>1. k \in Int /\ 1 <= k /\ k <= Len(t) /\ t \in Seq(Entry) /\ Len(t) \in Int
  BY Knows DEF Standing, Placed, PlacedAt
<1>2. best \in 1..Len(t)
  <2>1. \A j \in k..Len(t) : t[j].pts \in Int /\ t[j].title \in Int
    <3>1. \A j \in k..Len(t) : t[j] \in Entry
      BY <1>1
    <3>. QED  BY <3>1 DEF Entry
  <2>2. First(t, k, Len(t), best)
    BY <1>1, <2>1, ArgmaxInside
  <2>. QED  BY <1>1, <2>2 DEF First
<1>3. PICK rounding \in Roundings(input, req) : \A x \in Held : Of(input, req, rounding, x)
  BY DEF Clear, Made
<1>4. Of(input, req, rounding, t[best])
  BY <1>2, <1>3, HeldIs
<1>5. Loaded(input, req)
  BY AskedIsLoaded
<1>. DEFINE g == profile(movie(input, t[best].movie))
<1>6. g \in Profiles(input, req) /\ t[best].pts = grade(input, req, rounding, g)
  BY <1>4 DEF Of, Profiles
<1>. HIDE DEF g
<1>7. grade(input, req, rounding, g) \in Int /\ grade(input, req, rounding, g) >= 0
  BY <1>3, <1>5, <1>6, GradeNotNegative
<1>. QED  BY <1>6, <1>7

LEMMA SortClear ==
  ASSUME Standing, Clear, NEW n \in Node, Sort(n), ~Aborts(tmp[n], i[n], Len(tmp[n]))
  PROVE  Clear'
<1>. SUFFICES ASSUME NEW k, k = i[n], NEW t, t = tmp[n], NEW c, c = Len(t), NEW w, w = SortAt(t, k, c),
                     NEW q, q = IF k = c THEN "copy" ELSE "sort",
                     NEW a, a = IF k = c THEN piece[n].start ELSE k + 1
     PROVE  Clear'
  OBVIOUS
<1>1. /\ pc[n] = "sort" /\ tmp' = [tmp EXCEPT ![n] = w]
      /\ i' = [i EXCEPT ![n] = a] /\ pc' = [pc EXCEPT ![n] = q]
      /\ UNCHANGED <<input, shared, piece, lstart, rstart>>
  <2>1. i' = [i EXCEPT ![n] = a]
    BY DEF Sort
  <2>. QED  BY <2>1 DEF Sort
<1>2. /\ k \in Int /\ 1 <= k /\ k <= c /\ t \in Seq(Entry) /\ c \in Nat
      /\ pc[n] \notin Early \cup Absent /\ SortedTo(t, 1, k, c)
  BY <1>1, Knows DEF Standing, Placed, PlacedAt, Early, Absent, Clear, SortedAt
<1>3. t \in [1..c -> Entry] /\ 1..c \subseteq Int /\ k..c \subseteq 1..c /\ 1 \in Int /\ c \in Int
  BY <1>2
<1>4. SortedTo(w, 1, k + 1, c)
  <2>. SUFFICES ASSUME NEW S, S = 1..c PROVE SortedTo(w, 1, k + 1, c)
    OBVIOUS
  <2>1. S \subseteq Int /\ t \in [S -> Entry] /\ 1..c \subseteq S
    BY <1>3
  <2>. QED  BY <1>2, <1>3, <2>1, SortGoesOn
<1>5. PICK best \in k..c :
        /\ w \in [1..c -> Entry] /\ w[k] = add_secret(t[best])
        /\ best # k => w[best] = t[k]
        /\ \A j \in 1..c : j # k /\ j # best => w[j] = t[j]
  <2>1. Swapped(1..c, t, k, c, w)
    BY <1>2, <1>3, SortSwaps
  <2>. QED  BY <2>1 DEF Swapped
<1>6. w \in Seq(Entry) /\ Len(w) = c
  BY <1>2, <1>5
<1>7. pc'[n] = q /\ i'[n] = a /\ tmp'[n] = w /\ piece'[n] = piece[n]
  BY <1>1, TypesNow
<1>8. SortedAt(n)'
  <2>1. CASE k = c
    <3>1. (k + 1) - 1 = c
      BY <1>2, <2>1
    <3>2. Ordered(w, 1, c) /\ Marked(w, 1, c)
      BY <1>4, <3>1 DEF SortedTo, Ordered
    <3>3. piece[n].start..(piece[n].start - 1) = {}
      BY Knows
    <3>4. q = "copy" /\ a = piece[n].start
      BY <2>1
    <3>. QED  BY <1>6, <1>7, <3>2, <3>3, <3>4 DEF SortedAt, Waiting
  <2>2. CASE k # c
    <3>1. q = "sort" /\ a = k + 1
      BY <2>2
    <3>. QED  BY <1>4, <1>6, <1>7, <3>1 DEF SortedAt, Waiting
  <2>. QED  BY <2>1, <2>2
<1>9. ASSUME NEW j \in 1..Len(w) PROVE \E y \in Held : w[j] = y \/ w[j] = add_secret(y)
  <2>1. \A x \in 1..c : t[x] \in Held
    BY HeldIs
  <2>2. k \in 1..c /\ best \in 1..c
    BY <1>2, <1>3
  <2>3. w[j] = t[j] \/ w[j] = t[k] \/ w[j] = add_secret(t[best])
    BY <1>5, <1>6, <1>9
  <2>. QED  BY <1>6, <1>9, <2>1, <2>2, <2>3
<1>10. Alone(n, q, a, lstart[n], rstart[n], w)
  BY <1>1, Unchanged DEF Alone
<1>11. q \in State \ (Early \cup Waiting)
  BY DEF State, Early, Waiting
<1>. QED  BY <1>1, <1>2, <1>8, <1>9, <1>10, <1>11, AloneClear

LEMMA MergeClear ==
  ASSUME Standing, Clear, NEW n \in Node, Merge(n)
  PROVE  Clear'
<1>. SUFFICES ASSUME NEW s, s = piece[n].start, NEW e, e = piece[n].end, NEW m, m = Middle(n),
                     NEW l, l = lstart[n], NEW r, r = rstart[n], NEW t, t = tmp[n]
     PROVE  Clear'
  OBVIOUS
<1>1. /\ pc[n] = "merge" /\ UNCHANGED <<input, shared, piece>>
      /\ pc[n] \notin Early \cup Absent
  BY DEF Merge, Early, Absent
<1>2. /\ s \in Int /\ e \in Int /\ m \in Int /\ l \in Int /\ r \in Int /\ t \in Seq(Entry)
      /\ shared \in [Slot -> Entry] /\ Slot \subseteq Int
  BY Knows
<1>3. s <= l /\ l <= m + 1 /\ m < r /\ r <= e + 1
  BY <1>1 DEF Standing, Placed, PlacedAt, Merging
<1>4. PICK k, l2, r2 :
        /\ tmp' = [tmp EXCEPT ![n] = Append(t, shared[k])]
        /\ lstart' = [lstart EXCEPT ![n] = l2] /\ rstart' = [rstart EXCEPT ![n] = r2]
        /\ TakesBetter(shared, l, m, r, e, k, l2, r2)
  BY MergeTakes
<1>5. \A j \in (l..m) \cup (r..e) : j \in Slot /\ j \in 0..(count - 1)
  <2>1. s <= r /\ m <= e
    BY <1>2, <1>3
  <2>. SUFFICES ASSUME NEW j \in (l..m) \cup (r..e) PROVE j \in Slot /\ j \in 0..(count - 1)
    OBVIOUS
  <2>2. j \in Int /\ s <= j /\ j <= e
    BY <1>2, <1>3, <2>1
  <2>3. Claims(n, j)
    BY <1>1, <2>2 DEF Claims, Has, Working, Within
  <2>. QED  BY <2>2, <2>3, ClaimsInside
<1>6. k \in (l..m) \cup (r..e)
  BY <1>2, <1>4 DEF TakesBetter
<1>. SUFFICES ASSUME NEW u, u = Append(t, shared[k]) PROVE Clear'
  OBVIOUS
<1>7. shared[k] \in Entry /\ u \in Seq(Entry) /\ MergedTo(shared, u, l2, m, r2, e)
  <2>1. MergedTo(shared, t, l, m, r, e)
    BY <1>1 DEF Clear, SortedAt
  <2>2. l..m \subseteq Slot /\ r..e \subseteq Slot
    BY <1>5
  <2>3. shared[k] \in Entry /\ MergedTo(shared, u, l2, m, r2, e)
    BY <1>2, <1>4, <2>1, <2>2, MergeGoesOn
  <2>. QED  BY <1>2, <2>3
<1>8. \E q, a : /\ q \in {"merge", "copy"} /\ (q = "copy" => a = s)
                /\ pc' = [pc EXCEPT ![n] = q] /\ i' = [i EXCEPT ![n] = a]
  <2>1. CASE Len(tmp'[n]) = e - s + 1
    BY <2>1 DEF Merge
  <2>2. CASE Len(tmp'[n]) # e - s + 1
    <3>1. pc' = pc /\ i' = i
      BY <2>2 DEF Merge
    <3>2. pc' = [pc EXCEPT ![n] = "merge"] /\ i' = [i EXCEPT ![n] = i[n]]
      BY <1>1, <3>1, Unchanged
    <3>3. "merge" \in {"merge", "copy"} /\ "merge" # "copy"
      OBVIOUS
    <3>. QED  BY <3>2, <3>3
  <2>. QED  BY <2>1, <2>2
<1>9. PICK q, a : /\ q \in {"merge", "copy"} /\ (q = "copy" => a = s)
                  /\ pc' = [pc EXCEPT ![n] = q] /\ i' = [i EXCEPT ![n] = a]
  BY <1>8
<1>10. /\ pc'[n] = q /\ i'[n] = a /\ tmp'[n] = u /\ lstart'[n] = l2 /\ rstart'[n] = r2
       /\ piece'[n] = piece[n] /\ Middle(n)' = m
  BY <1>1, <1>4, <1>9, TypesNow DEF Middle
<1>11. SortedAt(n)'
  <2>1. Ordered(u, 1, Len(u)) /\ Marked(u, 1, Len(u))
    BY <1>7 DEF MergedTo
  <2>2. s..(s - 1) = {}
    BY <1>2
  <2>3. CASE q = "merge"
    BY <1>1, <1>7, <1>10, <2>3 DEF SortedAt, Waiting
  <2>4. CASE q = "copy"
    BY <1>1, <1>9, <1>10, <2>1, <2>2, <2>4 DEF SortedAt, Waiting
  <2>. QED  BY <1>9, <2>3, <2>4
<1>12. \A j \in 1..Len(u) : u[j] \in Held
  <2>1. \A j \in 1..Len(u) : u[j] = shared[k] \/ (j \in 1..Len(t) /\ u[j] = t[j])
    BY <1>2, <1>7, OneMore
  <2>2. shared[k] \in Held
    BY <1>5, <1>6, HeldIs
  <2>. QED  BY <2>1, <2>2, HeldIs
<1>13. Alone(n, q, a, l2, r2, u)
  BY <1>4, <1>9 DEF Alone
<1>14. q \in State \ (Early \cup Waiting)
  BY <1>9 DEF State, Early, Waiting
<1>. QED  BY <1>1, <1>11, <1>12, <1>13, <1>14, AloneClear

\* A copy that ends leaves in the piece what has been sorted.
LEMMA CopyClear ==
  ASSUME Standing, Clear, NEW n \in Node, Copy(n)
  PROVE  Clear'
<1>. SUFFICES ASSUME NEW s, s = piece[n].start, NEW e, e = piece[n].end, NEW k, k = i[n],
                     NEW t, t = tmp[n], NEW x0, x0 = t[k - s + 1],
                     NEW q, q = IF k # e THEN "copy" ELSE IF n = Root THEN "output" ELSE "exited"
     PROVE  Clear'
  OBVIOUS
<1>1. /\ pc[n] = "copy" /\ shared' = [shared EXCEPT ![k] = x0]
      /\ i' = [i EXCEPT ![n] = k + 1] /\ pc' = [pc EXCEPT ![n] = q]
      /\ UNCHANGED <<input, piece, lstart, rstart, tmp>>
  BY DEF Copy, Copied
<1>2. /\ s \in Int /\ e \in Int /\ k \in Int /\ t \in Seq(Entry) /\ shared \in [Slot -> Entry]
      /\ pc[n] \notin Early \cup Absent /\ pc[n] \in Working
  BY <1>1, Knows DEF Early, Absent, Working
<1>3. s <= k /\ k <= e /\ Len(t) = e - s + 1
  BY <1>1 DEF Standing, Placed, PlacedAt
<1>4. k \in Slot /\ Within(k, piece[n]) /\ k \in 0..(count - 1)
  <2>1. Within(k, piece[n])
    BY <1>3 DEF Within
  <2>2. Claims(n, k)
    BY <1>2, <2>1 DEF Claims, Has
  <2>. QED  BY <1>2, <2>1, <2>2, ClaimsInside
<1>5. \A j \in s..e : j \in Slot /\ j - s + 1 \in 1..Len(t)
  <2>. SUFFICES ASSUME NEW j \in s..e PROVE j \in Slot /\ j - s + 1 \in 1..Len(t)
    OBVIOUS
  <2>1. j \in Int /\ s <= j /\ j <= e
    BY <1>2
  <2>2. Claims(n, j)
    BY <1>2, <2>1 DEF Claims, Has, Within
  <2>3. j \in Slot
    BY <2>1, <2>2, ClaimsInside
  <2>4. \A a, b \in Int : \A x \in a..b : x - a + 1 \in 1..(b - a + 1)
    OBVIOUS
  <2>. QED  BY <1>2, <1>3, <2>3, <2>4
<1>6. /\ pc'[n] = q /\ i'[n] = k + 1 /\ shared'[k] = x0
      /\ \A j \in Slot : j # k => shared'[j] = shared[j]
      /\ \A x \in Node : x # n => Same(x)
      /\ count' = count
  <2>1. pc'[n] = q /\ i'[n] = k + 1
    BY <1>1, TypesNow
  <2>2. shared'[k] = x0 /\ \A j \in Slot : j # k => shared'[j] = shared[j]
    BY <1>1, <1>2, <1>4
  <2>3. \A x \in Node : x # n => Same(x)
    BY <1>1, TypesNow DEF Same
  <2>. QED  BY <1>1, <2>1, <2>2, <2>3 DEF count, req
<1>7. /\ Ordered(t, 1, Len(t)) /\ Marked(t, 1, Len(t))
      /\ \A j \in s..(k - 1) : shared[j] = t[j - s + 1]
  BY <1>1 DEF Clear, SortedAt
<1>8. \A j \in s..k : shared'[j] = t[j - s + 1]
  <2>. SUFFICES ASSUME NEW j \in s..k PROVE shared'[j] = t[j - s + 1]
    OBVIOUS
  <2>1. CASE j = k
    BY <1>6, <2>1
  <2>2. CASE j # k
    <3>1. j \in s..(k - 1) /\ j \in s..e
      BY <1>2, <1>3, <2>2
    <3>. QED  BY <1>5, <1>6, <1>7, <2>2, <3>1
  <2>. QED  BY <2>1, <2>2
<1>9. SortedAt(n)'
  <2>1. CASE k # e
    <3>1. q = "copy" /\ (k + 1) - 1 = k
      BY <1>2, <2>1
    <3>2. piece'[n].start = s /\ i'[n] - 1 = k
      BY <1>1, <1>6, <3>1
    <3>. QED  BY <1>1, <1>6, <1>7, <1>8, <3>1, <3>2 DEF SortedAt, Waiting
  <2>2. CASE k = e
    <3>1. \A j \in s..e : j - s + 1 \in 1..Len(t) /\ shared'[j] = t[j - s + 1]
      BY <1>5, <1>8, <2>2
    <3>2. Ordered(shared', s, e)
      <4>. SUFFICES ASSUME NEW a \in s..e, NEW b \in s..e, a < b
           PROVE  NotWorse(shared'[a], shared'[b])
        BY DEF Ordered
      <4>1. a - s + 1 < b - s + 1
        BY <1>2
      <4>. QED  BY <1>7, <3>1, <4>1 DEF Ordered
    <3>3. Marked(shared', s, e)
      BY <1>7, <3>1 DEF Marked
    <3>4. q \in {"output", "exited"}
      BY <2>2
    <3>. QED  BY <1>1, <1>6, <3>2, <3>3, <3>4 DEF SortedAt, Waiting
  <2>. QED  BY <2>1, <2>2
<1>10. ASSUME NEW x \in Held' PROVE x \in Held
  <2>1. CASE \E j \in 0..(count' - 1) : x = shared'[j]
    <3>1. PICK j \in 0..(count - 1) : x = shared'[j]
      BY <1>6, <2>1
    <3>2. j \in Slot
      BY <1>2, CountFits DEF Standing
    <3>3. CASE j = k
      <4>1. k \in s..e
        BY <1>2, <1>3
      <4>2. k - s + 1 \in 1..Len(t)
        BY <1>5, <4>1
      <4>. QED  BY <1>6, <3>1, <3>3, <4>2, HeldIs
    <3>4. CASE j # k
      BY <1>6, <3>1, <3>2, <3>4, HeldIs
    <3>. QED  BY <3>3, <3>4
  <2>2. CASE \E m \in Node : \E j \in 1..Len(tmp'[m]) : x = tmp'[m][j]
    BY <1>1, <2>2, HeldIs
  <2>. QED  BY <1>10, <2>1, <2>2, HeldIs
<1>11. \A j \in Slot : Within(j, piece[n]) \/ shared'[j] = shared[j]
  BY <1>4, <1>6
<1>12. pc'[n] \notin Early \cup Waiting
  BY <1>6 DEF Early, Waiting
<1>. QED  BY <1>1, <1>2, <1>6, <1>9, <1>10, <1>11, <1>12, ClearStays

\* A child gets a half that no one has touched.
LEMMA ForkClear ==
  ASSUME Standing, Clear, NEW n \in Inner, NEW c \in Node, Half(c, n), pc[c] = "idle",
         pc[n] \in {"start", "fork"}, NEW h, h \in {LeftHalf(piece[n]), RightHalf(piece[n])},
         NEW next \in Waiting, IsLarge(piece[n]), Fork(n, c, h, next), ~starved',
         UNCHANGED <<input, shared, i, lstart, rstart, tmp>>,
         Unmarked(shared, h.start, h.end),
         pc'[n] = next /\ pc'[c] = "start" /\ piece'[n] = piece[n] => SortedAt(n)'
  PROVE  Clear'
<1>1. n \in Node /\ c # n /\ c # Root
  BY Children, RootIsNoHalf DEF Half
<1>2. piece[n].level = Len(n) /\ pc[n] \notin Early \cup Absent
  BY <1>1 DEF Standing, IInv, Levels, Early, Absent
<1>3. 0 <= h.start /\ h.end < count
  BY <1>2, HalfFits
<1>4. piece' = [piece EXCEPT ![c] = h] /\ pc' = [pc EXCEPT ![n] = next, ![c] = "start"]
  BY DEF Fork
<1>5. /\ pc'[n] = next /\ pc'[c] = "start" /\ piece'[n] = piece[n] /\ piece'[c] = h
      /\ \A x \in Node : x # n /\ x # c => Same(x)
  BY <1>1, <1>4, TypesNow DEF Same
<1>6. Born(c) /\ SortedAt(c)'
  <2>1. Born(c)
    BY <1>1, <1>3, <1>5 DEF Born
  <2>. QED  BY <1>5, <2>1 DEF SortedAt, Waiting
<1>7. \A x \in Held' : x \in Held
  <2>1. count' = count
    BY DEF count, req
  <2>. QED  BY <2>1, HeldIs
<1>8. pc'[n] \notin Early /\ pc[n] \in Waiting \cup {"start"}
  BY <1>5 DEF Early, Waiting
<1>. QED  BY <1>1, <1>2, <1>5, <1>6, <1>7, <1>8, ClearStays

LEMMA ForkLeftClear ==
  ASSUME Standing, Clear, NEW n \in Node, ForkLeft(n), ~starved'
  PROVE  Clear'
<1>1. /\ pc[n] = "start" /\ IsLarge(piece[n]) /\ Fork(n, Left(n), LeftHalf(piece[n]), "fork")
      /\ UNCHANGED <<input, shared, i, lstart, rstart, tmp>>
  BY DEF ForkLeft
<1>2. n \in Inner /\ piece[n].level = Len(n)
  <2>1. piece[n].level = Len(n) /\ Len(n) \in Nat
    BY <1>1, NodeSeq DEF Standing, IInv, Levels
  <2>. QED  BY <1>1, <2>1, SortAssumption DEF IsLarge, Inner
<1>3. Left(n) \in Node /\ Half(Left(n), n) /\ pc[Left(n)] = "idle" /\ "fork" \in Waiting
  BY <1>1, <1>2, Children DEF Half, Standing, IInv, Forks, Waiting
<1>4. /\ piece[n].start \in Int /\ piece[n].end \in Int /\ Middle(n) \in Int
      /\ piece[n].start <= Middle(n) /\ Middle(n) < piece[n].end
  BY <1>1, <1>2, HalfFits, Knows DEF Early
<1>5. Unmarked(shared, piece[n].start, piece[n].end)
  BY <1>1 DEF Clear, SortedAt
<1>6. Unmarked(shared, piece[n].start, Middle(n)) /\ Unmarked(shared, Middle(n) + 1, piece[n].end)
  <2>1. piece[n].start..Middle(n) \subseteq piece[n].start..piece[n].end
    BY <1>4
  <2>2. (Middle(n) + 1)..piece[n].end \subseteq piece[n].start..piece[n].end
    BY <1>4
  <2>. QED  BY <1>5, <2>1, <2>2 DEF Unmarked
<1>7. LeftHalf(piece[n]).start = piece[n].start /\ LeftHalf(piece[n]).end = Middle(n)
  BY DEF LeftHalf, Middle
<1>8. ASSUME pc'[n] = "fork", pc'[Left(n)] = "start", piece'[n] = piece[n] PROVE SortedAt(n)'
  <2>1. Middle(n)' = Middle(n)
    BY <1>8 DEF Middle
  <2>. QED  BY <1>1, <1>6, <1>8, <2>1 DEF SortedAt, Waiting
<1>9. Unmarked(shared, LeftHalf(piece[n]).start, LeftHalf(piece[n]).end)
  BY <1>6, <1>7
<1>. QED  BY <1>1, <1>2, <1>3, <1>8, <1>9, ForkClear

LEMMA ForkRightClear ==
  ASSUME Standing, Clear, NEW n \in Node, ForkRight(n), ~starved'
  PROVE  Clear'
<1>1. /\ pc[n] = "fork" /\ Fork(n, Right(n), RightHalf(piece[n]), "wait")
      /\ UNCHANGED <<input, shared, i, lstart, rstart, tmp>>
  BY DEF ForkRight
<1>2. n \in Inner /\ IsLarge(piece[n])
  BY <1>1 DEF Standing, IInv, Levels, NonEmpty, Waiting
<1>3. /\ Right(n) \in Node /\ Half(Right(n), n) /\ pc[Right(n)] = "idle" /\ "wait" \in Waiting
      /\ Left(n) \in Node /\ Left(n) # n /\ Left(n) # Right(n)
  BY <1>1, <1>2, Children DEF Half, Standing, IInv, Forks, Waiting
<1>4. RightHalf(piece[n]).start = Middle(n) + 1 /\ RightHalf(piece[n]).end = piece[n].end
  BY DEF RightHalf, LeftHalf, Middle
<1>5. Unmarked(shared, RightHalf(piece[n]).start, RightHalf(piece[n]).end) /\ pc[Left(n)] # "idle"
  BY <1>1, <1>4 DEF Clear, SortedAt, Waiting
<1>6. ASSUME pc'[n] = "wait", pc'[Right(n)] = "start" PROVE SortedAt(n)'
  <2>1. pc'[Left(n)] # "idle"
    BY <1>1, <1>3, <1>5, TypesNow DEF Fork
  <2>. QED  BY <1>6, <2>1 DEF SortedAt, Waiting
<1>. QED  BY <1>1, <1>2, <1>3, <1>5, <1>6, ForkClear

-----------------------------------------------------------------------------
(* main, and the theorem.                                                  *)

SInv == CInv /\ AllSorted /\ AnswerSorted

\* main collects entries that are of one rounding and not marked.
LEMMA FilterSorted ==
  ASSUME Standing, Filter, input.requests # <<>>
  PROVE  Clear'
<1>1. /\ pc[Root] = "filter" /\ Root \in Node /\ pc' = [pc EXCEPT ![Root] = "start"]
      /\ UNCHANGED <<input, i, lstart, rstart, tmp>>
  BY RootIsNoHalf DEF Filter
<1>2. PICK rounding \in Roundings(input, req) :
        /\ shared' = [s \in Slot |-> IF s < Len(Matches(input, req, rounding))
                                     THEN Matches(input, req, rounding)[s + 1] ELSE shared[s]]
        /\ piece' = [piece EXCEPT ![Root] = [start |-> 0, end |-> count - 1, level |-> 0]]
  BY DEF Filter
<1>. SUFFICES ASSUME NEW c, c = count, NEW w, w = Matches(input, req, rounding)
     PROVE  Clear'
  OBVIOUS
<1>3. c \in Nat /\ (\A k \in 0..(c - 1) : k \in Slot) /\ Loaded(input, req)
  BY <1>1, CountFits, AskedIsLoaded DEF Standing
<1>4. /\ Len(w) = c
      /\ \A k \in 1..c : Of(input, req, rounding, w[k]) /\ w[k].secrets = 0
  <2>1. Len(w) = c
    BY <1>3, MatchesAll DEF count, Loaded
  <2>. QED  BY <1>3, <2>1, MatchesAre DEF count
<1>5. \A k \in 0..(c - 1) : shared'[k] = w[k + 1] /\ k + 1 \in 1..c
  <2>1. shared' = [s \in Slot |-> IF s < c THEN w[s + 1] ELSE shared[s]]
    BY <1>2, <1>4
  <2>2. \A k \in 0..(c - 1) : k \in Slot /\ k < c /\ k + 1 \in 1..c
    BY <1>3
  <2>. QED  BY <2>1, <2>2
<1>6. /\ pc'[Root] = "start" /\ piece'[Root].start = 0 /\ piece'[Root].end = c - 1
      /\ count' = c /\ req' = req
  BY <1>1, <1>2, TypesNow DEF count, req
<1>7. /\ \A n \in Node : n # Root => pc'[n] = "idle"
      /\ \A n \in Node : tmp'[n] = <<>>
  <2>1. \A n \in Node : n # Root => pc[n] = "idle"
    BY <1>1 DEF Standing, IInv, MainFirst
  <2>2. \A n \in Node : pc[n] \in Early
    BY <1>1, <2>1 DEF Early
  <2>3. \A n \in Node : tmp[n] = <<>>
    BY <2>2 DEF Standing, Placed, PlacedAt
  <2>. QED  BY <1>1, <2>1, <2>3, TypesNow
<1>8. SortedAt(Root)'
  <2>1. Unmarked(shared', 0, c - 1)
    BY <1>4, <1>5 DEF Unmarked
  <2>. QED  BY <1>6, <2>1 DEF SortedAt, Waiting
<1>9. \A n \in Node : n # Root => SortedAt(n)'
  BY <1>7 DEF SortedAt, Waiting
<1>10. ASSUME NEW x \in Held' PROVE Of(input, req, rounding, x)
  <2>1. \A n \in Node : 1..Len(tmp'[n]) = {}
    BY <1>7
  <2>2. \E k \in 0..(c - 1) : x = shared'[k]
    BY <1>6, <1>10, <2>1, HeldIs
  <2>. QED  BY <1>4, <1>5, <2>2
<1>11. Made'
  BY <1>1, <1>6, <1>10 DEF Made
<1>. QED  BY <1>6, <1>8, <1>9, <1>11 DEF Clear

\* main's piece is the answer.
LEMMA OutputSorted ==
  ASSUME Standing, Clear, Output, input.requests # <<>>
  PROVE  Clear' /\ IsSorted(file', input, req)
<1>. SUFFICES ASSUME NEW c, c = count, NEW a, a = [s \in 1..c |-> shared[s - 1]]
     PROVE  Clear' /\ IsSorted(file', input, req)
  OBVIOUS
<1>1. /\ pc[Root] = "output" /\ Root \in Node /\ pc' = [pc EXCEPT ![Root] = "exited"]
      /\ UNCHANGED <<input, shared, piece, i, lstart, rstart, tmp>>
  BY RootIsNoHalf DEF Output
<1>2. pc[Root] \notin Early \cup Absent
  BY <1>1 DEF Early, Absent
<1>3. c \in Nat /\ Loaded(input, req) /\ count' = c
  BY <1>1, <1>2, CountFits, AskedIsLoaded DEF Standing, count, req
<1>4. piece[Root].start = 0 /\ piece[Root].end = c - 1 /\ file' = a
  <2>1. piece[Root].end = c - 1
    BY <1>2 DEF Standing, HasRead
  <2>2. (c - 1) + 1 = c
    BY <1>3
  <2>. QED  BY <2>1, <2>2 DEF Output, Clear
<1>5. pc'[Root] = "exited" /\ \A x \in Node : x # Root => Same(x)
  BY <1>1, TypesNow DEF Same
<1>6. Clear'
  <2>1. ~Due(Root)'
    BY RootIsNoHalf DEF Due
  <2>2. SortedAt(Root)'
    BY <1>5, <2>1 DEF SortedAt, Waiting
  <2>3. \A x \in Held' : x \in Held
    BY <1>1, <1>3, HeldIs
  <2>4. pc'[Root] \notin Early \cup Waiting
    BY <1>5 DEF Early, Waiting
  <2>. QED  BY <1>1, <1>2, <1>5, <2>2, <2>3, <2>4, ClearStays
<1>7. Ordered(shared, 0, c - 1) /\ Marked(shared, 0, c - 1)
  BY <1>1, <1>4 DEF Clear, SortedAt
<1>8. PICK rounding \in Roundings(input, req) : \A x \in Held : Of(input, req, rounding, x)
  BY DEF Clear, Made
<1>9. Len(a) = c /\ \A k \in 1..c : a[k] = shared[k - 1] /\ k - 1 \in 0..(c - 1)
  <2>1. \A b : b = [k \in 1..c |-> shared[k - 1]] => Len(b) = c
    BY <1>3
  <2>. QED  BY <1>3, <2>1
<1>10. \A k \in 1..Len(a) : Of(input, req, rounding, a[k])
  BY <1>8, <1>9, HeldIs
<1>11. Ordered(a, 1, Len(a))
  <2>. SUFFICES ASSUME NEW j \in 1..c, NEW k \in 1..c, j < k PROVE NotWorse(a[j], a[k])
    BY <1>9 DEF Ordered
  <2>1. j - 1 < k - 1
    BY <1>3
  <2>. QED  BY <1>7, <1>9, <2>1 DEF Ordered
<1>12. Marked(a, 1, Len(a))
  BY <1>7, <1>9 DEF Marked
<1>13. IsSorted(a, input, req)
  BY <1>3, <1>8, <1>10, <1>11, <1>12, AnswerInOrder
<1>. QED  BY <1>4, <1>6, <1>13

\* A step of a process, if all could be created and none aborts.
LEMMA StepClear ==
  ASSUME Standing, Clear, NEW n \in Node, pmerge(n), ~starved', pc[Root] # "initialize",
         input.requests # <<>>, ~MayBeNegative(input, req)
  PROVE  Clear'
<1>1. CASE ForkLeft(n)
  BY <1>1, ForkLeftClear
<1>2. CASE ForkRight(n)
  BY <1>2, ForkRightClear
<1>3. CASE Wait(n)
  BY <1>3, WaitClear
<1>4. CASE Merge(n)
  BY <1>4, MergeClear
<1>5. CASE Small(n)
  BY <1>5, SmallClear
<1>6. CASE Fetch(n)
  BY <1>6, FetchClear
<1>7. CASE Sort(n)
  <2>1. pc[n] = "sort"
    BY <1>7 DEF Sort
  <2>. QED  BY <1>7, <2>1, NoAbort, SortClear
<1>8. CASE SortNothing(n)
  BY <1>8, SortNothingClear
<1>9. CASE Copy(n)
  BY <1>9, CopyClear
<1>. QED  BY <1>1, <1>2, <1>3, <1>4, <1>5, <1>6, <1>7, <1>8, <1>9 DEF pmerge

\* main's own state in a step of a process, and whether forks have failed.
LEMMA StepOfOne ==
  ASSUME Standing, NEW n \in Node, pmerge(n)
  PROVE  /\ pc[Root] \notin {"initialize", "filter"} /\ pc'[Root] # "initialize"
         /\ starved => starved'
<1>1. pc[n] \in Working \cup Waiting
  BY DEF pmerge, ForkLeft, ForkRight, Wait, Merge, Small, Fetch, Sort, SortNothing, Copy,
         Working, Waiting
<1>2. pc[n] \notin {"idle", "initialize", "filter"} /\ Root \in Node
  BY <1>1, RootIsNoHalf DEF Working, Waiting
<1>3. pc[Root] \notin {"initialize", "filter"}
  BY <1>2 DEF Standing, IInv, MainFirst
<1>4. starved => starved'
  BY DEF pmerge, ForkLeft, ForkRight, Fork, Wait, Merge, Small, Fetch, Sort, SortNothing, Copy
<1>5. Does(n)
  BY StepDoes
<1>6. pc'[Root] # "initialize"
  <2>1. CASE pc'[Root] = pc[Root]
    BY <1>3, <2>1
  <2>2. CASE pc'[Root] # pc[Root]
    BY <1>2, <2>2, TypesNow DEF pmerge, ForkLeft, ForkRight, Fork, Wait, Merge, Small, Fetch,
         Sort, SortNothing, Copy
  <2>. QED  BY <2>1, <2>2
<1>. QED  BY <1>3, <1>4, <1>6

LEMMA SortedInit == Init => SInv
<1>. SUFFICES ASSUME Init PROVE SInv
  OBVIOUS
<1>1. pc[Root] = "initialize"
  BY RootIsNoHalf DEF Init
<1>2. AllSorted /\ AnswerSorted
  BY <1>1 DEF AllSorted, AnswerSorted, Init
<1>. QED  BY <1>2, CompleteInit DEF SInv

LEMMA SortedNext == SInv /\ [Next]_vars => SInv'
<1>. SUFFICES ASSUME SInv, [Next]_vars PROVE AllSorted' /\ AnswerSorted'
  BY CompleteNext DEF SInv
<1>1. Standing /\ AllSorted /\ AnswerSorted
  BY DEF SInv, CInv
<1>2. UNCHANGED <<input, file>> /\ (starved => starved') => AnswerSorted'
  BY <1>1 DEF AnswerSorted, req
<1>3. CASE UNCHANGED vars
  <2>1. \A n \in Node : SortedAt(n)' <=> SortedAt(n)
    <3>1. \A n \in Node : Due(n)' <=> Due(n)
      BY <1>3 DEF Due, vars
    <3>. QED  BY <1>3, <3>1 DEF SortedAt, Middle, vars
  <2>2. Made' <=> Made
    BY <1>3 DEF Made, Held, count, req, vars
  <2>3. AllSorted'
    BY <1>1, <1>3, <2>1, <2>2 DEF AllSorted, Clear, req, vars
  <2>. QED  BY <1>2, <1>3, <2>3 DEF vars
<1>4. CASE Initialize
  <2>1. AllSorted'
    BY <1>4, TypesNow, <1>1, RootIsNoHalf DEF Initialize, AllSorted
  <2>. QED  BY <1>2, <1>4, <2>1 DEF Initialize
<1>5. CASE Filter
  <2>1. pc[Root] = "filter" /\ UNCHANGED <<input, file, starved>>
    BY <1>5 DEF Filter
  <2>2. input.requests # <<>>
    BY <1>1, <2>1 DEF AllSorted
  <2>3. Clear'
    BY <1>1, <1>5, <2>2, FilterSorted
  <2>. QED  BY <1>2, <2>1, <2>2, <2>3 DEF AllSorted
<1>6. ASSUME NEW n \in Node, pmerge(n) PROVE AllSorted' /\ AnswerSorted'
  <2>1. /\ pc[Root] \notin {"initialize", "filter"} /\ (starved => starved')
        /\ UNCHANGED <<input, file>> /\ req' = req
    BY <1>1, <1>6, StepOfOne, StepDoes DEF req
  <2>2. input.requests # <<>> /\ (starved \/ MayBeNegative(input, req) \/ Clear)
    BY <1>1, <2>1 DEF AllSorted
  <2>3. starved' \/ MayBeNegative(input, req) \/ Clear'
    BY <1>1, <1>6, <2>1, <2>2, StepClear
  <2>4. AllSorted'
    BY <2>1, <2>2, <2>3 DEF AllSorted
  <2>. QED  BY <1>2, <2>1, <2>4
<1>7. CASE Output
  <2>1. pc[Root] = "output" /\ UNCHANGED <<input, starved>> /\ req' = req
    BY <1>7 DEF Output, req
  <2>2. input.requests # <<>> /\ (starved \/ MayBeNegative(input, req) \/ Clear)
    BY <1>1, <2>1 DEF AllSorted
  <2>3. ASSUME ~starved, ~MayBeNegative(input, req) PROVE Clear' /\ IsSorted(file', input, req)
    BY <1>1, <1>7, <2>2, <2>3, OutputSorted
  <2>. QED  BY <2>1, <2>2, <2>3 DEF AllSorted, AnswerSorted
<1>. QED  BY <1>3, <1>4, <1>5, <1>6, <1>7 DEF Next

\* If every process could be created and no grade is below 0, the answer of main
\* lists the movies in the order in which the files put them, and each is marked
\* once.
THEOREM AnswerInOrderOfGrades == Spec => []AnswerSorted
<1>1. SInv => AnswerSorted
  BY DEF SInv
<1>. QED  BY <1>1, SortedInit, SortedNext, PTL DEF Spec

=============================================================================
