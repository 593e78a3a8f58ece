----------------------------- MODULE ProcessSort ----------------------------
(***************************************************************************)
(* pserver of hw4: main filters the movies for the first request into      *)
(* p_movie and p_grade, which all processes share, and pmerge sorts them.  *)
(* A process forks one child for each half of its piece, waits for both    *)
(* and merges; small pieces are copied out, sorted and copied back.        *)
(*                                                                         *)
(* The processes form a binary tree; each is named by the way from main to *)
(* it, 0 for the left half and 1 for the right.                            *)
(***************************************************************************)
EXTENDS MovieSort

CONSTANTS
  Input,           \* what the files may hold
  SplitSize,       \* 1024 in the code
  MaxLevel         \* deepest level that is split, 4 in the code

ASSUME SortAssumption ==
  /\ Input \subseteq Files
  /\ SplitSize \in Nat
  /\ MaxLevel \in Nat

Slot == 0..(MAX_MOVIES - 1)
Node == UNION {[1..depth -> {0, 1}] : depth \in 0..(MaxLevel + 1)}
Root == <<>>   \* main

VARIABLES
  input,     \* the movies and the requests; they do not change
  shared,    \* p_movie and p_grade
  piece,     \* per process its piece
  pc,        \* where it is in pmerge
  i,         \* the slot its copying or sorting loop is at
  lstart,    \* the slots its merge is at, in the left and
  rstart,    \* in the right half
  tmp,       \* its tmp_movie and tmp_grade
  forked,    \* per process the children it has not waited for
  file,      \* the answer, once it is written
  crashed,   \* main exited, aborted or was killed
  starved    \* history: a process could not be created

vars == <<input, shared, piece, pc, i, lstart, rstart, tmp, forked, file, crashed, starved>>

NoPiece == [start |-> 0, end |-> 0, level |-> 0]
NoFile == <<NoEntry>>
Left(n) == Append(n, 0)
Right(n) == Append(n, 1)

-----------------------------------------------------------------------------
(* main up to pmerge.                                                      *)

\* initialize reads all movies and requests, or it does not return.  main goes on
\* with the first request; when there is none it uses a null pointer.
Initialize ==
  /\ pc[Root] = "initialize"
  /\ IF Loads(input) /\ input.requests # <<>>
     THEN pc' = [pc EXCEPT ![Root] = "filter"] /\ UNCHANGED crashed
     ELSE crashed' = TRUE /\ UNCHANGED pc
  /\ UNCHANGED <<input, shared, piece, i, lstart, rstart, tmp, forked, file, starved>>

req == Head(input.requests)

count == Cardinality(Hit(input, req))

Filter ==
  /\ pc[Root] = "filter"
  /\ \E rounding \in Roundings(input, req) :
       LET m == Matches(input, req, rounding) IN
       /\ shared' = [s \in Slot |-> IF s < Len(m) THEN m[s + 1] ELSE shared[s]]
       /\ piece' = [piece EXCEPT ![Root] = [start |-> 0, end |-> count - 1, level |-> 0]]
  /\ pc' = [pc EXCEPT ![Root] = "start"]
  /\ UNCHANGED <<input, i, lstart, rstart, tmp, forked, file, crashed, starved>>

-----------------------------------------------------------------------------
(* pmerge of a large piece.                                                *)

IsLarge(p) == p.end - p.start > SplitSize /\ p.level < MaxLevel + 1

\* The halves as the two children compute them.
LeftHalf(p) == [start |-> p.start, end |-> (p.end + p.start) \div 2, level |-> p.level + 1]

\* Mutants: both children sort the left half; the end is taken for a size.
LeftHalfAgain(p) == LeftHalf(p)
RightHalfBySize(p) ==
  LET m == (p.end + p.start) \div 2 + 1
  IN  [start |-> m, end |-> m + p.end, level |-> p.level + 1]

RightHalf(p) == [start |-> (p.end + p.start) \div 2 + 1, end |-> p.end, level |-> p.level + 1]

\* fork may fail at any time; the parent goes on as if it had not.
Fork(n, child, half, next) ==
  \/ /\ forked' = [forked EXCEPT ![n] = @ \cup {child}]
     /\ piece' = [piece EXCEPT ![child] = half]
     /\ pc' = [pc EXCEPT ![n] = next, ![child] = "start"]
     /\ UNCHANGED starved
  \/ /\ pc' = [pc EXCEPT ![n] = next]
     /\ starved' = TRUE
     /\ UNCHANGED <<forked, piece>>

ForkLeft(n) ==
  /\ pc[n] = "start"
  /\ IsLarge(piece[n])
  /\ Fork(n, Left(n), LeftHalf(piece[n]), "fork")
  /\ UNCHANGED <<input, shared, i, lstart, rstart, tmp, file, crashed>>

\* The parent goes on to the other half.
ForkRight(n) ==
  /\ pc[n] = "fork"
  /\ Fork(n, Right(n), RightHalf(piece[n]), "wait")
  /\ UNCHANGED <<input, shared, i, lstart, rstart, tmp, file, crashed>>

\* Mutants: the waits are repeated until both halves were waited for; there is
\* only one wait.
BothEnded(n) == pc[Left(n)] = "exited" /\ pc[Right(n)] = "exited"
OneEnded(n) == forked[n] = {} \/ \E c \in forked[n] : pc[c] = "exited"

\* The two waits.  The number of a failed fork is -1, for which waitpid waits
\* for any child; a wait without a child fails at once.  So together they wait
\* for the children that there are.  Nobody asks what became of them.
ChildrenEnded(n) == \A c \in forked[n] : pc[c] = "exited"

Wait(n) ==
  /\ pc[n] = "wait"
  /\ ChildrenEnded(n)
  /\ pc' = [pc EXCEPT ![n] = "merge"]
  /\ lstart' = [lstart EXCEPT ![n] = piece[n].start]
  /\ rstart' = [rstart EXCEPT ![n] = RightHalf(piece[n]).start]
  /\ forked' = [forked EXCEPT ![n] = {}]
  /\ UNCHANGED <<input, shared, piece, i, tmp, file, crashed, starved>>

\* One iteration of the three loops of a merge; the last leads to the copy.
Merge(n) ==
  LET l == lstart[n]
      r == rstart[n]
      p == piece[n]
      left == /\ l <= LeftHalf(p).end
              /\ r > p.end \/ Better(shared[l], shared[r])
  IN /\ pc[n] = "merge"
     /\ tmp' = [tmp EXCEPT ![n] = Append(@, shared[IF left THEN l ELSE r])]
     /\ IF left THEN lstart' = [lstart EXCEPT ![n] = l + 1] /\ UNCHANGED rstart
                ELSE rstart' = [rstart EXCEPT ![n] = r + 1] /\ UNCHANGED lstart
     /\ IF Len(tmp'[n]) = p.end - p.start + 1
        THEN /\ pc' = [pc EXCEPT ![n] = "copy"]
             /\ i' = [i EXCEPT ![n] = p.start]
        ELSE UNCHANGED <<pc, i>>
     /\ UNCHANGED <<input, shared, piece, forked, file, crashed, starved>>

-----------------------------------------------------------------------------
(* pmerge of a small piece.                                                *)

Small(n) ==
  /\ pc[n] = "start"
  /\ ~IsLarge(piece[n])
  /\ pc' = [pc EXCEPT ![n] = IF piece[n].start <= piece[n].end THEN "fetch" ELSE "nothing"]
  /\ i' = [i EXCEPT ![n] = piece[n].start]
  /\ UNCHANGED <<input, shared, piece, lstart, rstart, tmp, forked, file, crashed, starved>>

\* One iteration of the loop that copies the piece out.
Fetch(n) ==
  LET last == i[n] = piece[n].end
  IN /\ pc[n] = "fetch"
     /\ tmp' = [tmp EXCEPT ![n] = Append(@, shared[i[n]])]
     /\ i' = [i EXCEPT ![n] = IF last THEN 1 ELSE @ + 1]
     /\ pc' = [pc EXCEPT ![n] = IF last THEN "sort" ELSE "fetch"]
     /\ UNCHANGED <<input, shared, piece, lstart, rstart, forked, file, crashed, starved>>

\* One iteration of sort, on the process's own copy.  A grade below 0 aborts the
\* process: main, or a child that leaves its piece as it is.
Sort(n) ==
  LET last == i[n] = Len(tmp[n])
  IN /\ pc[n] = "sort"
     /\ IF Aborts(tmp[n], i[n], Len(tmp[n]))
        THEN /\ crashed' = (n = Root)
             /\ pc' = [pc EXCEPT ![n] = "exited"]
             /\ UNCHANGED <<tmp, i>>
        ELSE /\ tmp' = [tmp EXCEPT ![n] = SortAt(@, i[n], Len(@))]
             /\ i' = [i EXCEPT ![n] = IF last THEN piece[n].start ELSE @ + 1]
             /\ pc' = [pc EXCEPT ![n] = IF last THEN "copy" ELSE "sort"]
             /\ UNCHANGED crashed
     /\ UNCHANGED <<input, shared, piece, lstart, rstart, forked, file, starved>>

\* sort of no entry touches the slot before an array of none.
SortNothing(n) ==
  /\ pc[n] = "nothing"
  /\ crashed' \in BOOLEAN
  /\ pc' = [pc EXCEPT ![n] = "output"]
  /\ UNCHANGED <<input, shared, piece, i, lstart, rstart, tmp, forked, file, starved>>

-----------------------------------------------------------------------------
(* The end of pmerge.                                                      *)

\* Mutant: the copy stops before the last slot.
CopiedShort(n) == i[n] + 1 >= piece[n].end

\* Is this the last slot to copy?
Copied(n) == i[n] = piece[n].end

\* One iteration of the loop that copies a piece back.  Then a child exits.
Copy(n) ==
  /\ pc[n] = "copy"
  /\ shared' = [shared EXCEPT ![i[n]] = tmp[n][i[n] - piece[n].start + 1]]
  /\ i' = [i EXCEPT ![n] = @ + 1]
  /\ pc' = [pc EXCEPT ![n] =
              IF ~Copied(n) THEN "copy" ELSE IF n = Root THEN "output" ELSE "exited"]
  /\ UNCHANGED <<input, piece, lstart, rstart, tmp, forked, file, crashed, starved>>

\* main writes the answer and returns.
Output ==
  /\ pc[Root] = "output"
  /\ file' = [s \in 1..(piece[Root].end + 1) |-> shared[s - 1]]
  /\ pc' = [pc EXCEPT ![Root] = "exited"]
  /\ UNCHANGED <<input, shared, piece, i, lstart, rstart, tmp, forked, crashed, starved>>

-----------------------------------------------------------------------------
Init ==
  /\ input \in Input
  /\ shared = [s \in Slot |-> NoEntry]
  /\ piece = [n \in Node |-> NoPiece]
  /\ pc = [n \in Node |-> IF n = Root THEN "initialize" ELSE "idle"]
  /\ i = [n \in Node |-> 0]
  /\ lstart = [n \in Node |-> 0]
  /\ rstart = [n \in Node |-> 0]
  /\ tmp = [n \in Node |-> <<>>]
  /\ forked = [n \in Node |-> {}]
  /\ file = NoFile
  /\ crashed = FALSE
  /\ starved = FALSE

pmerge(n) ==
  \/ ForkLeft(n) \/ ForkRight(n) \/ Wait(n) \/ Merge(n)
  \/ Small(n) \/ Fetch(n) \/ Sort(n) \/ SortNothing(n)
  \/ Copy(n)

Next ==
  /\ ~crashed
  /\ Initialize \/ Filter \/ (\E n \in Node : pmerge(n)) \/ Output

Spec == Init /\ [][Next]_vars

\* Processes that can run do.
FairSpec == Spec /\ WF_vars(Next)

-----------------------------------------------------------------------------
(* Properties.                                                             *)

\* Type invariant.
TypeOK ==
  /\ input \in Input
  /\ shared \in [Slot -> Entry]
  /\ piece \in [Node -> [start : 0..MAX_MOVIES, end : -1..(MAX_MOVIES - 1),
                        level : 0..(MaxLevel + 1)]]
  /\ pc \in [Node -> {"idle", "initialize", "filter", "start", "fork", "wait", "merge",
                     "nothing", "fetch", "sort", "copy", "output", "exited"}]
  /\ i \in [Node -> 0..MAX_MOVIES]
  /\ lstart \in [Node -> 0..MAX_MOVIES]
  /\ rstart \in [Node -> 0..MAX_MOVIES]
  /\ tmp \in [Node -> Seq(Entry)]
  /\ forked \in [Node -> SUBSET Node]
  /\ file \in Seq(Entry)
  /\ crashed \in BOOLEAN
  /\ starved \in BOOLEAN

\* The answer lists the matching movies, each of them once, whichever processes
\* die or are never created.
AnswerComplete == file # NoFile => IsComplete(file, input, req)

\* If all are created and none dies of a grade below 0, the movies are in the
\* order in which the files put them and marked once.
AnswerSorted ==
  file # NoFile => starved \/ MayBeNegative(input, req) \/ IsSorted(file, input, req)

\* The slots a process reads or writes now.
Slice(n) ==
  IF pc[n] \in {"fetch", "merge", "copy"} THEN piece[n].start..piece[n].end ELSE {}

\* Without locks, no process works on a slot while another does, even if
\* processes could not be created.
SlicesDisjoint ==
  \A m, n \in Node : m # n => Slice(m) \cap Slice(n) = {}

\* What may kill main: files that cannot be read, no request, no match, and a
\* grade below 0.
MayCrash ==
  ~Loads(input) \/ input.requests = <<>> \/ Hit(input, req) = {} \/ MayBeNegative(input, req)

\* The answer is written, unless main may be killed, and no process is left.
Answers ==
  <>((crashed /\ MayCrash) \/
     (file # NoFile /\ \A n \in Node : pc[n] \in {"idle", "exited"}))

=============================================================================
