----------------------------- MODULE ThreadSort -----------------------------
(***************************************************************************)
(* tserver of hw4: one thread for each request filters the movies into its *)
(* row of the tables filter_movie and grade and has them sorted by         *)
(* mergesort, which sorts the right half of a piece in a thread of its own *)
(* and the left half itself.                                               *)
(*                                                                         *)
(* The pieces of a request form a binary tree.  A piece is named by the    *)
(* way to it from the root, the whole row: 0 for a left half, 1 for a      *)
(* right one.  The root and the right halves run in threads of their own.  *)
(***************************************************************************)
EXTENDS MovieSort

CONSTANTS
  Input,        \* what the files may hold
  Rows,         \* rows of the tables, 32 in the code
  SplitSize,    \* 1024 in the code
  MaxLevel,     \* deepest level that is split, 4 in the code
  MaxThreads    \* threads the system lets the process have

ASSUME SortAssumption ==
  /\ Input \subseteq Files
  /\ Rows \in Nat
  /\ SplitSize \in Nat \ {0}
  /\ MaxLevel \in Nat
  /\ MaxThreads \in Nat

Request == 0..(MAX_REQ - 1)
Slot == 0..(MAX_MOVIES - 1)
Node == UNION {[1..k -> {0, 1}] : k \in 0..(MaxLevel + 1)}
Root == <<>>

VARIABLES
  input,      \* the movies and the requests; read once, they do not change
  row,        \* filter_movie and grade, a row for every request; those from
              \* Rows on would be in the memory behind the tables, so that
              \* what is said of rows is said of the program for up to Rows
              \* requests (RequestsHaveRows)
  count,      \* how many slots of a row are filled
  piece,      \* the pieces; those of a split piece are its lp and rp
  pc,         \* where the call of mergesort on a piece is
  at,         \* the slot the sort or the copy of a piece is at
  tmp,        \* tmp_movie and tmp_grade of a merge
  filterpc,   \* where the thread of a request is
  file,       \* the files written
  main,       \* -1 in initialize, then the requests that main has a thread
              \* created for, one more when it has returned
  crashed,    \* the process exited, aborted or was killed
  starved     \* history: requests for which a thread could not be created

vars == <<input, row, count, piece, pc, at, tmp, filterpc, file, main, crashed, starved>>

num_of_reqs == Len(input.requests)
req(r) == input.requests[r + 1]

NoPiece == [start |-> 0, end |-> 0, level |-> 0]
NoFile == <<NoEntry>>
Left(n) == Append(n, 0)
Right(n) == Append(n, 1)
InOwnThread(n) == n = Root \/ n[Len(n)] = 1

\* How many threads there are: main, the filters, and the pieces that run in
\* threads of their own.
Threads ==
  1 + Cardinality({r \in Request : filterpc[r] \in {"filter", "sorting"}})
    + Cardinality({x \in Request \X Node : InOwnThread(x[2]) /\ pc[x[1]][x[2]] \notin {"idle", "done"}})

CanCreate == Threads < MaxThreads

\* Mutant: nothing is created.
NotLaunched == "idle"

\* Where mergesort is in a thread just created, if it was.
Launched == IF CanCreate THEN "start" ELSE "idle"

\* What a join does with the id of a thread that was never created: it is
\* uninitialised, and the join fails or the process does.
JoinNobody == crashed' \in BOOLEAN

-----------------------------------------------------------------------------
(* mergesort(piece n of request r).                                        *)

\* The two halves of a piece.
Halves(p) ==
  LET m == (p.end + p.start) \div 2
  IN  <<[start |-> p.start, end |-> m, level |-> p.level + 1],
        [start |-> m + 1, end |-> p.end, level |-> p.level + 1]>>

IsSmall(p) == p.level > MaxLevel \/ p.end - p.start < SplitSize

\* A small piece is sorted by lib.c.
Small(r, n) ==
  /\ pc[r][n] = "start"
  /\ IsSmall(piece[r][n])
  /\ pc' = [pc EXCEPT ![r][n] = "sort"]
  /\ at' = [at EXCEPT ![r][n] = piece[r][n].start]
  /\ UNCHANGED <<input, row, count, piece, tmp, filterpc, file, main, crashed, starved>>

\* Others are split.  pthread_create may fail, which nobody asks.
Split(r, n) ==
  LET h == Halves(piece[r][n]) IN
  /\ pc[r][n] = "start"
  /\ ~IsSmall(piece[r][n])
  /\ piece' = [piece EXCEPT ![r][Left(n)] = h[1], ![r][Right(n)] = h[2]]
  /\ pc' = [pc EXCEPT ![r][n] = "join", ![r][Left(n)] = "start",
                      ![r][Right(n)] = Launched]
  /\ starved' = IF CanCreate THEN starved ELSE starved \cup {r}
  /\ UNCHANGED <<input, row, count, at, tmp, filterpc, file, main, crashed>>

\* One iteration of sort.
Sort(r, n) ==
  LET k == at[r][n]
      end == piece[r][n].end
  IN /\ pc[r][n] = "sort"
     /\ k <= end
     /\ IF Aborts(row[r], k, end)
        THEN crashed' = TRUE /\ UNCHANGED <<row, at, pc>>
        ELSE /\ row' = [row EXCEPT ![r] = SortAt(@, k, end)]
             /\ at' = [at EXCEPT ![r][n] = k + 1]
             /\ pc' = [pc EXCEPT ![r][n] = IF k = end THEN "done" ELSE "sort"]
             /\ UNCHANGED crashed
     /\ UNCHANGED <<input, count, piece, tmp, filterpc, file, main, starved>>

\* sort on a row without a match marks the slot before it: the last one of the
\* request before, or, for the first request, one outside the table.  It reads
\* the slot
SortNothing(r, n) ==
  /\ pc[r][n] = "sort"
  /\ piece[r][n].end < piece[r][n].start
  /\ IF r = 0
     THEN /\ crashed' \in BOOLEAN
          /\ pc' = [pc EXCEPT ![r][n] = "done"]
          /\ UNCHANGED tmp
     ELSE /\ tmp' = [tmp EXCEPT ![r][n] = <<add_secret(row[r - 1][MAX_MOVIES - 1])>>]
          /\ pc' = [pc EXCEPT ![r][n] = "mark"]
          /\ UNCHANGED crashed
  /\ UNCHANGED <<input, row, count, piece, at, filterpc, file, main, starved>>

\* and writes it, whatever was written there in between.
Mark(r, n) ==
  /\ pc[r][n] = "mark"
  /\ row' = [row EXCEPT ![r - 1][MAX_MOVIES - 1] = Head(tmp[r][n])]
  /\ tmp' = [tmp EXCEPT ![r][n] = <<>>]
  /\ pc' = [pc EXCEPT ![r][n] = "done"]
  /\ UNCHANGED <<input, count, piece, at, filterpc, file, main, crashed, starved>>

\* Mutant: a thread that was created is taken for one that has ended.
EndedEarly(r, n) == pc[r][n] # "idle"

Ended(r, n) == pc[r][n] = "done"

\* The left half has returned and the thread of the right half has ended.
Join(r, n) ==
  /\ pc[r][n] = "join"
  /\ pc[r][Left(n)] = "done"
  /\ \/ Ended(r, Right(n)) /\ UNCHANGED crashed
     \/ pc[r][Right(n)] = "idle" /\ JoinNobody
  /\ pc' = [pc EXCEPT ![r][n] = "merge"]
  /\ UNCHANGED <<input, row, count, piece, at, tmp, filterpc, file, main, starved>>

\* Mutant: titles do not count in a merge.
TakesLeftByPoints(l, s, q) ==
  l.start <= l.end /\ (s.start > s.end \/ q[l.start].pts > q[s.start].pts)

\* Does the left half give the next entry?
TakesLeft(l, s, q) ==
  l.start <= l.end /\ (s.start > s.end \/ Better(q[l.start], q[s.start]))

\* One iteration of the three loops of a merge.  They advance lp and rp.
Merge(r, n) ==
  LET h == IF TakesLeft(piece[r][Left(n)], piece[r][Right(n)], row[r])
           THEN Left(n) ELSE Right(n)
      p == piece[r][n]
  IN /\ pc[r][n] = "merge"
     /\ tmp' = [tmp EXCEPT ![r][n] = Append(@, row[r][piece[r][h].start])]
     /\ piece' = [piece EXCEPT ![r][h].start = @ + 1]
     /\ IF Len(tmp[r][n]) = p.end - p.start
        THEN /\ pc' = [pc EXCEPT ![r][n] = "copy"]
             /\ at' = [at EXCEPT ![r][n] = p.start]
        ELSE UNCHANGED <<pc, at>>
     /\ UNCHANGED <<input, row, count, filterpc, file, main, crashed, starved>>

\* One iteration of the loop that copies the merged piece back.
Copy(r, n) ==
  LET i == at[r][n]
      p == piece[r][n]
  IN /\ pc[r][n] = "copy"
     /\ row' = [row EXCEPT ![r][i] = tmp[r][n][i - p.start + 1]]
     /\ at' = [at EXCEPT ![r][n] = i + 1]
     /\ IF i = p.end
        THEN /\ pc' = [pc EXCEPT ![r][n] = "done"]
             /\ tmp' = [tmp EXCEPT ![r][n] = <<>>]
        ELSE UNCHANGED <<pc, tmp>>
     /\ UNCHANGED <<input, count, piece, filterpc, file, main, crashed, starved>>

-----------------------------------------------------------------------------
(* filter(r) and main.                                                     *)

\* initialize reads all movies and requests, or it does not return.
Initialize ==
  /\ main = -1
  /\ IF Loads(input) THEN main' = 0 /\ UNCHANGED crashed ELSE crashed' = TRUE /\ UNCHANGED main
  /\ UNCHANGED <<input, row, count, piece, pc, at, tmp, filterpc, file, starved>>

matches(r) == Cardinality(Hit(input, req(r)))

\* Mutant: the piece ends behind the last match.
WholeAndOne(r) == [start |-> 0, end |-> matches(r), level |-> 0]

Whole(r) == [start |-> 0, end |-> matches(r) - 1, level |-> 0]

\* A filter fills its row and has another thread sort it.
Filter(r) ==
  /\ filterpc[r] = "filter"
  /\ \E rounding \in Roundings(input, req(r)) :
       LET m == Matches(input, req(r), rounding) IN
       row' = [row EXCEPT ![r] = [k \in Slot |-> IF k < Len(m) THEN m[k + 1] ELSE @[k]]]
  /\ count' = [count EXCEPT ![r] = matches(r)]
  /\ piece' = [piece EXCEPT ![r][Root] = Whole(r)]
  /\ pc' = [pc EXCEPT ![r][Root] = Launched]
  /\ filterpc' = [filterpc EXCEPT ![r] = "sorting"]
  /\ starved' = IF CanCreate THEN starved ELSE starved \cup {r}
  /\ UNCHANGED <<input, at, tmp, file, main, crashed>>

\* It joins that thread and writes the answer.
Output(r) ==
  /\ filterpc[r] = "sorting"
  /\ \/ Ended(r, Root) /\ UNCHANGED crashed
     \/ pc[r][Root] = "idle" /\ JoinNobody
  /\ file' = [file EXCEPT ![r] = [k \in 1..count[r] |-> row[r][k - 1]]]
  /\ filterpc' = [filterpc EXCEPT ![r] = "done"]
  /\ UNCHANGED <<input, row, count, piece, pc, at, tmp, main, starved>>

\* main creates a thread for every request.
Create ==
  /\ main \in 0..(num_of_reqs - 1)
  /\ filterpc' = [filterpc EXCEPT ![main] = IF CanCreate THEN "filter" ELSE "failed"]
  /\ main' = main + 1
  /\ starved' = IF CanCreate THEN starved ELSE starved \cup {main}
  /\ UNCHANGED <<input, row, count, piece, pc, at, tmp, file, crashed>>

\* It joins them and returns.  An id that was never set is zero, and a join of
\* that kills the process.
Return ==
  /\ main = num_of_reqs
  /\ \/ /\ \A r \in 0..(main - 1) : filterpc[r] = "done"
        /\ main' = main + 1
        /\ UNCHANGED crashed
     \/ /\ \E r \in 0..(main - 1) : filterpc[r] = "failed" /\ \A q \in 0..(r - 1) : filterpc[q] = "done"
        /\ crashed' = TRUE
        /\ UNCHANGED main
  /\ UNCHANGED <<input, row, count, piece, pc, at, tmp, filterpc, file, starved>>

-----------------------------------------------------------------------------
Init ==
  /\ input \in Input
  /\ row = [r \in Request |-> [k \in Slot |-> NoEntry]]
  /\ count = [r \in Request |-> 0]
  /\ piece = [r \in Request |-> [n \in Node |-> NoPiece]]
  /\ pc = [r \in Request |-> [n \in Node |-> "idle"]]
  /\ at = [r \in Request |-> [n \in Node |-> 0]]
  /\ tmp = [r \in Request |-> [n \in Node |-> <<>>]]
  /\ filterpc = [r \in Request |-> "none"]
  /\ file = [r \in Request |-> NoFile]
  /\ main = -1
  /\ crashed = FALSE
  /\ starved = {}

MergeSort(r, n) ==
  \/ Small(r, n) \/ Split(r, n) \/ Sort(r, n) \/ SortNothing(r, n) \/ Mark(r, n)
  \/ Join(r, n) \/ Merge(r, n) \/ Copy(r, n)

Next ==
  /\ ~crashed
  /\ \/ \E r \in Request, n \in Node : MergeSort(r, n)
     \/ \E r \in Request : Filter(r) \/ Output(r)
     \/ Initialize \/ Create \/ Return

Spec == Init /\ [][Next]_vars

\* Threads that can run do; one that could would have to wait for ever.
FairSpec == Spec /\ WF_vars(Next)

-----------------------------------------------------------------------------
(* Properties.                                                             *)

\* Type invariant.
TypeOK ==
  /\ input \in Input
  /\ row \in [Request -> [Slot -> Entry]]
  /\ count \in [Request -> 0..MAX_MOVIES]
  /\ piece \in [Request -> [Node -> [start : 0..MAX_MOVIES, end : -1..(MAX_MOVIES - 1),
                                     level : 0..(MaxLevel + 1)]]]
  /\ pc \in [Request -> [Node -> {"idle", "start", "sort", "mark", "join", "merge", "copy",
                              "done"}]]
  /\ at \in [Request -> [Node -> 0..MAX_MOVIES]]
  /\ tmp \in [Request -> [Node -> Seq(Entry)]]
  /\ filterpc \in [Request -> {"none", "filter", "failed", "sorting", "done"}]
  /\ file \in [Request -> Seq(Entry)]
  /\ main \in -1..(num_of_reqs + 1)
  /\ crashed \in BOOLEAN
  /\ starved \subseteq Request

\* The one way in which a request reaches into the row of another.
Spoiled(r) ==
  /\ Cardinality(Hit(input, req(r))) = MAX_MOVIES
  /\ r + 1 < num_of_reqs
  /\ Hit(input, req(r + 1)) = {}

Complete(r) == IsComplete(file[r], input, req(r))
Sorted(r) == IsSorted(file[r], input, req(r))

\* Whatever the threads of this and other requests do, and whichever could not
\* be created, every answer lists the matching movies, each of them once.  Only a
\* request that fills its row before a request without a match may get another
\* answer.
AnswersComplete == \A r \in Request : filterpc[r] = "done" => Spoiled(r) \/ Complete(r)

\* The answer of a request that got all its threads lists the movies in the
\* order in which the two files put them, each marked once.
AnswersSorted ==
  \A r \in Request : filterpc[r] = "done" => Spoiled(r) \/ r \in starved \/ Sorted(r)

\* What tserver is for, "using multithread to do merge sort", without these
\* exceptions.  It is broken by a thread that cannot be created.
AlwaysRight ==
  \A r \in Request : filterpc[r] = "done" => Complete(r) /\ Sorted(r)

\* The assertion of initialize, num_of_reqs <= MAX_REQ, where MAX_REQ is "number
\* of requests", lets a filter run only for a request that has a row.
RequestsHaveRows == \A r \in Request : filterpc[r] = "filter" => r < Rows

\* The slots a piece reads or writes now; Mark, which writes into the row of
\* another request, is not about a slot of the piece.
Slice(r, n) ==
  IF pc[r][n] \in {"sort", "merge", "copy"} THEN piece[r][n].start..piece[r][n].end ELSE {}

\* Without locks, two threads of a request never work on the same slot: a piece
\* rests while its halves are sorted, and the halves rest while they are merged.
SlicesDisjoint ==
  \A r \in Request : \A m, n \in Node : m # n => Slice(r, m) \cap Slice(r, n) = {}

\* What may kill the process: a file that cannot be read, a first request
\* without a match, a grade below 0, a thread that could not be created.
MayCrash ==
  \/ ~Loads(input)
  \/ num_of_reqs > 0 /\ Hit(input, req(0)) = {}
  \/ \E q \in Range(input.requests) : MayBeNegative(input, q)
  \/ starved # {}

\* Every request is answered, unless the process may be killed.
AllAnswered == <>(main > num_of_reqs \/ (crashed /\ MayCrash))

=============================================================================
