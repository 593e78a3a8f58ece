# A verification development of SP2021

SP2021 holds four system programming exercises in C.  Each is a small system in
which processes, threads or jumps share state, and each gets its own modules
here: TLA+ models translated from the source, TLC configurations that check
them on small instances, and theorems that TLAPS proves for every instance.

    tlc -config MCBooking_mixed.cfg MCBooking       # check one run
    tlapm BookingServersProofs.tla                  # check the proofs

`PROJECT.json` is the index: which lines of the source every definition stands
for (`map`), which mutation of which definition breaks every property
(`mutants`), where the code is hard to test (`hazards`), what disagrees with its
own messages (`findings`), and what is proved (`theorems`).

## 1. Inventory

### hw1: booking servers (`src/hw1/server.c`)

Users 902001..902020 may hold bookings of three kinds, at most 15 in total.  One
source is compiled into a read server (`READ_SERVER`, shows a record) and a
write server (`WRITE_SERVER`, changes one).  Any number of both run on one file.

* **State.** The file `bookingRecord`; POSIX record locks on it; per process the
  table `requestP`, the sets `master` and `readfds` of its select loop, and the
  arrays `read_lock` and `write_lock`.
* **Operations.** accept; first line (the id: lock, load, show); second line
  (command: check, store, unlock; or `Exit`); end of stream; failed read.
* **Interaction.** Processes meet only in the file and its locks; connections of
  one process meet in the lock arrays, since a POSIX lock never refuses the
  process that owns it and one unlock drops it for all connections.
* **Hard.** Interleavings of processes at every shared access; stale records
  between two rounds of select; `break` after each closed connection; a process
  that dies with a record half stored; overflow of the sum.
* **Correct means.** A writer is alone with its record; locks are held exactly as
  long as a connection needs them; what a client was shown is still true when
  its command is computed; limits hold; clients that leave are noticed.

### hw2: tournament (`src/hw2/battle.c`, `player.c`, `status.h`)

A tree of battle processes with eight players and seven agents at the leaves.
Parent and child are joined by two pipes; a player that loses in the winners'
bracket passes its `Status` through a FIFO to an agent in the losers' bracket.

* **State.** Per battle the two `Status`, the loser and its phase (fighting,
  waiting for the loser, relaying for the winner, done); per player its `Status`
  and full HP; pipes, FIFOs, exit states; the constant tables.
* **Operations.** fork; a round; `wait`; relay up and down; exit; send, receive,
  recover, hand over, take over.
* **Interaction.** Strict turns over the pipes, rendezvous at the FIFO's open,
  exit and `wait`.
* **Hard.** Blocking order across levels of the tree (a battle waits for its
  loser before it relays); `wait(NULL)` takes any child; `read` returning 0
  leaves a stale `Status`; the tables of two programs must agree; termination.
* **Correct means.** Every battle has the result it has on paper; exactly one
  process plays for a player; nobody reads a closed pipe; all exit.

### hw3: thread library (`src/hw3/scheduler.c`, `threadtools.h`, `main.c`)

User-level threads with setjmp and longjmp, switched at `thread_yield` when a
SIGALRM or SIGTSTP is pending, set aside in `async_read` until select finds
input, and freed by `thread_exit`.  `threads.c` holds three functions that use it:
Fibonacci numbers, the 3n + 1 problem, and the greatest sum of adjacent numbers
that come in through a FIFO.

* **State.** Ready and waiting queue, `rq_current`, the environments, the set
  `readfds`, pending signals, the timer, the FIFOs; in every block the argument
  and the ints `i`, `x`, `y` of the thread's function.
* **Operations.** The macros, the handler, every branch of `scheduler()`; one
  pass of the loop of each function.
* **Interaction.** Jumps carry a status to the scheduler; the kernel delivers
  signals only in the two windows of `thread_yield`; writers fill the FIFOs.
* **Hard.** Two signals pending at one yield; threads awakened between the jump
  and the removal of RUNNING; arrays shortened while they are scanned; blocking
  in select with both signals blocked; variables that live across switches;
  loops that never end (the argument 0) beside loops that must; lines without a
  number; ints that wrap.
* **Correct means.** No thread lost or queued twice; RUNNING always a thread; a
  read behind `async_read` finds input; ready threads get turns; the program
  ends exactly when all threads have; each thread prints what it would alone.

### hw4: merge sort of movies (`src/hw4/server.c`, `lib.c`, `header.h`)

A file of movies and requests on the standard input are read; each request
selects movies and grades them by how much their genres resemble its own; the
selected movies are split into pieces, sorted by `lib.c`, and merged, with
threads (`tserver`, many requests at once) or processes (`pserver`, the first
request only).

* **State.** Per request a row of `filter_movie` and `grade`, or the shared mappings
  `p_movie` and `p_grade`; per piece where its thread or process is, and the
  temporary arrays of its merge.
* **Operations.** initialize, filter, split and create or fork, sort one entry,
  join or wait,
  merge one entry, copy back one entry, write the answer.
* **Interaction.** No locks at all: what keeps threads apart is the shape of the
  pieces and the joins.
* **Hard.** Slices written at once; merges before joins; halves of odd size;
  threads or processes that cannot be created, and children that abort, which
  nobody asks; a request without a match, for which `sort` touches the slot before
  the first; grades that differ only by rounding; input that kills the process.
* **Correct means.** No answer loses or repeats a title; every answer is in order,
  but for what a missing thread or process left unsorted; no slot is used by two
  at a time; everything is answered, unless the input kills the process.

`sample_judge.py`, `sample_execution.sh` and the Makefiles are test and build
drivers.  They tell what clients and writers do, and are not modelled.

## 2. Plan

Done, in this order: hw1 (the most concurrency and the only persistent state),
hw3 (the most intricate sequential control, with asynchronous signals), hw2,
hw4, then the thread functions of hw3 on the library and the input of hw4.
Then the proofs: first hw1, hw3 and the slices of tserver, then the two
refinements, the slices of pserver, hw2, the types and the completeness of the
answers of both servers of hw4, what the threads of hw3 print, the agents of hw2,
the order of the answers of hw4, and last the results of hw2.

## 3. Modules

| Module | What it is |
| --- | --- |
| `BookingServers` | hw1, all processes with locks, connections, crashes |
| `BookingLedger` | what hw1 promises: accounts, shared readers, one writer |
| `BookingRefinement` | the mapping of the first to the second |
| `BookingServersProofs` | theorems about `BookingServers`, and that it keeps the promise of `BookingLedger` |
| `MCBooking` | instances for TLC |
| `UserThreads` | hw3, library, signals, timer, FIFOs |
| `ThreadLife` | what hw3 promises a thread |
| `ThreadsRefinement` | the mapping of the first to the second |
| `UserThreadsProofs` | theorems about `UserThreads`, and that it keeps the promise of `ThreadLife` |
| `ThreadPrograms` | hw3, the thread functions on `UserThreads`, and what they are for |
| `ThreadProgramsProofs` | theorems about `ThreadPrograms` |
| `NaturalRecursion` | induction and recursion on numbers, lemmas for the proofs of hw2 to hw4 |
| `MCThreads`, `MCPrograms` | instances for TLC |
| `Tournament` | hw2, all processes, pipes and FIFOs |
| `TournamentProperties` | how the processes must get along: pipes, waits, who plays for whom |
| `TournamentOnPaper` | the results on paper: the sheet of all battles, filled wave by wave |
| `TournamentProofs` | theorems about `Tournament` |
| `TournamentTables` | the tables of battle.c, player.c, player_status.txt |
| `MCTournament` | instances for TLC |
| `MovieFiles` | hw4, what the servers read, when that kills them, grades |
| `MovieSort` | hw4, entries and their order, `lib.c`, and what an answer should be |
| `MovieSortProofs` | lemmas about `MovieSort`, for both servers |
| `ThreadSort` | hw4, tserver: main, filters, threads of mergesort |
| `ThreadSortProofs` | theorems about `ThreadSort` |
| `ProcessSort` | hw4, pserver: main and the processes of pmerge |
| `ProcessSortProofs` | theorems about `ProcessSort` |
| `MCMovies`, `MCThreadSort`, `MCProcessSort` | instances for TLC |

### BookingServers and the code

One action is the code of one process between two accesses to what processes
share, so that every order of those accesses is explored.  `Select` is the call
of select, `Turn` the loop over descriptors (lowest first), and `Handle(s, f)`
the body for one descriptor, with an action per way through it: `TurnAway` (bad
id), `FindLocked`, `LockForReading` or `LockForWriting` followed by
`LoadRecord`, `ReaderLeaves`, `WriterLeaves` (all ways to end without storing)
and `Book`, then three `StoreItem` (the loop of writes) and `FinishStore`.
`ConnectOff` includes the `break` behind each call: the rest of the round is
dropped.  A text is reduced to what the code finds in it: an id, no id, a
command of three ints after `atoi`, `Exit`, something else.  `Plus` wraps like
the int of the build.  `Die` stands for a kill, SIGPIPE, or the `ERR_EXIT` of
`handle_read` on a chunk without a newline; `AcceptFails` for EMFILE.

`hungup` and `reset` are connections whose next read returns 0 or -1.  `damaged`
is the one history variable: users whose record a dying process left half stored.

### UserThreads and the code

`pc` says what control is in: a thread's function (`thread`), the window for
SIGTSTP or SIGALRM (`tstp`, `alrm`), or a place in `scheduler()`: the select that
does not wait (`poll`), the loop behind it (`scan`), the three-way branch on the
status (`switch`), the select that waits (`block`) and the loop behind that
(`rescan`).  `env[t]` is where a jump to `t` continues.  One iteration of a loop
over the waiting queue is one action (`Wake`), including the shift of the array
and the step of `i` that happens only without it.  `Without` and `SwapOut` are the
two ways the code takes an entry out of an array.

What a thread function computes is left to `ThreadPrograms`: here it may yield
or exit at each library call, and a reader calls `async_read` before each of
them, as `max_subarray` does.  `Library` is what the library does on its own,
`Run` adds the calls of the functions.  A FIFO is `unopened` (no writer yet; select does not report it), `open`
and empty, has `data`, or is `closed` (select reports it, read returns 0).

### ThreadPrograms and the code

`SpecPrograms` composes the functions with the library: a pass of a function's
loop happens together with the call that ends it, `ThreadYield` (`NextPass`) or
`ThreadExit` (`LastPass`), because no other thread runs between the jump into a
function and its next call; the read of `max_subarray` comes right after the
jump back from `async_read`.  `fibonacci`, `collatz` and `max_subarray` are the
assignments of one pass, on ints that `Wrap`; `i` is 0 before the first pass,
where the code starts to count.  A line of a FIFO holds a number or `NoNumber`,
which the end of the stream gives too; then `curr` is anything in `Garbage`.
`printed` and `heard` are histories of the first `Kept` lines.  The reference
definitions are `Fibonacci`, `Orbit` and `Sums`.

### Tournament and the code

Each process has its own `pc`; each pipe is a sequence of `Status`; reads block
while theirs is empty.  A round is one action, from the second read to the
answers, because nothing in it is shared until the answers are written and a
child reads only its own.  `Wait` is the `wait(NULL)` that takes any exited
child, `RelayUp`/`RelayDown` one turn of the relay loop, `HandOver` the meeting
of player and agent at the FIFO.

### MovieFiles, MovieSort and the code

A file is a sequence of lines and a sequence of requests, each with what the
parser finds in it; `Loads` says whether `initialize` returns, and so stands for
its exits, assertions and null pointers.  A title is its rank under `strcmp`, a
keyword the set of titles that contain it.  A grade is the cosine between two
lists of genres, computed in doubles.  `grade` keeps what the sort can see of it:
its sign and the order of the exact cosines, which `Above` compares without
dividing.  Where two exact cosines are equal but the lists differ, or a sum of
products cancels, rounding decides (`Rounded`), and the models take every outcome.
`IsComplete` and `IsSorted` are the specification of an answer; `Before` is its order, by exact cosines, and by title only where the
doubles cannot differ.

### ThreadSort, ProcessSort and the code

Pieces, and the processes of pserver, are the nodes of a binary tree, named by the
way from the root, 0 for left and 1 for right.  One action is one iteration of a loop over shared slots, so that loops of
different threads interleave.  In `ThreadSort` the left half runs in the caller's
thread and the right half in a thread of its own; `piece` holds the structs `lp`
and `rp`, whose `start` the merge advances as the code does.  In `ProcessSort` a small
piece is copied out (`Fetch`), sorted in private memory (`Sort`) and copied back.
`CanCreate` says whether the process may have another thread, and a fork may fail
at any time; the code goes on, and so do the models.  An assertion of `argmax`
that fails ends tserver, and in pserver only the child, which leaves its piece as
it was.  A join of an id that was never
set, and a sort of nothing at the edge of a table, are undefined in C: the models
let them do nothing or kill the process.  For a request without a match behind
another one, that slot is the last of the row before: `SortNothing` reads it, `Mark`
writes it back, in a race with the threads of that row.  `starved` is a history variable, it
tells that some thread or process was denied.

## 4. Runs

| Run | Instance | Shows |
| --- | --- | --- |
| `booking_mixed` | a read server with 2 connections, a write server with 1, 1 user, limit 2, with fairness; 90,486 states | `TypeOK`, `LocksMatchConnections`, `ShownIsStored`, `ImplementsLedger`, `LeavingUnlocks` |
| `booking_writers` | 2 write servers with 2 and 1 connections, 2 users; 197,154 states | `BookingsWithinLimit`, `WriterAlone`, `OnlyTheLockHolderStores` |
| `booking_crash` | 1 write server | violates `NeverOverLimit` |
| `booking_overflow` | 1 write server, an int of 4 bits | violates `BookingsWithinLimit` |
| `threads_queues` | 4 threads, 2 of them readers; 55,372 states | the six invariants of `UserThreads`, `ImplementsLife` |
| `programs_turns` | the three threads of `init_threads` with their functions, several arguments, with fairness; 128,032 states | `TypeOKPrograms`, `PrintedRight`, `ReadyRuns`, `InputWakes`, `Finishes` |
| `tournament_small` | 4 battles, 3 players, 2 agents, 27 line-ups, all interleavings; 15,752 states | results, pipes, `wait`, `OneVoice`, `Ends` |
| `tournament_tables` | the real tables, 65 line-ups, one schedule; 15,775 states | `ResultsAreRight`, `SuccessorExists`, `Ends` |
| `sorting_threads` | 14 inputs, up to 2 requests, 5 movies, 2 levels of splits, room for 5 threads; 91,047 states | `TypeOK`, `AnswersComplete`, `AnswersSorted`, `SlicesDisjoint`, `AllAnswered` |
| `sorting_processes` | 23 inputs, 5 movies, 2 levels of splits, forks that may fail; 90,697 states | `TypeOK`, `AnswerComplete`, `AnswerSorted`, `SlicesDisjoint`, `Answers` |
| `sorting_limit` | 1 input, room for 4 threads | violates `AlwaysRight` |
| `sorting_rows` | 2 requests, tables of 1 row | violates `RequestsHaveRows` |

**Why the bounds are enough.**  In hw1 conflicts are between two connections on
one record, of one process or of two, of one kind or of both; the instances have
each of these pairs, and a third party for the count in `read_lock`.  The limit
is 2 instead of 15 and an int has 4 or 5 bits, which keeps every comparison (at the
limit, one above, below zero, overflow) reachable.  `TableSize` bounds the
descriptors of a process; `AcceptFails` is reached.  `SYMMETRY` over users is used
where only invariants and action properties are checked.  In hw3 four threads
give a ready queue with a first, a middle and a last entry while another waits,
and two readers can be awakened by one select, which is what the shift in the
loop is about.  Nothing in hw3 or hw2 grows without bound: queues are bounded by
the threads, pipes by the turns (`OneMessage`).  In hw2 the small tree has all that
matters in the large one (both brackets, a relay in each, an agent of a leaf
and one of an inner battle), and the large one checks the tables.
The arguments and numbers of `programs_turns` make a
loop end at once, end later and not end at all (0), sums wrap and turn negative,
and lines lack a number; `Kept` is as long as the longest of the loops that end.
In hw4 five movies and two levels give pieces of odd and even size, a half that
is split and a half that is not, merges that use up either half first.  Two
files have equal titles, equal lists of genres, lists that differ in length only,
a list of zeros and one that is too long; requests match all, some and no
movies, in either order, with grades that tie, vanish and are negative.  The room
for threads suffices in some interleavings and not in others.

**One schedule for the large tree.**  The 29 processes of the real tree have too
many interleavings.  Each pipe and FIFO has one writer and one reader, a reader
waits for its message and nobody tests whether one is there, so two enabled
steps of different processes commute, and `wait` is the only choice (which of
two exited children), whose outcome changes no `Status`.  `OrderSpec` therefore
runs the first process that can go on.  The small tree is checked in every order.

**Deadlock** is checked except for hw2 and hw4, which really end.  hw3's model never
deadlocks in TLC's sense because SIGTSTP may always come; that the scheduler
does not hang is `StopsOnlyRightly`.

## 5. Fairness

* **hw1**: weak fairness of `Serve(s)` (a process that is not blocked in select
  goes on) and of select once the peer of a connection is gone.  No client has
  to send a line, no process has to die or restart.  `LeavingUnlocks` assumes in
  addition that new clients stop coming: descriptors are visited from below and
  each closed connection drops the rest of the round, so a stream of
  short-lived clients can keep the loop from ever visiting a higher descriptor.
* **hw3**: weak fairness of the program (one stack of control) and of the timer.
  Signals and writers are free not to come.  The properties are stated for a
  positive timeslice; with `Timeslice = 0` no alarm comes and `ReadyRuns` fails.
  `ThreadPrograms` takes over both.  `Finishes` asks of the inputs only that they
  do not fail to come for ever.
* **hw2**: weak fairness of every process.
* **hw4**: weak fairness of the program as a whole: some thread or process that
  can run does.  Every step is progress, so that this is enough.

## 6. What is proved

**`BookingServersProofs`**, for any sets of servers and users, any table sizes,
limit and int width.  `TypeOK` is not inductive: that a counter of readers stays
above zero follows only from what it counts.  The invariant has these parts:

* *Shape*, *Slots* and *Phases*: types; which slots of the request table name a
  user; what `cur`, `k` and `readfds` are in each phase of a process;
* *Counts*: `read_lock[s][u]` is the number of connections of `s` that use `u`;
* *Marks*: `write_lock[s][u]` is set exactly while a connection of `s` uses `u`, and
  there is never a second one;
* *Flocks* and *Exclusive*: the kernel's locks follow the connections, and a write
  lock excludes every other;
* *Shown*, for `ShownIsStored`, and *InLimit* (the items already written are the
  booking's, and the booking is within the limit), for the limit.

`WriterAlone` follows from *Exclusive* between processes and from *Marks* within
one; without *Counts*, `ReaderLeaves` could not know that the last connection is
the last.  `LimitHolds` proves `BookingsWithinLimit` under `NoOverflow`, which bounds
the numbers of a command by a third of an int; `booking_overflow` shows that some
such assumption is needed, and `booking_crash` that the exception for `damaged`
records in the property is.

**`UserThreadsProofs`**, for any threads, readers, order of creation and
timeslice.  The invariant: types, `NoThreadLost`, `readfds` names
exactly the waiting queue, `AlarmGoesOn`, *Control* (per `pc`: RUNNING exists, what
the status may be, the queues at a block, and that after a block somebody who was
found readable is still to be awakened) and *Inputs* (a ready thread whose
environment is behind a read has input, except RUNNING at the moment it asks for
some).  The six invariants of the run follow.

**`ThreadProgramsProofs`**, for any functions, arguments, inputs and width of an
int.  `ProgramsAreThreads` shows that the functions on the library implement the
specification of the library (every pass comes with a library call, everything
else leaves their data alone), so that all theorems above hold of the whole
program.  `ProgramsTypeCorrect` needs the bound that `Wrap` gives every result, a
lemma on remainders.  `FibonacciPrintsSums` says of a thread that runs fibonacci
that it prints 1, 1 and then the wrapped sum of the two numbers before; its
invariant ties `i`, `x` and `y` to the end of `printed`.

`PrintsRight` proves `PrintedRight` of all three functions.  The invariant says of each
thread what its block holds between two passes: fibonacci's `x` and `y` are the last two
numbers of the reference, collatz' `x` is where the way of its argument has got to, and
max_subarray's `x` and `y` are the greatest sum that ends with the last number it was sent and
the greatest of all.  *PassesAt* counts: a thread that is over has printed as many numbers as
its loop has passes, every other thread fewer.  The references are recursive functions on
numbers; that such a function exists, and what it is at n + 1, is proved in
`NaturalRecursion`, with induction replaced by the choice of a least number.

**`ThreadSortProofs`**, for any files, any number of levels and threads, and as many
requests as the tables have rows, 32.  (The model gives each further request a row of
its own.  In the code its row is memory behind the tables, which other things use; so
the theorems and the run say nothing of the program beyond 32 requests, and
`sorting_rows` shows that it lets them through.)  `SlicesStayDisjoint` is not about what the pieces are at the start only:
a merge advances the `start` of the halves, and a piece whose thread was denied
looks like one that has not begun.  The invariant of a row therefore says who *owns*
slots: a call at work owns its piece, and, while its parent waits, so does a half
that has not begun or is done.  Pieces that are owned are disjoint; while a piece
waits its halves cover exactly its slots (*Halved*), and in every other state of a
piece the halves rest (*Resting*).  `Splits`, `GoesOn`, `Joins`, `Advances` and `Fills`
prove, one for each way a row changes, that this is kept; *FilteredFirst* and
*CreatedInOrder* say that a filter fills a row nobody works on.

`NothingIsLost` (`AnswersComplete`) rests on it: while slots have one owner, an entry can
only be where its owner put it.  *Placed* says where a call is in its piece and how long its
temporary array is, *Merged* that what a merge has taken is in that array, and *AllThere*
that every movie that matches is *carried* by some slot, in the slot itself or, while a
piece is copied back, in the entry about to be copied there.  That is enough for
completeness: as many slots as there are matches, and a match in each way of naming
them, leave no room for a title twice (`AnswerOfAll`, by counting).  When the root rests,
every piece rests (`AllAtRest`), so that the answer is written from slots only.  Entries of
a row change from outside in one way, when the request behind it has no match
(`MarkSpoils`); this is the case that `Spoiled` takes out of the property.  `TypeCorrect` is proved
in the same induction, as the bounds of `at` and `tmp` follow from *Placed*.

`AnswersInOrder` (`AnswersSorted`) says what a row looks like while its request is sorted, if it
got all its threads and was not spoiled (*Clear*): per call, which slots of its piece
are still as the filter left them, how far the piece is sorted, that a half whose call
is done is in order until its parent has merged it, and how far it is copied back.  All
entries of a row come from one rounding of the grades (*Made*), because the order of two
movies may depend on it.  That a selection puts the right entry next (`SortGoesOn`) and that a
merge does (`MergeGoesOn`) are facts about the order of entries only; it is total and transitive, for any
lists of genres.  Then each kind of step has a lemma that it leaves the row clear,
and `OtherClear` says so of a step in another row.

**`ProcessSortProofs`**, for any files, any number of levels and movies.  The processes
of pserver share nothing but the mapping, and a fork may fail, so a piece has a
process, or never gets one, or its process has died.  A process *has* a slot if it works
on it itself, or if it lies in a half that its parent left to it.  The invariant: what
a process has, no other has (*Disjoint*); a process exists only below one that
exists, and has its half of it (*Levels*, *Forks*); only large pieces are
split, so that only main's piece can be empty (*NonEmpty*, the corner in which main
sorts nothing at the edge of its table); and main filters before anybody works.

`TypeCorrect` and `NothingIsLost` (`AnswerComplete`) have the parts *Placed* and *Kept*
in addition: what a process has taken of its piece, fetched or merged, is in its array,
and every match is carried by a slot or by the array that is about to be copied there.
A child that dies copies nothing, so that its slots hold what they held before.  Before
main writes, all others have ended or were never forked (`AllDone`): a process that
goes on has a parent that waits for it, up to main.

`AnswerInOrderOfGrades` (`AnswerSorted`) goes the same way, if no fork failed and no grade
is below 0 (then no child dies of an assertion, `NoAbort`).  Slots of a process are
*claimed*: while a process works on them, while they are the right half that is to be
forked, and while main has its answer to write; they look as *SortedAt* says, and nobody
else writes them (`ClaimsApart`).

**`MovieSortProofs`** holds what both need of `MovieSort`: that the best entry of a piece is
in the piece, so that `sort` swaps (`ArgmaxInside`, `SortSwaps`); that the matches are
finitely many, each an entry with the grade and the title of its movie (`HitFinite`, `MatchesAll`,
`MatchesAre`); the order of entries, what a selection and a merge make of it, and that an ordered
answer is the one that is asked for (`AnswerInOrder`); the counting argument; and that a way up
a tree ends (`WayUp`).

**`TournamentProofs`**, for any tree of battles, any line-up and any powers.  What the
processes do at one moment follows from a relation between two neighbours.  *Links* says,
for a battle and each of its two children, what the battle has to do with the child (it
waits for its message, holds it, is listened to, has parted with it) together with what
the child may be doing then (it owes a message, has one in the pipe, waits for the
answer, was answered, is done), and what is in the two pipes: never more than one
`Status`, and none left for a reader that is gone.  `OneMessage`, `NoReadAtEnd` and
`WaitsForLoser` follow.  *Tree* says that only what hangs on the root was ever born, which
stands in for an assumption that the table has no cycles; *Reaped* says which
exited children a `wait` can still find.  For `OneVoice` the invariant names the process
that plays for a player now (*OneCarrier*): the player, the agent that took over, or,
on the way through a FIFO, the one that is about to hand over.
`SuccessorAlways` (`SuccessorExists`) needs to know that the tables agree on one thing
(`BracketAssumption`, which TLC evaluates on the tables of the programs): players play in battles
whose losers an agent takes over, up to the root.  Its invariant is that whatever is told
to a player in that bracket, through however many relays, names a battle of the bracket.

`TournamentIsRight` (`ResultsAreRight`) compares the processes with a sheet of paper on
which the battles are written in waves: first those of two players, then those
whose entrants are known by then, as often as there are battles.  That this is well
founded is part of the proof: a duel ends, because a round costs the two at least a
point as long as both live and can strike (`FightKeeps`); and by counting, after so
many waves there is nothing to add (`SheetIs`), for which the battles must be
finitely many (`BattleAssumption`) and the loser of a battle be told from its
agent (`AgentAssumption`: no agent waits for the losers of two battles; TLC
evaluates both on the tables of the programs).  The invariant, *PaperInv*, ties all places
in which a `Status` can be to the sheet.  *Talks*: what a child sends, is about to send,
or has in the pipe is *Due*, that is, what it enters its parent's battle with, or how it goes on
from what the parent holds of it; what comes down is what the parent
holds.  *Bouts*: a battle holds nothing, its first entrant, or what k rounds on paper
leave, none of which was the last; whatever it holds that tells of an end is on the sheet, so that
news of a battle far above, passed down through any number of relays, is
still true when a player recovers from it.  *RealsRight* and *AgentsRight* follow the loser
through the FIFO.  A place in a cycle of the table is never on the sheet, and its process is
never born.

**Refinements.**  `BookingServersProofs` proves `ImplementsLedger`: an account of the
ledger is the record that is being stored, once `Book` has happened, and the record in the
file otherwise; the slots of the request tables are its sessions.  A step of a
server is one step of the ledger or none, by the parts *Counts*, *Marks*, *Flocks*,
*Exclusive*, *Shown* and *InLimit* that are proved already.
`UserThreadsProofs` proves `ImplementsLife` on the invariant of
its other theorems and one part more, *WaitsToRead*: a thread in the waiting queue
continues behind the read, and not at a yield.

But for `NoOverflow`, in `LimitHolds` and `ServiceKeepsPromise`, the proofs assume only
the named assumptions of the constants.

**Only model-checked**: liveness (`LeavingUnlocks`, `ReadyRuns`, `InputWakes`,
`Finishes`, `Ends`, `AllAnswered`, `Answers`), which the prover does not reach under
fairness.  Every safety property of a passing run is a theorem.

## 7. Assumptions and limits

* A longjmp into an environment saved by `thread_setup` restores the thread,
  although the function that saved it has returned; a compiler may break this.
* A FIFO of hw3 has one writer that opens it once, as in `sample_execution.sh`.
* A player's `battle_id` in `player_status.txt` is its battle in the tree, as in the
  file that is there; the model takes it from the tree.
* HP and ATK of hw2 are positive and a power never overflows; with ATK 0 on both
  sides a battle never ends.
* System calls other than the named failures (accept, read on a connection) succeed.
* The words of a command of hw1 fit the buffers of 16 bytes into which
  `server.c:373` scans them.
* After a line without a number the sum of `max_subarray` has an undefined term;
  `PrintedRight` says nothing of what that thread prints from there on, `TypeOKPrograms`
  only that it is an int.  The other threads and `Finishes` are not exempt.
* `init_request` leaves the old record in a slot; the model blanks it, as no
  handler reads it before the next load.
* The 3n + 1 problem is checked for arguments whose way to 1 is short; `Passes` is
  empty for those whose way leaves the ints or never ends.
* hw4: genres are integers, as in `movies.txt`; the number of requests is the one
  that is announced; no two requests have the same id (they would write the same
  file at once, `server.c:125`); a slot of the tables that was never filled is
  fresh memory, that is, the empty string; the appended secret starts with a tab
  and does not change the order of different titles, while between equal titles with
  different numbers of marks, which need a piece that was left unsorted or a row that was
  spoiled, the model sees a tie; a marked title fits the buffer, as
  `lib.c:41` guarantees; the delay in `sort` and memory that runs out are left out.
* The buffer that `handle_read` of hw1 clears by its own length is uninitialised
  (`server.c:76`); what a line contains is chosen anew at each read, which covers
  what may be left in it.
* Not modelled: formatting of texts, log files, the judge and build drivers.

## 8. Disagreements found

* `booking_overflow`: a command such as `2147483647 2147483646 17` overflows the sum
  at `server.c:378`, passes both checks and is stored, although the message at
  `server.c:55` says that nobody can book more than 15 items.
* `booking_crash`: a write server that dies between two of the three writes at
  `server.c:392` can leave more than 15 items in a record.
* `sorting_limit`: a thread that cannot be created leaves its piece unsorted, and
  the answer is written all the same (`hw4/server.c:57`).
* `sorting_rows`: the assertion at `hw4/server.c:424` lets 255 requests through, the
  tables at `hw4/server.c:4` have 32 rows; the filter of the 33rd request works
  on memory behind the tables.
