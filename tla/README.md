# pentago-learn in TLA+

pentago-learn solves pentago.  Its largest program is a distributed endgame
solver (`pentago/mpi`, `pentago/end`): a table with the value of every position
is computed slice by slice, a slice being all positions with the same number of
stones, from the last slice back to the first.  Slice *n* reads slice *n+1*, so
each MPI rank holds the compressed blocks of two slices in one heap, requests
the input blocks it needs from the ranks that own them, computes *lines* of
blocks on a thread pool, and sends each output block to its owner, which
combines the contributions that arrive for it.  A nonblocking barrier tells all
ranks that the slice is over and that the previous one may be deallocated.
Around the solver are file formats, a forward search, a middle-game solver and
a web site that looks values up.

These modules verify the parts of the program in which several actors share
state (messages between ranks, jobs on threads, memory that moves, files written
together), the two solvers whose tables and buffers outlive a step, and the
functions on boards, sections, blocks and files under all of them, at their full
size.

## The system

| Part | State | Operations | Hard because |
|---|---|---|---|
| barrier, `mpi/ibarrier.cc` | started, done, a count of messages to come; empty messages in flight | start, process a message, done; a countdown that starts it | order of messages; messages of one slice taken by the next; sends cancelled when the loop ends |
| request list, `mpi/requests.cc` | MPI requests with callbacks; callbacks posted by other threads | add, free, waitsome, cancel_and_waitall | callbacks add requests while finished ones are removed |
| line flow, `mpi/flow.cc`, `end/compute.cc` | unscheduled lines, free memory, gathers and line slots, pending block requests, counters of each line, messages | schedule_lines, process_request, process_response, absorb_response, compute_microline, wakeup, finish_output_send, process_output | CPU jobs hold plain pointers to lines the communication thread deletes; requests shared by lines; limits; when is everything finished |
| compacting store, `end/compacting_store.cc` | arrays of bytes in one heap, in two groups; a lock per array and one for the heap | lock, get, set, collect, freeze | set releases its lock half way; collections move everything but what MPI is sending |
| block stores, `end/block_store.cc` | per block the dimensions still missing, and its data in the compacting store | accumulate, get_compressed, restart | concurrent contributions to one block |
| slice loop, `mpi/toplevel.cc` | the current and the previous block store; files of saved slices | allocate, compute, drop, freeze, write; restart from a file | order of the steps over all ranks, which only collective calls hold together; crashes |
| thread pools, `utility/thread.cc` | a deque of jobs, an error, a count of idle workers, for CPU and for IO | schedule, worker, wait, help, die | jobs of one pool feed the other; errors |
| parallel output, `mpi/io.cc` | offsets of blocks and indices in a shared file | write_sections, write_counts, read_sections | every rank must compute offsets that tile the file |
| partitions, `end/*_partition.cc`, `end/load_balance.cc` | none | rank to lines and blocks, block to rank | inverse functions written separately |
| supertensor files, `data/supertensor.cc` | next offset, block index, the valid flag | read and write blocks through both pools, finalize | errors and crashes before finalize |
| caches, `data/block_cache.cc`, `data/lru.h` | blocks in memory, free memory | load_block | a block larger than the limit; callers hold what is dropped |
| forward search, `search/` | transposition tables | lookup, store with depths | merging entries of different depths |
| middle-game solver, `mid/`, `ios/shared/` | one buffer for all slices | midsolve, on a CPU or a GPU | a slice overwrites the one before the one it reads; indices written and read are computed differently |
| web server, `web/server/` | cache of blocks, pending lookups | values(board) | awaits between fetching and reading; failures |
| web client, `web/client/src/` | local storage, a worker with a queue of callbacks | lookups, midsolve | keys by age over reloads |
| lines, `end/compute.cc` | buffers of input and output blocks | compute_microline | children in other sections, reflected, in blocks of other shapes |
| boards, symmetries, scores, sections (`base/`, `high/`) | tables | functions on 64-bit boards and 256-bit sets of rotations | the same function several times: tables, words, vector registers, JavaScript |
| learning operators (`learn/`) | none | lookups | |

Interaction: `toplevel` builds the partition and the block stores of a slice and
calls `compute_lines`; `flow_t` owns the request list, the countdown and its
barrier, and schedules jobs on the CPU pool; those jobs decrement line counters,
post wakeups through the request list, and accumulate into the block store, which
stores into the compacting store.  Writers and readers of files chain jobs
through the CPU and IO pools.

## Modules

| Module | Models | Role |
|---|---|---|
| `Barrier` | what `ibarrier.h` promises | abstract: enter, leave only when all have entered, leave eventually |
| `MCIBarrier` | `parent()` and the children loops | operators; checks that the two agree for 1 to 17 ranks |
| `IBarrier` | `ibarrier_t`, `ibarrier_countdown_t`, the end of the loop | implements `Barrier`; parameterised by the tree |
| `IBarrierProofs` | | the proofs for `IBarrier` |
| `ComputeLines` | what `compute_lines` is for | abstract: each contribution accumulated once, no return before one's own are |
| `Flow` | `flow.cc` with the counters and jobs of `compute.cc`, over `Barrier` | implements `ComputeLines` |
| `FlowProofs` | | the proofs for `Flow` |
| `ArrayStore` | what `compacting_store_t` promises | abstract: an array keeps what was set, a frozen one also its place |
| `CompactingStore` | `compacting_store.cc`, and threads that compete for arrays as in the thrasher test of `end_test.cc` | the steps of `set`, collections, groups; implements `ArrayStore` |
| `SharedStore` | those threads, for a bounded number of sets and freezes | `CompactingStore` as it is run |
| `BlockStore` | `accumulate` and the slices of `toplevel` on one rank | the solve, as a client of `CompactingStore` |
| `StoreProofs` | | the proofs for the store and for `BlockStore` |
| `ThreadPool` | `thread.cc` | CPU and IO pools with a master that waits |
| `ThreadPoolProofs` | | the proofs for `ThreadPool` |
| `SupertensorFile` | the writers of `supertensor.cc`, as `roundtrip.cc` uses them | files, errors and crashes, on what `ThreadPool` establishes |
| `SupertensorProofs` | | the proofs for `SupertensorFile` |
| `WebValues` | `values.js`, `pending.js`, `block_cache.js` | lookups on the event loop of node |
| `WebValuesProofs` | | the proofs for `WebValues` |
| `Pentago` | `high/board.cc`, minimax as in `high/check.cc`; `super_t` and `halfsuper_t` | the game, the values that solvers are held to, and sets of rotations |
| `MidSolve` | `mid/`, `midsolve.metal` | the middle-game solver against `Pentago` |
| `Slices` | the loop of `toplevel.cc` on all ranks, what `flow.cc` sends, the writes of `write_sections` | composes slices; crashes and restarts |
| `SlicesProofs` | | the proofs for `Slices`, and of the functions that divide loops, blobs, lines and blocks among ranks |
| `Boards` | SSE registers and words; generated tables; `board.cc`, `score.cc`, moves | operators |
| `Supers` | `super_wins`, `rmax` with and without vector registers; `halfsuper.cc` | operators |
| `Symmetries`, `Sections` | `symmetry.cc`; `section.cc`, `sections.cc`, `all_boards.cc`, `count.cc`, quadrants up to rotation | operators |
| `Partitions`, `BlockPartitions` | `blocks.h`, `permute.cc`, `range.cc`, `load_balance.cc`; the two partitions | operators |
| `FileLayout` | `io.cc` | operators |
| `BlockLookup`, `BlockData` | `block_cache.cc`, `store_block_cache.cc`, `lru.h`, `high/index.cc`; `end/compute.cc`, `filter.cc`, `fast_compress.cc` | operators |
| `WebData` | `board.js` of page and server; `block_cache.js`, `local_lru.js` | operators |
| `RequestList` | the arrays of `requests.cc` | operators |
| `Algorithms` | calls of all of these | one call, or a sequence of calls to a list or a cache, against definitions by coordinates and quantifiers |
| `AlgorithmsProofs` | | the proofs for the list of requests, the caches and the wavelet |
| `Search` | `superengine.cc`, `supertable.cc`, over `Pentago` | searches that share a table, against a search of all moves |
| `MC...` | | instances for TLC |

Definitions keep the names of the source where they translate a function
(`schedule_lines`, `process_response`, `set_die`).  Operators introduced with
"Mutant of" are the definitions a plausible mistake would leave in their place;
no specification uses them.

### Barrier

A step of `IBarrier` is one call of the code: the constructor of the countdown
(`Build`), its `decrement` (`Progress`), `process` of one message (`Process`),
and the end of the communication loop (`Leave`).  Assertions of the code are not
assumed: a call that would fail one sets `failed`.  `net[s][d]` counts the empty
messages from *s* to *d*; MPI keeps them in order, and as they are all equal a
count says everything.  `Init` allows one message of the root to itself left over
from the slice before.  `BufferedSends` says whether MPI completes an empty send
before it is received: if not, `Leave` may lose any of the leaving rank's own
messages, as `cancel_and_waitall` cancels them.

### Flow

The communication thread of a rank runs one callback at a time, so each callback
is one action, `schedule_lines` included wherever the code calls it.  CPU jobs
interleave with it: `absorb_response` is split where it touches a line
(uncompress into the first line, copy to each other line and count the block,
count the first line's), since those are the points at which a line may become
ready, be computed, sent and deleted under it.  A line is `unallocated`,
`allocated` with its four counters, or `deallocated`.  `filled` records which
input blocks are in place, uncompressed.  A message is named by what it carries;
a request by its block and the first line waiting for it, which stands for the
response tag.  Sends complete (`finish_output_send`) before or after the message is
received.  The barrier is the abstract one: `entered` when the countdown
reaches zero, `released` when `process_barrier` finds it done.  This is what the
check and the proofs of `IBarrier` justify.

The compiled configuration is modelled: `PENTAGO_MPI_FUNNEL` and
`PENTAGO_MPI_COMPRESS` on, `PENTAGO_MPI_COMPRESS_OUTPUTS` off.

The constants satisfy what the partition and the options guarantee
(`FlowAssumption`): everything is finite, each line stands once in the order of
exactly one rank, a line has output blocks and at least one microline, and the limits
admit what the constructor asserts they do.

### Compacting store and block store

`op[t]` is where thread *t* stands in `set`.  A step ends where the code releases
a lock or waits for one: `Deallocate` (unlock the array), `LockHeap`,
`GrabArray` once per array, `CollectAll`, `ReleaseArray`, `CheckSpace`,
`Allocate` (lock the array again and give it memory), `Write`.  The heap is a
function from offsets to bytes, and a byte is named by the value and the position
it was written for, so a misplaced or overwritten byte cannot be mistaken for the
right one.  A collection takes the arrays in any order `std::sort` may produce
and slides them with `memmove` one after the other.  `die` sets `died`.

`StoreSpec` is the store with clients that do all that the header allows: any threads
set any arrays that are not frozen, and groups come, freeze and go while no thread is at
work.  `SharedStore` takes the same steps and counts sets and freezes, to bound them.
Seen from outside (`Promise`), an array locked and about to be written counts as empty,
and a frozen array has a place if it holds a value; one that is empty has no bytes that
anyone could read.

In `BlockStore` a value is the set of dimensions combined into it; `accumulate`
holds `info_lock` from `LockInfo` to `Finish` and the array lock except between
`Deallocate` and `Allocate`.  Slices follow `toplevel`: a group, all its
contributions, the drop of the previous group, the freeze.

### Thread pools

Each critical section of a pool's spin lock is one step.  `Throw` and `set_die`
are two, as in the code.  `throws` is the set of jobs that throw, any set.  A job
schedules its `Children` one by one before it ends, and `schedule` rethrows the
error of the pool, in a worker, in the helping master, or in the master that is
still posting.  `ScheduleAssumption` says of the program's jobs that each is
scheduled in one place, by the master or by one other job, and that `Job` holds
those one gets to from the master's.

### Supertensor files

Of a file, each header takes two abstract bytes (the flag, the location of the
index) and a block as many as its compressed size, so a write that fails half way
leaves a header or a block in part.  A byte is named by the block and position
it was written for.  `table[s]` is what a section's compressed index says; it is
fixed when the index job starts, from the offsets then known.  `Reserve` and
`pwrite` are two steps of one IO job, since other jobs take places in between.
The file is sparse: what nobody wrote reads as unwritten.  `Padding` is what
alignment may add after the headers, one byte in the runs.  The pools are the
promise that `ThreadPoolProofs` proves: `threads_wait_all`
returns when no job is left, or throws the error of a job, perhaps while others
run.  A job that outlives the writer it points to has no defined behaviour, so
the model stops at `Destroy`; the second finding is about how that can happen.
`Crash` keeps the file and forgets the rest.  A reader is not a process but the
predicates `Claims` and `Complete` over the file in any state.

### Web server

`tasks` is the queue of microtasks: the continuations of promises that have
settled, in order.  An event is taken only when it is empty.  A promise is named
by the lookup that created it.  `Arrive` asks all lookups of a request at once,
as `traverse` reaches all of its boards before the first `await` returns.  The
end of a decompression takes three tasks: the rest of `set` stores the block,
the computation returns, and only then `pending` forgets the promise and the
waiting lookups resume, in the order in which they came.  The cache is the list
of its blocks by last use, as `lru-cache` keeps it; their total size, which `Trim`
compares with the limit, is a sum over the set of blocks cached.  Every block fits
the cache, and there are finitely many (`SizeAssumption`).

### Middle-game solver

`Pentago` is parameterised by the number of quadrants and of their cells, the
quarter turn, and the lines, so that a game small enough to enumerate keeps the
rules: place a stone, then turn a quadrant, and both players may win at once.
A side is a set of spots.  `Value` is minimax over single plies, with
quadrants that really turn.

The solver never turns a quadrant.  It computes, for each way to place stones, the
set of rotations for which the mover wins (`win`) and does not lose (`notlose`);
`super_t` and `halfsuper_t` are sets of functions from quadrants to quarter turns,
the second without the parity of their sum.  What tables and masks compute is
modelled, not the words.

In `MidSolve` a step is one index of a slice: an iteration of the inner loop of
`midsolve_loop`, in order, or a thread of the Metal kernel, in any order.  Both
are translated with their own formulas for indices: `inner` reads at
`child_s0s`, `cs1ps` and writes at `s1`, `s0p` (`offset0`); `transposed` reads at
`s1`, `cs0ps` and writes at `commute`.  Tables that the code fills beforehand
(`sets1p`, `cs1ps`, `wins1`, `set1_info`) are the functions they hold.  `midsolve_traverse`
is an operator over the results of the last state.

### Slices

All ranks go through the loop of `toplevel.cc`.  `Steps` lists it with its
collective calls in their order, and `WaitsFor` what the standard makes a rank
wait for in each: a reduction makes rank 0 wait for all, a scan makes a rank
wait for those before it, and nobody else waits, so ranks drift as far apart as
MPI permits.  Within a slice a rank keeps the promise that `FlowProofs` proves of `Flow`,
over the abstract barrier: it leaves when all have entered.  What a message does
not carry, its slice, is kept in `net` for the property alone; `ProcessRequest`
and `ProcessOutput` look at the slice of their receiver, as the code does.

Slices up to `Save` are written to files: `Write` is one rank's part of one
piece, there from then on.  `Crash` ends the job at any point and keeps the files
(MPI's own buffers are not lost: a write whose call returned is in the file).
`Restart` is another job that reads a slice from a file with all its pieces; one
that reads another file dies, which changes nothing.  It writes to a directory of
its own, as `toplevel` refuses one that exists.

### Algorithms

The modules of operators translate functions as they are written: a 64-bit side
is the set of its bits, a `super_t` the set of the rotations it contains, by
number from 0 to 255, and shuffles, shifts and masks of registers are what they do to
such sets.  Generated tables (`precompute.cc`) are computed as the generator
computes them.  In `Algorithms` each operation that stands for pure functions is
one action that calls them once (`Score`, `Transform`, `PartitionSimply`,
`ComputeMicroline`, ...); `LoadBlock`, `AddRequest` and `Waitsome` call the caches and
the request list again and again, in every order.  The invariants compare the
result with a definition that uses none of the code's tables, orders or shifts:
lines are lines on a 6 by 6 grid, symmetries move coordinates, an owner is unique
because a quantifier says so.

### Search

A step of `Search` is a whole call of one of the three drivers, with the table it
leaves.  Boards are those of `Pentago`, with the symmetries of the small game;
the table has `Slots` places, so that entries of different boards collide, and
the block cache that the search may consult holds the boards of
`CachedStones`.  Children are a sequence in the order of the code's array: each is
looked up in turn, one that need not be searched gives its place to the last, and
`Ordered` keeps the slip of line 219, which writes the closeness of the child looked
at into the place where another now stands.  `super_move_limit` is a constant, the
default 36 in the run, where it cuts nothing off.  With a smaller one, which
`set_super_move_limit` may set and nothing in the repository does, the moves that are
not tried count as not winning (superengine.cc:253), as is the purpose of a limit, and
neither property would hold.

`EntriesSound` compares every entry with a search of all moves
to the entry's depth, not with what was asked.  `AnswersRight` says too that no search
ends in a failed assertion.  Of the one in `super_table_t::store` the source says that
it can fail where nothing is wrong (supertable.cc:146); it does not in these searches.

## Runs

| Run | Instance and bounds | Shows |
|---|---|---|
| `barrier` | 5 ranks (a node with three children, one with a child of its own, leaves at two depths), work 0 or 1 each | no failed assertion, done means finished, nothing left for the next slice, implements `Barrier` with liveness: every rank leaves |
| `flow` | 2 ranks, 4 lines, 2 input and 2 output blocks, 2 slots, memory for 2 lines, 2 gathers; requests merged or one per line and block, lines with inputs or those of the last slice without | all properties of `Flow` |
| `slices` | 3 ranks, 3 slices of which 2 are saved, any 2 lines (or 1) with any worker, source and target, 1 crash | messages stay in their slice, requests find frozen blocks, a file with a header has all blocks, the loop ends |
| `shared_store` | 2 threads, 1 array in each group, 2 sizes, heap of 3 units, 5 sets, 1 freeze | implements `ArrayStore`, never dies, every set returns |
| `block_store` | 3 threads, 2 blocks of 2 dimensions, 3 slices, heap exactly full | contributions combined once and counted once |
| `thread_pool` | 2 CPU workers, 1 IO worker, 5 jobs that chain both ways, any of them throwing | return means complete, errors reach the master, always an answer |
| `supertensor` | 2 sections or 1, of 2 blocks each, one of them larger, one byte of padding | a section the file calls valid is complete at any time, places are disjoint, a file that is kept has every section complete (but see finding 3: it may lack its magic) |
| `web_values` | 3 requests for two blocks each out of 3 (one asks for the same block twice), a cache for the two small blocks or the large one | a block is there when it is read, is fetched once, every lookup ends |
| `web_values_failure` | the same | a counterexample to `MergesSimultaneous`, see Findings |
| `mid_solve` | 2 quadrants of 2 by 2 cells, lines of three across both; boards with 5 or 4 empty spots for the CPU, with 3, 2 or 1 for both solvers, the other spots filled in every way, about to place or to turn; the buffers hold two kinds of garbage at first | every slice and every value returned is minimax's |
| `search` | 3 quadrants of 2 by 2 cells, lines of four along the edges; boards with 5 or 6 free spots and the empty board, depths 1 to 5, both players, 3 searches in any order through a table of 5 places | no entry of the table says more than its depth allows, every answer is right, no assertion fails |
| `algorithms` | the full game: boards with 0 to 36 stones, with and without lines in every direction; symmetries of each kind; slices of one and of two sections, on 1 to 20 ranks; files of 0 to 3 sections written by 1, 3 or 4 ranks and read by 1 or 3; microlines of every dimension; 5 loads of 4 blocks, one too large for the cache; 4 requests | all properties of `Algorithms` |

Why the bounds suffice to meet the interesting cases.  Five ranks are the first
number that is no power of two and has a grandchild that is not on the first
branch.  In `MCFlow`, one line of rank 0 has to wait for another to be
deallocated and shares its input with a line before it, so its request may be
found pending, answered or half absorbed; blocks are remote and local for both
ranks.  In `Slices`, three ranks are rank 0, one that waits for it in scans, and
one that neither waits for it nor is waited for; three slices let one rank be in
the last while another has not left the first.  In `MCSharedStore` the fourth allocation collects; one spare unit is
necessary, for without it a thread that gave its array's memory up may meet the
array filled by another and the heap full: two threads that set one array at once
may need the memory twice.  In `MCBlockStore`, where `info_lock` rules that out,
there is no spare byte: three slices make each group be filled beside the other
one frozen.  With three threads, one can collect while one waits for the heap and
one for an array.  In `MCSupertensorFile` the padding lies where a small block
may come to stand before it but the large one cannot, so both ends of `reserve`
are reached; with two sections one can be valid while the other fails.  In
`MCWebValues` the requests together want more than the cache holds, and two of
the blocks are asked for by two requests or twice by one, so that fetches are
shared, repeated and evicted.  In `MCMidSolve`, five empty spots are the fewest for which a slice has
two stones of each player and a spot left, so that every formula for indices sums
over more than one stone; the two ends of the buffer meet with any number.
Threads run in every order for three empty spots and less.  `MCMidSolve` also
evaluates, for both parities and every set of rotations, that `rmax` on
`halfsuper_t` is `rmax` on `super_t`.  In `MCSearch` whether black wins depends on
the depth, and boards of one search come up in another at another depth.
`MCAlgorithms` takes samples: what is shown of a pure function is shown for the
inputs listed there, chosen to reach each of its branches; it is no proof for the
others.  The list of requests, the caches, the ranges of loops, the reading of blobs,
the random permutations, finding a block in the random partition, and the wavelet are also
proved for every input (see Proofs).  `MaxWork`, `MaxCalls`, `MaxFreezes`, `MaxSlices`, `MaxLines`, `MaxCrashes`,
`MaxSearches`, `MaxLoads`, `MaxRequests` and the size of the small games are the only bounds
that are not in the program.

`CHECK_DEADLOCK FALSE` is set in all of them, since every one of these systems
ends: ranks return, slices are done, the master has its answer.

### Fairness

- `WebValues`: microtasks run, and a download ends with data or an error: weak
  fairness.  Decompression is strongly fair, that is, data that is fetched again and
  again is not corrupt for ever; the code has no other way out of its loop.
- `BlockStore`, `SupertensorFile`, `MidSolve`, `Search` and `Algorithms` have safety
  properties only.
- `IBarrier`, `Flow`: the communication thread of each rank polls until it is
  released, MPI delivers what is not cancelled and completes sends, worker
  threads run queued jobs: weak fairness of each rank's communication and of its
  jobs.  No fairness between messages is assumed, as there are finitely many.
- `Slices`: weak fairness of each rank, in the loop and in its flow.  Crashes and
  restarts are not fair: a job may never crash, and nobody may start another.
- `SharedStore`, `ThreadPool`: weak fairness of each thread.  A spin
  lock is not fair, but only finitely many other calls can overtake a waiting one
  in a slice, and idle workers try the lock only when there is a job to take or
  the pool dies.

## Properties

Barrier: `NoFailure`, `DoneMeansFinished`, `NoStrayMessage` (a rank that has left
has no message under way, so the next slice's barrier on the same communicator
starts clean), `ImplementsBarrier` (with its liveness).

Flow: `NoUseAfterFree` (whoever may still touch a line touches an allocated one),
`ComputesOnCompleteInput`, `ResourcesAddUp` (free plus held is the limit),
`QuietWhenLeaving` (the first rank to leave finds no message, request, line or
wakeup anywhere, which is what makes cancelling and deallocating safe),
`KeepsPromise` (refinement of `ComputeLines` with its liveness).

Slices: `MessagesMeetTheirSlice` (a message is under way only to a rank that will
take it in the slice it was sent in, and whoever is asked for a block has it
frozen), `HeaderAfterBlocks`, `EverySliceComputed`.

Stores: `NeverDies`, `KeepsValues` (refinement of `ArrayStore`),
`EveryCallReturns`; `HoldsContributions`, `CountedOnceComplete`.

Thread pools: `ReturnsWhenComplete`, `ErrorsReachMaster`, `MasterGetsAnswer`.

Supertensor files: `ValidMeansComplete` (of every state of the file, also one
left by a crash), `PlacesDisjoint`, `LeavesCompleteFile` (of the sections of a file,
not its magic: see finding 3).

Web server: `NeverMissing` (the block is still cached when its lookup resumes),
`FetchesOnce`, `LookupsEnd`.

Middle-game solver: `SliceRight` (every cell of the slice just computed holds the
minimax value of the position that belongs there, for every rotation),
`TraverseRight` (what `midsolve` returns is the board and all that may follow on
its turn, each with its minimax value).

Search: `EntriesSound` (an entry knows of a board, in any rotation, only what a
search of all moves to its depth finds), `AnswersRight`.

Functions: `ScoresRight`, `SymmetriesAct`, `SectionsRight`, `PartitionsRight`,
`FilesReadBack`, `LookupsRight`, `LinesRight`, `WebAgrees`; caches and lists over
sequences of calls: `CacheKeepsRecent`, `RequestsMatched`.

The modules with state also have a type invariant.  Those of the barrier, the
flow, the slices, the blocks and their store, the supertensor writers, the pools and
the web lookups are proved; the others hold on the instances above and are not listed with the runs.

## Findings

1. `requests.h` relies on the barrier to say when every
   request is complete, but the barrier's last messages are requests themselves.
   The rank that learns that all are done sends that on and at once cancels its
   pending sends.  If MPI has not completed an empty send by then, which the
   standard allows, its children never hear of it.  Implementations that buffer
   small messages hide this; `barrier` and the liveness of `Flow` and `Slices` assume
   them (`BufferedSends`).  The safety theorems hold in both cases.
   To see it: `BufferedSends = FALSE` in `IBarrier.cfg`; 3 ranks suffice.
2. `thread.h` says that `threads_wait_all` waits for all
   jobs to complete.  If a job throws it does not: the exception is passed on
   while other jobs run.  To see it: `INVARIANT WaitsForAllJobs` in `ThreadPool.cfg`.
3. `supertensor_writers` ignores the error of the write
   that puts the magic in front of a file of several sections.  All sections can
   then be finalized without an exception, the file is kept, and no reader opens
   it.  To see it: `INVARIANT FinalizedFileHasMagic` in `Supertensor.cfg`.  Without
   that failure the run `supertensor` finds nothing wrong; it also
   covers failing block and header writes.
4. `web_values_failure`.  `pending.js` forgets a computation only when it succeeds.
   After one failed download every later request for the block fails at once, for
   as long as the process lives.
5. `super_evaluate_children` is to return enough children to determine who wins.
   Every child is recorded when it is looked at, and what the deep search finds of
   it later is dropped by the map it is inserted into.  No program calls
   the function.  To see it: `INVARIANT ChildrenDecide` in `Search.cfg`.
6. `write_sections` writes the headers as "the last piece of the file", but rank 0
   need not wait for the indices that other ranks write.  After a crash in
   between, the header calls sections valid whose index is missing.  To see it:
   `INVARIANT HeaderIsLast` in `Slices.cfg`.
7. The free memory of a reader's cache is "signed so it can go
   temporarily below zero" (block_cache.cc:91).  For a block larger than the whole cache
   it stays there: the memory is taken first, `lru.drop` throws when nothing is left to
   drop, and nothing is given back, so every later load throws as well.  The callers
   in the repository that have files to read give 2^30 bytes, more than any block has.
   To see it: `INVARIANT BelowZeroTemporarily` in `Algorithms.cfg`.

Two things were noticed that no property is about.  An empty array that is frozen
may have the address of a full one beside it, and
`std::sort` may put either first; the next collection may then find it out of place,
and dies, as it must not move a frozen array (two arrays in a group of `MCSharedStore`
show it).  `toplevel` freezes no empty block: frozen blocks are complete
(`BlocksHoldContributions`).  The older engine (`engine.cc`), which nothing calls, may store a tie for a greater depth than
its other children were searched to.

## Proofs

Each module of proofs has an inductive invariant, a conjunction of named parts;
lemmas that one action each preserves it; and theorems that it implies what the
runs check.  TLC has evaluated each invariant on the instance of its run.
`StoreProofs` has one for the store with any clients and one for the solve on it;
`AlgorithmsProofs` has two.  Lemmas about functions follow in it and in `SlicesProofs`.

### The barrier

`IBarrierProofs` proves, for every number of ranks, every tree with
`Parent[r] < r` and every amount of work, and for buffered and unbuffered sends:

- `Invariance`: `Spec => []IInv`;
- `TypeCorrect`;
- `NeverFails`, `DoneIsSafe`, `NothingStrays`: the invariants that `barrier` checks;
- `Refinement`: the safety part of `ImplementsBarrier`.

Assumptions: `RanksAssumption`, `BufferingAssumption` and `TreeAssumption`, the
last being what `MCIBarrier` evaluates for the binomial tree.

The properties are not inductive: that a rank may accept a report says nothing
unless its count says how many are to come.  `IInv` adds `CountInv`: the count of
a rank is the number of its `Outstanding`, itself until it starts and each child
that has not reported or whose report is under way; `NetInv`: the only messages
are one report from a child whose count is zero, or one release from a parent
that is done to a child that is not; `DoneInv`: done spreads from the root, and
only over ranks whose count is zero; `PhaseInv`: a rank has started when it is
built and owes nothing.  From `CountInv`, a count of zero means that all children
have counts of zero; following parents down to the root (an induction over ranks,
done by taking the largest rank that has not started) gives `DoneIsSafe`.
Preservation is proved for the three ways a state changes, `Decrement`, `SetDone`
and `Leave`, with one lemma for the cardinality of `Outstanding` after a change.

### The flow

`FlowProofs`, for every number of ranks, lines, blocks and microlines, every order
and partition, all limits, merged or separate requests, the last slice and the others:

- `FlowInvariance`, `FlowTypeCorrect`;
- `NothingFreedIsUsed`, `InputIsComplete`, `LimitsAreKept`, `BarrierMeansQuiet`: the
  invariants that `flow` checks;
- `FlowRefines`: the safety part of `KeepsPromise`, that `Flow` implements
  `ComputeLines`.

That a job may touch a line rests on counts: a line lives while it misses input,
microlines or sends, and whoever is going to touch it is what one of these counts
stands for.  So `LineInv` and `JobInv` say that each counter of a line is the
cardinality of a set, of the blocks not yet counted, of the microlines queued or
running, of the outputs not yet sent; `RequestInv` that a block a line waits for is in
one request, one response or one job and in no second; `ScheduleInv` that free
memory, line slots and gathers are what the lines and requests in existence
leave; `MessageInv` and `BarrierInv` that a rank's countdown is the
number of outputs it has still to send plus those it has still to receive; and
`ResultInv` that a contribution is accumulated once, after its line was computed.
Every wakeup schedules lines, so most of the work is one lemma, `Schedules`, that
`schedule_lines` preserves the invariant from any state in which it may be called.

### The slices

`SlicesProofs`, for every number of ranks, slices and lines and any number of crashes:

- `SlicesInvariance`, `SlicesTypeCorrect`;
- `MessagesStayInSlice`, `HeaderWaitsForBlocks`: `MessagesMeetTheirSlice` and
  `HeaderAfterBlocks`.

`NearInv` says how far two ranks can be from each other: a rank does not leave a
slice before all have entered the barrier, and in a reduction rank 0 waits for all,
so one rank is ahead of another by part of a slice and never by a whole one.
`FlowInv` adds what a rank in "compute" is entitled to: while a line's message is
under way its target has not entered and its source has kept the slice frozen.
`FileInv` says that a rank past "blocks" has written them and that rank 0 past
"blobs" has seen all ranks there.

### The blocks and their store

`StoreProofs`, for any threads, arrays, values and heap, of the store with all
the clients that `StoreSpec` allows:

- `StoreKeepsValues`: the safety that is `KeepsValues`, that the store implements
  `ArrayStore`, in heaps of any size;
- `StoreHasRoom`: if the heap has room for every array and one more value, it is
  not full after a collection, and no frozen array that holds a value has to move;
- `StoreNeverDies`: `NeverDies` with one array in each group, the case `shared_store`
  runs.  With more, an array frozen while empty may have to move (see Findings), and
  `StoreHasRoom` is what holds.

`StoreProofs`, for every number of blocks, dimensions, threads and slices, all
sizes of compressed values but zero, and, except for the last, heaps of any size, those
that are too small included:

- `BlocksInvariance`, `BlocksTypeCorrect`;
- `BlocksHoldContributions`, `BlocksCountedOnceComplete`: the invariants that
  `block_store` checks;
- `BlocksKeepValues`: the blocks of the solve are in a store that implements `ArrayStore`;
- `BlocksNeverDie`: `NeverDies`, for any number of blocks in a group, with memory for a
  value in every array and the `MinFree` bytes a collection must leave, and none to spare.

The lemmas about the store know nothing of blocks, and serve both.
`LayoutInv` says that the memory of the arrays lies below `heap_next` and does not
overlap; while a thread is about to copy a value, what counts as its array's memory is
what was allocated for the new value, since the array's size is still the old one or
zero.  `LockInv` says which locks a thread has at each point of `set`, `SpaceInv`
that whoever is about to allocate has found the space.  `SlidAll`
is the reason a collection is right: by induction along the order of addresses, an
array only moves down, onto bytes that were free or its own, so none that is still to
move has been overwritten.  From these, `Keeps`: an array keeps the bytes it holds in
every step but its own thread's.

`KeepsValues` needs more, `PromiseInv`: nobody is at work on a frozen array (`BusyInv`),
an array that is not about to be written is empty or holds a value (`ValuesInv`), and
what is frozen lies at the bottom of the heap with no gap between one array and the next
(`FrozenInv`).  A freeze collects first, so there are no gaps at that time; afterwards
only unfrozen arrays are allocated, above `heap_next`, and go.  So a collection finds
the frozen arrays first in its order, and slides each to where it is (`SolidStays`).
That `FrozenInv` concerns only arrays that hold something is necessary: an empty one
takes no memory, and may be sorted behind another at its address.

How much room is enough is in `Fits`: *m* bytes for each array, where every value's
aligned size is at most *m*, and the free bytes a collection must leave.  With that, a
collection by a thread whose array is empty leaves room for its value.  Two threads that
set one array may both need memory for it, hence the further *m* in `Roomy`.  In the solve
`info_lock` excludes this (`Deallocated`: a thread that waits for memory has an array
that is empty), and a frozen block is complete and so not empty.  `HeapInv` says that a
thread which collects found no space before and finds it after.

For the blocks, `JobInv` says that a thread at work holds its block's `info_lock` and
carries either one dimension that is missing or all those that are not; `MissingInv`
that a missing dimension is in a job not yet started or with a thread that has not
combined it; `SliceInv` that all groups but the one being computed are frozen; and
`ContentInv` that a block nobody has taken out holds the dimensions that are not
missing.  So a frozen block is complete: nobody works on it, and it has no jobs left.

### The supertensor writers

`SupertensorProofs`, for every number of sections and blocks, all sizes and any padding:

- `WriterInvariance`, `WriterTypeCorrect`;
- `PlacesNeverOverlap`, `ValidIsComplete`, `SurvivorIsComplete`: the invariants that
  `supertensor` checks.

A valid flag must not outrun the bytes it speaks for, through errors at any
write and a crash at any point.  `ShapeInv` and `PlacesDisjoint` say that a place,
once reserved, belongs to one job; `JobInv` which jobs have a place and that a lost one
leaves an error behind; `ContentsInv` that what a finished job wrote is still there,
and that no flag is set before; `FinalizeInv` that a section's index is scheduled
once, when all its blocks are written, from offsets that no longer change,
and the header after the index.  `DestroyInv` and `CrashInv` keep what a reader may
still conclude when the writers are gone.

### The thread pools

`ThreadPoolProofs`, for every number of workers and jobs, any of which may throw:

- `PoolsInvariance`, `PoolTypeCorrect`;
- `ReturnMeansComplete`, `ErrorsAreSeen`: the invariants that `thread_pool` checks;
- `DeadPoolHasNoJobs`.

The master waits for one pool, then for the other, and starts again if the two
are not idle at once, as a job of one may just have scheduled one in the other.  `OnceInv` says that a
job is in one queue, on one thread, or has run, once; `ScheduledOnceInv` that each
job is still to be scheduled by whom it belongs to, or has been; `PoolInv` that
the count of idle workers is the number of threads that spin, and that a pool
which died has no jobs; `MasterInv` what the master has seen at each point of its wait.

### The web lookups

`WebValuesProofs`, for any requests, finitely many blocks, and any sizes that fit the
cache:

- `LookupsInvariance`, `LookupsTypeCorrect`;
- `ReadsFindTheBlock`, `BlocksFetchedOnce`: `NeverMissing` and `FetchesOnce`.

A block may be evicted as soon as another is stored.  It is still there when its
lookups resume because nothing is stored in between: `QueueInv` says what each
microtask may rely on, that a task which stores or returns is alone in the queue, that
a lookup about to resume finds its block cached or its promise rejected, and that
a deletion is of a promise that is resolved and still pending.  `PendingInv`
says that a promise which is resolved and still pending is about to be deleted, its
block cached; `WaitersInv` and `FetchInv` that a lookup waits for one promise and
a fetch belongs to one.

### The list of requests and the caches

`AlgorithmsProofs`, for the sequences of calls of `Algorithms`, with any limits and any
memory for each block (`AlgorithmsAssumption`):

- `RequestsAreMatched`: `RequestsMatched`, for every list, and every report of MPI
  in any order;
- `CachesKeepRecent`: `CacheKeepsRecent`, for every sequence of blocks asked for.

Both properties compare a list with the history of the calls, and the history is part
of the state: `RequestsInv` and `CacheInv` say what a list that was given the calls so
far looks like, and one lemma for each operation keeps that.

`RequestsInv` says of the three arrays of `requests_t` that entry *i* of each belongs
to one request (`InParallel`), that the requests listed are those added and not completed,
each once (`EachOnce`), and that what was called are the callbacks of the
completed ones, in the order of their completion (`AllCalled`).  The arrays are pruned by
moving the last entry to each place that is freed.  `KeptFrom` is what makes this
right: after the indices from *j* on are done, the places left are those not to be
removed from *j* on, each once, and those below *j* are untouched, so the last entry is
never one that is still to be removed.  This needs the indices sorted, and the
three arrays stay in step because the selection depends only on their length.

The three caches differ in what they promise.  `ReaderRight`, for `block_cache.cc`: until
a block larger than the cache was asked for, the order is by last use, and the blocks
held are exactly those that fit together with everything asked for since.  After such a
block it says nothing (finding 7).  `StoreRight`, for
the cache over a store: a block that was asked for is held, or there was no room for it.
`PageRight`, for the local storage of the page: its time stamps order the keys by last use,
across reloads too, which restart the counter at the newest stamp found.

### Functions

Of functions that need no table, for every input, in `SlicesProofs` but for the wavelet,
which is in `AlgorithmsProofs`:

- `LoopsDivideEvenly`: `partition_loop` gives each thread a range, in order and without
  gap, none longer than another by more than one, and `partition_loop_inverse` names the
  thread whose range a step is in;
- `ReadersGetBlobs`: a blob is read back whole from the ranks that hold pieces of it;
- `PermutationsInvert`: `random_permute` and `random_unpermute` end, stay among the
  lines, and undo each other, for fewer than 2^31 lines (the greatest `next_log` of the
  model), whatever the cipher does in a round;
- `BlocksAreFound`: in the random partition, `find_block` gives a rank and a local id
  that `rank_block` takes back to the block: the line of the id is one of the rank's,
  runs through the block, and lies in the direction that owns it.  It assumes what the
  format does: a side of a section has 1 to 64 blocks (a local id keeps six bits for the
  block, and 420 boards make 53 blocks), a direction of the section is open (the slice is below
  36, line 35 of `random_partition.cc`), and there are fewer than 2^31 lines;
- `WaveletComesBack`: `wavelet_inverse` undoes the wavelet, on any number of bits at once.

The definitions are recursive functions on finite domains.  That they are
defined at all is shown from their graphs: `Recursion` builds the sequence of values up to
a length, by the least length for which there is none, and a walk on a permutation is
defined by where it ends.  For the permutation, the rounds are undone in
reverse order (`RoundsUndone`); an injection of a finite set is followed back to where it
started, as it has no more places to go to than the set has members (`Returns`), so the
walk passes below *n* again, and the walk back passes through the same numbers.
For the blocks, four more are composed: a vector is found again from its index in a box
(`BoxIs`), a line from its number in sheaves laid end to end (`OffsetFound`), a rank from a line
(`PlaceInRange`), and line and block from the bits of a local id (`SplitId`).

### What is not proved

Liveness: `ImplementsBarrier` and `KeepsPromise` beyond safety,
`EverySliceComputed`, `EveryCallReturns`, `MasterGetsAnswer`, `LookupsEnd`.  The
proof system does not reason about fairness through `ENABLED`.

The solvers: `SliceRight` and `TraverseRight` of `MidSolve`, `EntriesSound` and
`AnswersRight` of `Search`.  Minimax and the sets of rotations are recursive, and what a
recursive definition computes needs an induction over data that the provers cannot
instantiate; they are run at the full size of their small games instead.

Functions of tables, boards and sections: `ScoresRight`, `SymmetriesAct`,
`SectionsRight`, `LookupsRight`, `WebAgrees` and `LinesRight`, for the same reason; and
`PartitionsRight` and `FilesReadBack` but for the parts named above.

## Not modelled

Compression by zlib, lzma and snappy (taken to be reversible), text headers of
numpy files, timing, history, logging, options and the estimate of memory; the
variants that are not compiled (blocking pools, unfunneled MPI, uncompressed
stores, compressed outputs); MPI beyond what the callers rely on, and its errors,
which end the job; the offline tools that check or predict runs (`check.cc`,
`predict.cc`, `history.cc`), which read what others wrote; `restart_block_store_t`
beyond what `Slices` says of a restart; readers of supertensors as processes; the
older search engine (`engine.cc`, `table.cc`), which nothing calls; the learning
operators; HTTP, the user interface, and the worker of the page, which gets one message
after the other and answers in order; scripts.  `PROJECT.json` lists each part with
its reason.

## Plan

Done: barrier, flow, slices with files and crashes, the blocks of a rank and their
store, supertensor writers, thread pools and web lookups, with proofs of every safety
property of theirs that is checked; both solvers, and the functions below them, with
proofs for the list of requests, the caches, and functions that need no table.  Left
are the simple partition and the counts of the random one for every input, and whatever rests on
recursion and tables.
