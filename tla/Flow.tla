-------------------------------- MODULE Flow ---------------------------------
(***************************************************************************)
(* compute_lines of mpi/flow.cc: the endgame computation of one slice over *)
(* all ranks.  A rank allocates lines while memory, gathers and line slots *)
(* last, requests their input blocks from the owners (one request per block*)
(* for all the lines waiting for it), computes them on CPU threads, sends  *)
(* the output blocks to their owners, accumulates what it receives, and    *)
(* leaves when the barrier says that every rank has finished.              *)
(*                                                                         *)
(* The communication thread runs one callback at a time; CPU jobs of       *)
(* end/compute.cc and absorb_response interleave with it step by step.     *)
(* A message is identified by what it carries: a block request by the block*)
(* and the first line that waits for it (the code numbers them), an output *)
(* by its line and block.                                                  *)
(***************************************************************************)
EXTENDS Integers, SequencesExt, FiniteSetsExt

CONSTANTS Rank, Line, InBlock, OutBlock,
          Order,         \* the lines of each rank, in scheduling order
          Inputs,        \* the input blocks of a line, except on the last slice
          Outputs,       \* the output blocks of a line
          Owner,         \* the rank that stores a block
          Microlines,    \* CPU jobs per line
          Memory,        \* bytes a line allocates
          MemoryLimit, GatherLimit, LineLimit

(***************************************************************************)
(* The constructor asserts the bounds on memory and gathers, options.cc    *)
(* those on the line limit; the partition gives every line to one rank.    *)
(***************************************************************************)
ASSUME LimitsAssumption ==
  /\ MemoryLimit \in Nat /\ Memory \in [Line -> Nat]
  /\ \A l \in Line : 2 * Memory[l] <= MemoryLimit
  /\ GatherLimit \in 1 .. 32
  /\ LineLimit \in Nat /\ LineLimit >= 2

ASSUME SliceAssumption ==
  /\ IsFiniteSet(Rank) /\ IsFiniteSet(Line) /\ IsFiniteSet(InBlock) /\ IsFiniteSet(OutBlock)
  /\ Inputs \in [Line -> SUBSET InBlock]
  /\ Outputs \in [Line -> (SUBSET OutBlock) \ {{}}]
  /\ Microlines \in [Line -> Nat \ {0}]
  /\ \A b \in InBlock \cup OutBlock : Owner[b] \in Rank

ASSUME PartitionAssumption ==
  /\ Order \in [Rank -> Seq(Line)]
  /\ \A r \in Rank : IsInjective(Order[r])
  /\ \A l \in Line : \E r \in Rank : l \in Range(Order[r])
  /\ \A r, s \in Rank : r # s => Range(Order[r]) \cap Range(Order[s]) = {}

Home(l) == CHOOSE r \in Rank : l \in Range(Order[r])

Contribution == {c \in Line \X OutBlock : c[2] \in Outputs[c[1]]}

ContributionOwner == [c \in Contribution |-> Owner[c[2]]]

VARIABLES
  last_slice,      \* the lines have no input blocks
  merge_block_requests, \* off when history is traced
  pc,              \* "init", "loop", "join" (threads_wait_all_help), "returned"
  unscheduled,     \* unscheduled_lines, next line first
  free,            \* free_memory, free_line_gathers and free_lines
  line,            \* the lines, with their counters once allocated
  filled,          \* <<l, b>>: l's buffer holds input block b, uncompressed
  block_requests,  \* per rank, the requests that await a response
  absorbing,       \* absorb_response jobs
  microjobs,       \* queued or running compute_microline jobs of each line
  immediates,      \* lines whose wakeup waits for the communication thread
  requests,        \* request messages in flight
  responses,       \* response messages in flight
  outputs,         \* output messages in flight
  sends,           \* output sends MPI has not reported complete
  accumulating,    \* accumulate jobs
  accumulated,     \* how often each contribution was accumulated
  countdown,       \* ibarrier_countdown_t::count
  entered, released \* the barrier: ranks that started, ranks that see done()

settings == <<last_slice, merge_block_requests>>  \* the same for all of a computation
comm == <<requests, responses, outputs, sends>>
barrier == <<entered, released>>
vars == <<settings, pc, unscheduled, free, line, filled, block_requests, absorbing, microjobs,
          immediates, comm, accumulating, accumulated, countdown, barrier>>

Barrier == INSTANCE Barrier WITH left <- released

InputsOf(l) == IF last_slice THEN {} ELSE Inputs[l]

Unallocated == [state |-> "unallocated"]
Deallocated == [state |-> "deallocated"]

\* line_details_t as its constructor leaves it
Allocated(l) == [state |-> "allocated",
                 missing_input_responses |-> Cardinality(InputsOf(l)),
                 missing_input_blocks |-> Cardinality(InputsOf(l)),
                 missing_microlines |-> Microlines[l],
                 unsent_output_blocks |-> Cardinality(Outputs[l])]

\* Mutant of TotalBlocks: one block for each line
TotalBlocksOfLines(r) == Cardinality(Range(Order[r]))

\* Output sends of the rank's own lines, plus contributions to its own blocks
TotalBlocks(r) == Cardinality({c \in Contribution : c[1] \in Range(Order[r])})
RequiredContributions(r) == Cardinality({c \in Contribution : ContributionOwner[c] = r})

Init ==
  /\ last_slice \in BOOLEAN /\ merge_block_requests \in BOOLEAN
  /\ pc = [r \in Rank |-> "init"]
  /\ unscheduled = Order
  /\ free = [r \in Rank |-> [memory |-> MemoryLimit, gathers |-> GatherLimit, lines |-> LineLimit]]
  /\ line = [l \in Line |-> Unallocated]
  /\ filled = {}
  /\ block_requests = [r \in Rank |-> {}]
  /\ absorbing = {}
  /\ microjobs = [l \in Line |-> 0]
  /\ immediates = {}
  /\ requests = {} /\ responses = {} /\ outputs = {} /\ sends = {}
  /\ accumulating = {}
  /\ accumulated = [c \in Contribution |-> 0]
  /\ countdown = [r \in Rank |-> TotalBlocks(r) + RequiredContributions(r)]
  /\ Barrier!Init
-----------------------------------------------------------------------------
(***************************************************************************)
(* schedule_lines, from the resources and pending requests given.  Its loop*)
(* stops at the first line that finds no line slot, no gather or too little*)
(* memory, so it allocates the longest prefix of unscheduled none of whose *)
(* members is stopped.                                                     *)
(***************************************************************************)
MemoryOf[lines \in SUBSET Line] ==
  IF lines = {} THEN 0
  ELSE LET l == CHOOSE l \in lines : TRUE IN Memory[l] + MemoryOf[lines \ {l}]

Gathering(lines) == {l \in lines : InputsOf(l) # {}}

CanAllocate(available, ls) ==
  LET before == Range(Front(ls)) IN
    /\ available.lines > Cardinality(before)
    /\ available.gathers > Cardinality(Gathering(before))
    /\ available.memory >= MemoryOf[Range(ls)]

Allocatable(available, ls) ==
  LET fits(n) == \A k \in 1 .. n : CanAllocate(available, SubSeq(ls, 1, k))
  IN SubSeq(ls, 1, Max({n \in 0 .. Len(ls) : fits(n)}))

\* The lines of ls that read b, in the order of ls
Waiters(ls, b) ==
  LET upto[n \in 0 .. Len(ls)] ==
        IF n = 0 THEN <<>>
        ELSE IF b \in InputsOf(ls[n]) THEN Append(upto[n - 1], ls[n]) ELSE upto[n - 1]
  IN upto[Len(ls)]

\* Mutant of Joined: a line does not join the request it relies on
JoinedNever(pending, ls) == pending

(***************************************************************************)
(* A block that some pending request already asks for is not requested     *)
(* again: the line joins the request's dependents.                         *)
(***************************************************************************)
Joined(pending, ls) ==
  IF merge_block_requests THEN {[q EXCEPT !.lines = @ \o Waiters(ls, q.block)] : q \in pending} ELSE pending

NewRequests(pending, ls) ==
  IF merge_block_requests
    THEN {[block |-> b, lines |-> Waiters(ls, b)] :
            b \in {b \in UNION {InputsOf(l) : l \in Range(ls)} : \A q \in pending : q.block # b}}
    ELSE UNION {{[block |-> b, lines |-> <<l>>] : b \in InputsOf(l)} : l \in Range(ls)}

\* Messages are numbered by the first line that waits for them
Id(q) == <<Head(q.lines), q.block>>

\* A line without input is computed at once
Inputless(ls) == {l \in Range(ls) : InputsOf(l) = {}}

schedule_lines(r, available, lines, pending) ==
  LET ls == Allocatable(available, unscheduled[r])
      new == NewRequests(pending, ls)
  IN /\ unscheduled' = [unscheduled EXCEPT ![r] = SubSeq(@, Len(ls) + 1, Len(@))]
     /\ free' = [free EXCEPT ![r] = [memory |-> available.memory - MemoryOf[Range(ls)],
                                     gathers |-> available.gathers - Cardinality(Gathering(Range(ls))),
                                     lines |-> available.lines - Len(ls)]]
     /\ line' = [l \in Line |-> IF l \in Range(ls) THEN Allocated(l) ELSE lines[l]]
     /\ block_requests' = [block_requests EXCEPT ![r] = Joined(pending, ls) \cup new]
     /\ requests' = requests \cup {Id(q) : q \in new}
     /\ microjobs' = [l \in Line |-> IF l \in Inputless(ls) THEN Microlines[l] ELSE microjobs[l]]

\* ibarrier_countdown_t::decrement
Decrement(r) ==
  /\ countdown' = [countdown EXCEPT ![r] = @ - 1]
  /\ IF countdown[r] = 1 THEN Barrier!Enter(r) ELSE UNCHANGED barrier
-----------------------------------------------------------------------------
(***************************************************************************)
(* The communication thread.                                               *)
(***************************************************************************)
\* The constructor, up to its loop
Start(r) ==
  /\ pc[r] = "init"
  /\ pc' = [pc EXCEPT ![r] = "loop"]
  /\ IF countdown[r] = 0 THEN Barrier!Enter(r) ELSE UNCHANGED barrier
  /\ schedule_lines(r, free[r], line, {})
  /\ UNCHANGED <<filled, absorbing, immediates, responses, outputs, sends,
                 accumulating, accumulated, countdown>>

process_request(r, id) ==
  /\ pc[r] = "loop"
  /\ id \in requests /\ Owner[id[2]] = r
  /\ requests' = requests \ {id}
  /\ responses' = responses \cup {id}
  /\ UNCHANGED <<pc, unscheduled, free, line, filled, block_requests, absorbing, microjobs,
                 immediates, outputs, sends, accumulating, accumulated, countdown, barrier>>

(***************************************************************************)
(* A gather ends for each dependent line that now has all its responses.   *)
(* The data is still compressed; absorb_response puts it in place.         *)
(***************************************************************************)
Responded(q) ==
  [l \in Line |-> IF l \in Range(q.lines) THEN [line[l] EXCEPT !.missing_input_responses = @ - 1]
                  ELSE line[l]]

Gathered(q) == {l \in Range(q.lines) : line[l].missing_input_responses = 1}

process_response(r, q) ==
  /\ pc[r] = "loop"
  /\ q \in block_requests[r]
  /\ Id(q) \in responses
  /\ responses' = responses \ {Id(q)}
  /\ absorbing' = absorbing \cup {[block |-> q.block, lines |-> q.lines, next |-> 1]}
  /\ schedule_lines(r, [free[r] EXCEPT !.gathers = @ + Cardinality(Gathered(q))],
                    Responded(q), block_requests[r] \ {q})
  /\ UNCHANGED <<pc, filled, immediates, outputs, sends, accumulating, accumulated,
                 countdown, barrier>>

\* waitsome runs all immediates at once; each wakeup sends its line's outputs
wakeup(r) ==
  /\ pc[r] = "loop"
  /\ LET ready == {l \in immediates : Home(l) = r}
         sent == {c \in Contribution : c[1] \in ready}
     IN /\ ready # {}
        /\ immediates' = immediates \ ready
        /\ outputs' = outputs \cup sent
        /\ sends' = sends \cup sent
  /\ UNCHANGED <<pc, unscheduled, free, line, filled, block_requests, absorbing, microjobs,
                 requests, responses, accumulating, accumulated, countdown, barrier>>

\* Mutant of Reclaimed: the memory of the line is forgotten
ReclaimedSlot(r, l) == [free[r] EXCEPT !.lines = @ + 1]

Reclaimed(r, l) == [free[r] EXCEPT !.lines = @ + 1, !.memory = @ + Memory[l]]

(***************************************************************************)
(* MPI reports an output send complete, which it may do before or after the*)
(* owner receives it.  The line's last one deallocates it.                 *)
(***************************************************************************)
finish_output_send(r, c) ==
  LET l == c[1] IN
  /\ pc[r] = "loop"
  /\ c \in sends /\ Home(l) = r
  /\ sends' = sends \ {c}
  /\ IF line[l].unsent_output_blocks = 1
       THEN schedule_lines(r, Reclaimed(r, l), [line EXCEPT ![l] = Deallocated], block_requests[r])
       ELSE /\ line' = [line EXCEPT ![l].unsent_output_blocks = @ - 1]
            /\ UNCHANGED <<unscheduled, free, block_requests, requests, microjobs>>
  /\ Decrement(r)
  /\ UNCHANGED <<pc, filled, absorbing, immediates, responses, outputs, accumulating, accumulated>>

process_output(r, c) ==
  /\ pc[r] = "loop"
  /\ c \in outputs /\ ContributionOwner[c] = r
  /\ outputs' = outputs \ {c}
  /\ accumulating' = accumulating \cup {c}
  /\ Decrement(r)
  /\ UNCHANGED <<pc, unscheduled, free, line, filled, block_requests, absorbing, microjobs,
                 immediates, requests, responses, sends, accumulated>>

\* process_barrier finds the barrier done; the callbacks of its batch still run
process_barrier(r) ==
  /\ pc[r] = "loop"
  /\ Barrier!Leave(r)
  /\ UNCHANGED <<pc, unscheduled, free, line, filled, block_requests, absorbing, microjobs,
                 immediates, comm, accumulating, accumulated, countdown>>

LeaveLoop(r) ==
  /\ pc[r] = "loop"
  /\ r \in released
  /\ pc' = [pc EXCEPT ![r] = "join"]
  /\ UNCHANGED <<unscheduled, free, line, filled, block_requests, absorbing, microjobs,
                 immediates, comm, accumulating, accumulated, countdown, barrier>>

\* threads_wait_all_help returns once no job of the rank is left
JobsOf(r) == {a \in absorbing : Home(Head(a.lines)) = r}
               \cup {l \in Line : microjobs[l] > 0 /\ Home(l) = r}
               \cup {c \in accumulating : ContributionOwner[c] = r}

Return(r) ==
  /\ pc[r] = "join"
  /\ JobsOf(r) = {}
  /\ pc' = [pc EXCEPT ![r] = "returned"]
  /\ UNCHANGED <<unscheduled, free, line, filled, block_requests, absorbing, microjobs,
                 immediates, comm, accumulating, accumulated, countdown, barrier>>
-----------------------------------------------------------------------------
(***************************************************************************)
(* CPU jobs.                                                               *)
(***************************************************************************)
\* decrement_missing_input_blocks: the last block schedules the microlines
BlockInPlace(l) ==
  /\ line' = [line EXCEPT ![l].missing_input_blocks = @ - 1]
  /\ microjobs' = IF line[l].missing_input_blocks = 1 THEN [microjobs EXCEPT ![l] = Microlines[l]]
                  ELSE microjobs

Advance(a) == (absorbing \ {a}) \cup {[a EXCEPT !.next = @ + 1]}

\* Mutant of Uncompress: the block of the first line counts before it is copied
UncompressAndCount(a) ==
  /\ a.next = 1
  /\ filled' = filled \cup {<<Head(a.lines), a.block>>}
  /\ absorbing' = Advance(a)
  /\ BlockInPlace(Head(a.lines))

\* Mutant of CopyToNext: the block counts, but is not copied
CountNext(a) ==
  /\ a.next \in 2 .. Len(a.lines)
  /\ absorbing' = Advance(a)
  /\ BlockInPlace(a.lines[a.next])
  /\ UNCHANGED filled

(***************************************************************************)
(* absorb_response: uncompress into the first line, copy from it to the    *)
(* others, and only then count the block of the first line in.             *)
(***************************************************************************)
Uncompress(a) ==
  /\ a.next = 1
  /\ filled' = filled \cup {<<Head(a.lines), a.block>>}
  /\ absorbing' = Advance(a)
  /\ UNCHANGED <<line, microjobs>>

CopyToNext(a) ==
  /\ a.next \in 2 .. Len(a.lines)
  /\ filled' = filled \cup {<<a.lines[a.next], a.block>>}
  /\ absorbing' = Advance(a)
  /\ BlockInPlace(a.lines[a.next])

FinishFirst(a) ==
  /\ a.next = Len(a.lines) + 1
  /\ absorbing' = absorbing \ {a}
  /\ BlockInPlace(Head(a.lines))
  /\ UNCHANGED filled

absorb_response(r) ==
  /\ \E a \in absorbing : /\ Home(Head(a.lines)) = r
                          /\ Uncompress(a) \/ CopyToNext(a) \/ FinishFirst(a)
  /\ UNCHANGED <<pc, unscheduled, free, block_requests, immediates, comm, accumulating,
                 accumulated, countdown, barrier>>

\* One microline; the line's last one posts its wakeup
compute_microline(l) ==
  /\ microjobs[l] > 0
  /\ microjobs' = [microjobs EXCEPT ![l] = @ - 1]
  /\ line' = [line EXCEPT ![l].missing_microlines = @ - 1]
  /\ immediates' = IF line[l].missing_microlines = 1 THEN immediates \cup {l} ELSE immediates
  /\ UNCHANGED <<pc, unscheduled, free, filled, block_requests, absorbing, comm, accumulating,
                 accumulated, countdown, barrier>>

accumulate(c) ==
  /\ c \in accumulating
  /\ accumulating' = accumulating \ {c}
  /\ accumulated' = [accumulated EXCEPT ![c] = @ + 1]
  /\ UNCHANGED <<pc, unscheduled, free, line, filled, block_requests, absorbing, microjobs,
                 immediates, comm, countdown, barrier>>
-----------------------------------------------------------------------------
Communicate(r) ==
  /\ \/ Start(r)
     \/ \E id \in requests : process_request(r, id)
     \/ \E q \in block_requests[r] : process_response(r, q)
     \/ wakeup(r)
     \/ \E c \in sends : finish_output_send(r, c)
     \/ \E c \in outputs : process_output(r, c)
     \/ process_barrier(r)
     \/ LeaveLoop(r)
     \/ Return(r)
  /\ UNCHANGED settings

Compute(r) ==
  /\ \/ absorb_response(r)
     \/ \E l \in Line : Home(l) = r /\ compute_microline(l)
     \/ \E c \in accumulating : ContributionOwner[c] = r /\ accumulate(c)
  /\ UNCHANGED settings

Next == \E r \in Rank : Communicate(r) \/ Compute(r)

(***************************************************************************)
(* The communication thread of a rank keeps polling, MPI delivers and      *)
(* completes what was sent, and worker threads run what is queued.         *)
(***************************************************************************)
Spec == /\ Init /\ [][Next]_vars
        /\ \A r \in Rank : WF_vars(Communicate(r)) /\ WF_vars(Compute(r))
-----------------------------------------------------------------------------
Live == {l \in Line : line[l].state = "allocated"}

LineDetails == [state : {"allocated"}, missing_input_responses : Nat, missing_input_blocks : Nat,
                missing_microlines : Nat, unsent_output_blocks : Nat]

TypeOK ==
  /\ last_slice \in BOOLEAN /\ merge_block_requests \in BOOLEAN
  /\ pc \in [Rank -> {"init", "loop", "join", "returned"}]
  /\ unscheduled \in [Rank -> Seq(Line)]
  /\ free \in [Rank -> [memory : Nat, gathers : Nat, lines : Nat]]
  /\ line \in [Line -> {Unallocated, Deallocated} \cup LineDetails]
  /\ filled \subseteq Line \X InBlock
  /\ block_requests \in [Rank -> SUBSET [block : InBlock, lines : Seq(Line)]]
  /\ absorbing \subseteq [block : InBlock, lines : Seq(Line), next : Nat]
  /\ microjobs \in [Line -> Nat]
  /\ immediates \subseteq Line
  /\ requests \cup responses \subseteq Line \X InBlock
  /\ outputs \cup sends \cup accumulating \subseteq Contribution
  /\ accumulated \in [Contribution -> Nat]
  /\ countdown \in [Rank -> Nat]
  /\ entered \subseteq Rank /\ released \subseteq Rank

(***************************************************************************)
(* A line is deleted while jobs, callbacks and requests hold plain pointers*)
(* to it.  Whoever may still touch a line touches one that is allocated:   *)
(* the jobs that absorb and compute it, its wakeup, its pending sends, and *)
(* the requests that will store into it.                                   *)
(***************************************************************************)
NoUseAfterFree ==
  /\ \A a \in absorbing : \A i \in 1 .. Len(a.lines) : i = 1 \/ i >= a.next => a.lines[i] \in Live
  /\ \A l \in Line : microjobs[l] > 0 => l \in Live
  /\ immediates \subseteq Live
  /\ \A c \in sends : c[1] \in Live
  /\ \A r \in Rank : \A q \in block_requests[r] : Range(q.lines) \subseteq Live

(***************************************************************************)
(* A microline reads the whole input of its line, so when one is queued    *)
(* every input block is in place: uncompressed, and copied to every line   *)
(* that shared the request.                                                *)
(***************************************************************************)
ComputesOnCompleteInput ==
  \A l \in Line : microjobs[l] > 0 => \A b \in InputsOf(l) : <<l, b>> \in filled

(***************************************************************************)
(* The three resources are given back exactly once: what is free and what  *)
(* the allocated lines hold add up to the limits.                          *)
(***************************************************************************)
ResourcesAddUp ==
  \A r \in Rank :
    LET own == {l \in Live : Home(l) = r}
        waiting == {l \in own : line[l].missing_input_responses > 0}
    IN free[r] = [memory |-> MemoryLimit - MemoryOf[own],
                  gathers |-> GatherLimit - Cardinality(waiting),
                  lines |-> LineLimit - Cardinality(own)]

(***************************************************************************)
(* "The barrier tells us when all messages are finished": when the first   *)
(* rank leaves its loop, cancels its requests and lets its input blocks be *)
(* deallocated, no rank has a message, a request, an unscheduled line or a *)
(* wakeup left.  It implies the assertions after the loop and those of     *)
(* cancel_and_waitall.                                                     *)
(***************************************************************************)
QuietWhenLeaving ==
  (\E r \in Rank : pc[r] \in {"join", "returned"}) =>
    /\ comm = <<{}, {}, {}, {}>>
    /\ \A r \in Rank : unscheduled[r] = <<>> /\ block_requests[r] = {}
    /\ immediates = {} /\ Live = {}

(***************************************************************************)
(* The whole flow keeps the promise of compute_lines, liveness included: no*)
(* mixture of limits and request orders leaves ranks waiting for each      *)
(* other, and compute_lines returns everywhere.                            *)
(***************************************************************************)
Promise == INSTANCE ComputeLines WITH
  Owner <- ContributionOwner, returned <- {r \in Rank : pc[r] = "returned"}

KeepsPromiseSafely == Promise!Safety

KeepsPromise == Promise!Spec
=============================================================================
