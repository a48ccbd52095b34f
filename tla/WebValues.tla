------------------------------ MODULE WebValues ------------------------------
(***************************************************************************)
(* The lookups of the web server: values.js with the merging of requests of*)
(* pending.js and the cache of block_cache.js, on the event loop of node.  *)
(*                                                                         *)
(* A request asks for the values of some boards, each in a block of the    *)
(* database; what is asked in one request is a sequence of blocks.  A block*)
(* that is not in the cache is fetched in two downloads, its location and  *)
(* its data, and then decompressed.  The cache evicts the blocks that were *)
(* used least recently.                                                    *)
(*                                                                         *)
(* JavaScript runs to completion.  An event (a request, a download, the end*)
(* of a decompression) is taken when the queue of microtasks is empty, and *)
(* the continuations of settled promises run in the order of that queue.   *)
(* `tasks` is that queue; a call that runs at once is put at its front.    *)
(***************************************************************************)
EXTENDS Integers, SequencesExt, FiniteSetsExt

CONSTANTS Request,
          Asks,     \* the blocks each request asks for, in order
          Block,
          SizeOf,   \* bytes of each block, uncompressed
          Limit,    \* cache limit, in bytes
          None

Lookup == UNION {{r} \X (1 .. Len(Asks[r])) : r \in Request}
BlockOf(l) == Asks[l[1]][l[2]]

\* Every block fits in the cache
ASSUME SizeAssumption == /\ Limit \in Nat /\ IsFiniteSet(Block)
                         /\ \A b \in Block : SizeOf[b] \in 1 .. Limit

ASSUME AskAssumption == Asks \in [Request -> Seq(Block)] /\ None \notin Lookup

VARIABLES
  lru,      \* the blocks in the cache, the most recently used first
  pending,  \* the promise that is pending for each block, named by the lookup that made it
  promise,  \* where each promise is: "none", "index", "data", "decode", "resolved", "rejected"
  waiters,  \* the lookups that wait for each promise, in order
  waits,    \* the promise each lookup waits for
  result,   \* "none", "waiting", "value", "missing" (value() threw) or "failed" (the await threw)
  tasks     \* the microtasks

vars == <<lru, pending, promise, waiters, waits, result, tasks>>

Init ==
  /\ lru = <<>>
  /\ pending = [b \in Block |-> None]
  /\ promise = [l \in Lookup |-> "none"]
  /\ waiters = [l \in Lookup |-> <<>>]
  /\ waits = [l \in Lookup |-> None]
  /\ result = [l \in Lookup |-> "none"]
  /\ tasks = <<>>

Task(what, l) == [what |-> what, of |-> l]
Turn == tasks = <<>>
Runs(what, l) == tasks # <<>> /\ Head(tasks) = Task(what, l)
Then(new) == tasks' = Tail(tasks) \o new

Settled(p) == promise[p] \in {"resolved", "rejected"}
Resumes(ls) == [i \in DOMAIN ls |-> Task("resume", ls[i])]
-----------------------------------------------------------------------------
(***************************************************************************)
(* The cache.                                                              *)
(***************************************************************************)
LengthOf(b) == SizeOf[b]

Total[bs \in SUBSET Block] ==
  IF bs = {} THEN 0
  ELSE LET b == CHOOSE b \in bs : TRUE IN LengthOf(b) + Total[bs \ {b}]

\* lru-cache: the least recently used go until the rest fits
Trim(bs) == SubSeq(bs, 1, Max({n \in 0 .. Len(bs) : Total[Range(SubSeq(bs, 1, n))] <= Limit}))

contains(b) == b \in Range(lru)

ToFront(b) == <<b>> \o (IF contains(b) THEN RemoveAt(lru, CHOOSE i \in DOMAIN lru : lru[i] = b) ELSE lru)
-----------------------------------------------------------------------------
(***************************************************************************)
(* A request arrives: values() walks its boards without awaiting anything, *)
(* so all of its lookups are asked at once.                                *)
(***************************************************************************)
Arrive(r) ==
  /\ Turn
  /\ \A i \in 1 .. Len(Asks[r]) : result[<<r, i>>] = "none"
  /\ tasks' = [i \in 1 .. Len(Asks[r]) |-> Task("ask", <<r, i>>)]
  /\ UNCHANGED <<lru, pending, promise, waiters, waits, result>>

(***************************************************************************)
(* pending_block(block), and the await of what it returns: an earlier      *)
(* promise, or one for a computation that begins here.                     *)
(***************************************************************************)
Await(l, p) ==
  /\ waits' = [waits EXCEPT ![l] = p]
  /\ result' = [result EXCEPT ![l] = "waiting"]

Join(l) ==
  LET p == pending[BlockOf(l)] IN
  /\ Runs("ask", l) /\ p # None
  /\ Await(l, p)
  /\ IF Settled(p) THEN Then(<<Task("resume", l)>>) /\ UNCHANGED waiters
                   ELSE Then(<<>>) /\ waiters' = [waiters EXCEPT ![p] = Append(@, l)]
  /\ UNCHANGED <<lru, pending, promise>>

\* Mutant of Compute: whatever is pending, a new computation starts
ComputeAlways(l) ==
  LET b == BlockOf(l) IN
  /\ Runs("ask", l)
  /\ Await(l, l)
  /\ pending' = [pending EXCEPT ![b] = l]
  /\ IF contains(b)
       THEN /\ promise' = [promise EXCEPT ![l] = "resolved"]
            /\ Then(<<Task("delete", l), Task("resume", l)>>)
            /\ UNCHANGED waiters
       ELSE /\ promise' = [promise EXCEPT ![l] = "index"]
            /\ waiters' = [waiters EXCEPT ![l] = <<l>>]
            /\ Then(<<>>)
  /\ UNCHANGED lru

Compute(l) ==
  LET b == BlockOf(l) IN
  /\ Runs("ask", l) /\ pending[b] = None
  /\ Await(l, l)
  /\ pending' = [pending EXCEPT ![b] = l]
  /\ IF contains(b)
       THEN /\ promise' = [promise EXCEPT ![l] = "resolved"]
            /\ Then(<<Task("delete", l), Task("resume", l)>>)
            /\ UNCHANGED waiters
       ELSE /\ promise' = [promise EXCEPT ![l] = "index"]
            /\ waiters' = [waiters EXCEPT ![l] = <<l>>]
            /\ Then(<<>>)
  /\ UNCHANGED lru

\* p.then(() => delete pending[name])
Delete(l) ==
  /\ Runs("delete", l)
  /\ pending' = [pending EXCEPT ![BlockOf(l)] = None]
  /\ Then(<<>>)
  /\ UNCHANGED <<lru, promise, waiters, waits, result>>

(***************************************************************************)
(* The await returns: value() reads the block, which makes it the most     *)
(* recently used, or throws.                                               *)
(***************************************************************************)
Resume(l) ==
  LET b == BlockOf(l) IN
  /\ Runs("resume", l)
  /\ result' = [result EXCEPT ![l] = IF promise[waits[l]] = "rejected" THEN "failed"
                                     ELSE IF contains(b) THEN "value" ELSE "missing"]
  /\ lru' = IF result'[l] = "value" THEN ToFront(b) ELSE lru
  /\ Then(<<>>)
  /\ UNCHANGED <<pending, promise, waiters, waits>>
-----------------------------------------------------------------------------
(***************************************************************************)
(* The computation of a block, after the check that it is not in the cache.*)
(***************************************************************************)
GotIndex(p) ==
  /\ Turn /\ promise[p] = "index"
  /\ promise' = [promise EXCEPT ![p] = "data"]
  /\ UNCHANGED <<lru, pending, waiters, waits, result, tasks>>

\* Mutant of GotData: cache.set is not awaited
GotDataUnawaited(p) ==
  /\ Turn /\ promise[p] = "data"
  /\ promise' = [promise EXCEPT ![p] = "resolved"]
  /\ tasks' = <<Task("delete", p)>> \o Resumes(waiters[p]) \o <<Task("store", p)>>
  /\ UNCHANGED <<lru, pending, waiters, waits, result>>

GotData(p) ==
  /\ Turn /\ promise[p] = "data"
  /\ promise' = [promise EXCEPT ![p] = "decode"]
  /\ UNCHANGED <<lru, pending, waiters, waits, result, tasks>>

\* Mutant of Rejects: waiting lookups are not told of a failure
RejectsSilently(p) == <<>>

Rejects(p) == Resumes(waiters[p])

\* A download fails, and pending_block's promise with it
DownloadFails(p) ==
  /\ Turn /\ promise[p] \in {"index", "data"}
  /\ promise' = [promise EXCEPT ![p] = "rejected"]
  /\ tasks' = Rejects(p)
  /\ UNCHANGED <<lru, pending, waiters, waits, result>>

\* "Grab block data, retrying if the data is corrupt"
Corrupt(p) ==
  /\ Turn /\ promise[p] = "decode"
  /\ promise' = [promise EXCEPT ![p] = "data"]
  /\ UNCHANGED <<lru, pending, waiters, waits, result, tasks>>

Decoded(p) ==
  /\ Turn /\ promise[p] = "decode"
  /\ tasks' = <<Task("store", p)>>
  /\ UNCHANGED <<lru, pending, promise, waiters, waits, result>>

\* block_cache_t's set puts the block in the cache; then its own promise settles
Store(p) ==
  /\ Runs("store", p)
  /\ lru' = Trim(ToFront(BlockOf(p)))
  /\ Then(<<Task("return", p)>>)
  /\ UNCHANGED <<pending, promise, waiters, waits, result>>

Return(p) ==
  /\ Runs("return", p)
  /\ promise' = [promise EXCEPT ![p] = "resolved"]
  /\ Then(<<Task("delete", p)>> \o Resumes(waiters[p]))
  /\ UNCHANGED <<lru, pending, waiters, waits, result>>
-----------------------------------------------------------------------------
Download(p) == GotIndex(p) \/ GotData(p) \/ DownloadFails(p)

Microtask == \E l \in Lookup : Join(l) \/ Compute(l) \/ Delete(l) \/ Resume(l) \/ Store(l) \/ Return(l)

Next == \/ Microtask
        \/ \E r \in Request : Arrive(r)
        \/ \E p \in Lookup : Download(p) \/ Corrupt(p) \/ Decoded(p)

(***************************************************************************)
(* Microtasks run, downloads end one way or the other, and a block is not  *)
(* corrupt for ever.                                                       *)
(***************************************************************************)
Fairness == /\ WF_vars(Microtask)
            /\ \A p \in Lookup : WF_vars(Download(p)) /\ SF_vars(Decoded(p)) /\ WF_vars(Corrupt(p) \/ Decoded(p))

Spec == Init /\ [][Next]_vars /\ Fairness
-----------------------------------------------------------------------------
Fetching(p) == promise[p] \in {"index", "data", "decode"}

(***************************************************************************)
(* The cache keeps within its memory limit.                                *)
(***************************************************************************)
TypeOK ==
  /\ lru \in Seq(Block) /\ IsInjective(lru)
  /\ Total[Range(lru)] <= Limit
  /\ pending \in [Block -> Lookup \cup {None}]
  /\ promise \in [Lookup -> {"none", "index", "data", "decode", "resolved", "rejected"}]
  /\ waiters \in [Lookup -> Seq(Lookup)]
  /\ waits \in [Lookup -> Lookup \cup {None}]
  /\ result \in [Lookup -> {"none", "waiting", "value", "missing", "failed"}]
  /\ tasks \in Seq([what : {"ask", "delete", "resume", "store", "return"}, of : Lookup])

(***************************************************************************)
(* value() throws if the block is missing.  Between the moment pending_block*)
(* knows that the block is in the cache and the one value() reads it, other*)
(* continuations run; none of them evicts it.                              *)
(***************************************************************************)
NeverMissing == \A l \in Lookup : result[l] # "missing"

(***************************************************************************)
(* pending.js: "If two people ask for the same asynchronous computation, do*)
(* it only once".  A block that is being fetched is fetched once, is not in*)
(* the cache, and later lookups find it pending.                           *)
(***************************************************************************)
FetchesOnce ==
  \A p \in Lookup : Fetching(p) =>
    /\ pending[BlockOf(p)] = p
    /\ \A q \in Lookup \ {p} : BlockOf(q) = BlockOf(p) => ~Fetching(q)
    /\ contains(BlockOf(p)) => Runs("return", p)

(***************************************************************************)
(* Every lookup ends, with a value or an exception, also those that joined *)
(* another's fetch and those whose block was corrupt at first.             *)
(***************************************************************************)
LookupsEnd == \A l \in Lookup : result[l] = "waiting" ~> result[l] \in {"value", "failed"}

(***************************************************************************)
(* values.js: "merging simultaneous requests".  A lookup that comes after  *)
(* a fetch has failed does not share its failure but starts another.       *)
(***************************************************************************)
MergesSimultaneous ==
  [][\A l \in Lookup : waits'[l] # waits[l] => promise[waits'[l]] # "rejected"]_vars
=============================================================================
