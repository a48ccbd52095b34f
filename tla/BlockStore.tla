----------------------------- MODULE BlockStore ------------------------------
(***************************************************************************)
(* accumulating_block_store_t (end/block_store.cc) on top of               *)
(* compacting_store_t, through the slices of mpi/toplevel.cc on one rank.  *)
(* CPU jobs accumulate one contribution per dimension into each block:     *)
(* uncompress, combine, compress, store.  A value is the set of dimensions *)
(* combined into it.                                                       *)
(*                                                                         *)
(* The array lock does not cover an accumulate, because set releases it to *)
(* allocate; info.lock does.                                               *)
(***************************************************************************)
EXTENDS CompactingStore

CONSTANTS Dim,       \* the dimensions every block misses at first
          MaxSlices  \* slices computed

\* What is compressed is never empty
ASSUME ValueAssumption == /\ Dim # {} /\ Value = (SUBSET Dim) \ {{}}
                          /\ \A v \in Value : SizeOf[v] > 0
                          /\ MaxSlices \in Nat

VARIABLES
  slice, phase,  \* progress of the loop over slices
  current,       \* the group being computed
  jobs,          \* accumulate jobs not yet started
  info_lock,     \* the thread holding each block's info.lock, or None
  missing,       \* missing_dimensions
  section_counts \* the values counted into the section's counts, per block

blockvars == <<slice, phase, current, jobs, info_lock, missing, section_counts>>
vars == <<storevars, blockvars>>

Init ==
  /\ StoreInit
  /\ slice = 1 /\ phase = "allocate" /\ current = 0
  /\ jobs = {}
  /\ info_lock = [a \in Array |-> None]
  /\ missing = [a \in Array |-> {}]
  /\ section_counts = [a \in Array |-> <<>>]
-----------------------------------------------------------------------------
(***************************************************************************)
(* accumulate.                                                             *)
(***************************************************************************)
\* Mutant of LockInfo: info.lock is not taken
RunUnlocked(t, a, d) ==
  /\ At(t, "idle")
  /\ <<a, d>> \in jobs
  /\ jobs' = jobs \ {<<a, d>>}
  /\ op' = [op EXCEPT ![t] = [pc |-> "read", array |-> a, value |-> {d}]]
  /\ UNCHANGED <<storage, locks, died, slice, phase, current, info_lock, missing, section_counts>>

LockInfo(t, a, d) ==
  /\ At(t, "idle")
  /\ <<a, d>> \in jobs
  /\ info_lock[a] = None
  /\ jobs' = jobs \ {<<a, d>>}
  /\ info_lock' = [info_lock EXCEPT ![a] = t]
  /\ op' = [op EXCEPT ![t] = [pc |-> "read", array |-> a, value |-> {d}]]
  /\ UNCHANGED <<storage, locks, died, slice, phase, current, missing, section_counts>>

\* What get() returns, uncompressed; {} if the array is empty
Old(a) == IF size[a] = 0 THEN {} ELSE CHOOSE v \in Value : Holds(a, v)

\* Mutant of Counted: partial blocks are counted too
CountedAlways(a, left, new) == [section_counts EXCEPT ![a] = Append(@, new)]

\* The last contribution to a block counts its wins
Counted(a, left, new) ==
  IF left = {} THEN [section_counts EXCEPT ![a] = Append(@, new)] ELSE section_counts

Combine(t) ==
  LET a == op[t].array
      d == CHOOSE d \in op[t].value : TRUE
      new == op[t].value \cup Old(a)
  IN
  /\ At(t, "read")
  /\ Lock(t, a)
  /\ op' = [op EXCEPT ![t].pc = "set", ![t].value = new]
  /\ missing' = [missing EXCEPT ![a] = @ \ {d}]
  /\ section_counts' = Counted(a, missing[a] \ {d}, new)
  /\ died' = (d \notin missing[a])
  /\ UNCHANGED <<storage, heap_lock, slice, phase, current, jobs, info_lock>>

Finish(t) ==
  /\ End(t)
  /\ info_lock' = [info_lock EXCEPT ![op[t].array] = None]
  /\ UNCHANGED <<slice, phase, current, jobs, missing, section_counts>>

Work(t) == \/ \E a \in Array, d \in Dim : LockInfo(t, a, d)
           \/ Combine(t)
           \/ Store(t) /\ UNCHANGED blockvars
           \/ Finish(t)
-----------------------------------------------------------------------------
(***************************************************************************)
(* One slice: a new group, its contributions, the end of the previous      *)
(* slice's group, and the freeze that makes the new one readable.          *)
(***************************************************************************)
NewSlice(g) ==
  /\ phase = "allocate" /\ slice <= MaxSlices
  /\ AllocateGroup(g)
  /\ phase' = "compute"
  /\ current' = g
  /\ jobs' = (Members(g))' \X Dim
  /\ missing' = [a \in Array |-> IF a[1] = g THEN Dim ELSE missing[a]]
  /\ info_lock' = [a \in Array |-> IF a[1] = g THEN None ELSE info_lock[a]]
  /\ section_counts' = [a \in Array |-> <<>>]
  /\ UNCHANGED slice

\* compute_lines returns, and the previous slice's blocks are dropped
DropPrevious ==
  /\ phase = "compute" /\ Quiet /\ jobs = {}
  /\ phase' = "freeze"
  /\ IF groups = {current} THEN UNCHANGED storevars ELSE ClearGroup(1 - current)
  /\ UNCHANGED <<slice, current, jobs, info_lock, missing, section_counts>>

FreezeSlice ==
  /\ phase = "freeze"
  /\ Freeze(current)
  /\ phase' = "allocate"
  /\ slice' = slice + 1
  /\ UNCHANGED <<current, jobs, info_lock, missing, section_counts>>

Advance == (\E g \in Group : NewSlice(g)) \/ DropPrevious \/ FreezeSlice

Next == Advance \/ \E t \in Thread : Work(t)

Spec == Init /\ [][Next]_vars
-----------------------------------------------------------------------------
TypeOK ==
  /\ StoreTypeOK
  /\ slice \in 1 .. MaxSlices + 1
  /\ phase \in {"allocate", "compute", "freeze"}
  /\ current \in Group
  /\ jobs \subseteq Array \X Dim
  /\ info_lock \in [Array -> Thread \cup {None}]
  /\ missing \in [Array -> SUBSET Dim]
  /\ section_counts \in [Array -> Seq(Value)]

(***************************************************************************)
(* No contribution is lost or doubled: a block nobody is working on holds  *)
(* exactly the contributions that missing_dimensions says have come, even  *)
(* when several arrived at once and while others were collecting the heap. *)
(* A frozen block, which other ranks may be sent, is complete.             *)
(***************************************************************************)
HoldsContributions ==
  ~died => \A a \in InUse :
    /\ info_lock[a] = None => ValueOf(a) = IF missing[a] = Dim THEN NoValue ELSE Dim \ missing[a]
    /\ frozen[a] => missing[a] = {} /\ ValueOf(a) = Dim

(***************************************************************************)
(* A block's wins are counted once, and only when it is complete.          *)
(***************************************************************************)
CountedOnceComplete ==
  ~died => \A a \in Members(current) :
    section_counts[a] = IF missing[a] = {} THEN <<Dim>> ELSE <<>>
=============================================================================
