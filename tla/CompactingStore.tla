--------------------------- MODULE CompactingStore ---------------------------
(***************************************************************************)
(* end/compacting_store.cc in compressed mode: arrays of bytes in one heap *)
(* that is compacted when it is full.  Every array has a spin lock, the    *)
(* heap has another; arrays come in two groups, at most one of them frozen *)
(* while the other is filled.                                              *)
(*                                                                         *)
(* A step ends where the code releases a lock, waits for one, or has done  *)
(* work that needs one.  An address is an offset into the heap; a byte is  *)
(* known by the value and the position in it that it was written for.      *)
(***************************************************************************)
EXTENDS Integers, SequencesExt, FiniteSetsExt

CONSTANTS Thread, None,
          NoValue,    \* what an array that was never set holds
          Garbled,    \* the contents of an array that are no one's value
          Count,      \* the number of arrays in each group
          Value,      \* what users store
          SizeOf,     \* the size of each value in bytes
          HeapSize, Alignment,
          MinFree     \* the free bytes a collection must leave

Group == {0, 1}
Array == UNION {{g} \X (1 .. Count[g]) : g \in Group}

ASSUME HeapAssumption ==
  /\ None \notin Thread /\ Count \in [Group -> Nat]
  /\ Alignment \in Nat \ {0} /\ MinFree \in Nat
  /\ HeapSize \in Nat /\ HeapSize % Alignment = 0
  /\ SizeOf \in [Value -> Nat]

VARIABLES
  groups,      \* the groups that are allocated
  size, data,  \* of each array; data is Null or an offset
  frozen,
  array_lock,  \* the thread holding each array's lock, or None
  heap_lock,
  heap_next,
  heap,        \* the bytes written at each offset
  op,          \* each thread's call: where it is, its array and its value
  died         \* the process called die

storage == <<groups, size, data, frozen, heap_next, heap>>
locks == <<array_lock, heap_lock>>
storevars == <<storage, locks, op, died>>

Null == -1
Unwritten == <<>>

align_size(n) == ((n + Alignment - 1) \div Alignment) * Alignment

Idle == [pc |-> "idle"]

StoreInit ==
  /\ groups = {}
  /\ size = [a \in Array |-> 0]
  /\ data = [a \in Array |-> Null]
  /\ frozen = [a \in Array |-> FALSE]
  /\ array_lock = [a \in Array |-> None]
  /\ heap_lock = None
  /\ heap_next = 0
  /\ heap = [i \in 0 .. HeapSize - 1 |-> Unwritten]
  /\ op = [t \in Thread |-> Idle]
  /\ died = FALSE

Bytes(v) == [i \in 0 .. SizeOf[v] - 1 |-> <<v, i>>]

\* The value an array holds, if its bytes are those of a value set to it
Holds(a, v) ==
  /\ size[a] = SizeOf[v]
  /\ \A i \in 0 .. size[a] - 1 : heap[data[a] + i] = Bytes(v)[i]

At(t, pc) == op[t].pc = pc /\ ~died
Goto(t, pc) == op' = [op EXCEPT ![t].pc = pc]

Members(g) == {a \in Array : a[1] = g /\ g \in groups}
InUse == Members(0) \cup Members(1)

-----------------------------------------------------------------------------
(***************************************************************************)
(* unlocked_garbage_collect.  Arrays are taken in the order of their       *)
(* addresses, where std::sort may leave empty arrays on either side of a   *)
(* full one, and slide down one by one.                                    *)
(***************************************************************************)
IndexOf(s, a) == CHOOSE n \in DOMAIN s : s[n] = a

\* Mutant of Orders: the arrays are not sorted
UnsortedOrders ==
  {s \in [1 .. Cardinality(InUse) -> InUse] : \A i, j \in DOMAIN s : i # j => s[i] # s[j]}

Orders ==
  {s \in [1 .. Cardinality(InUse) -> InUse] :
     /\ \A i, j \in DOMAIN s : i # j => s[i] # s[j]
     /\ \A i \in 1 .. Len(s) - 1 : data[s[i]] <= data[s[i + 1]]}

\* The bytes after memmove(target, array->data, array->size)
memmove(bytes, target, a) ==
  [i \in DOMAIN heap |-> IF i - target \in 0 .. size[a] - 1 THEN bytes[data[a] + (i - target)] ELSE bytes[i]]

\* The next target and the bytes of the heap, once the first n arrays of an order have moved
Slide(order) ==
  LET slide[n \in 0 .. Len(order)] ==
        IF n = 0 THEN [target |-> 0, bytes |-> heap]
        ELSE LET before == slide[n - 1] IN
               [target |-> before.target + align_size(size[order[n]]),
                bytes |-> memmove(before.bytes, before.target, order[n])]
  IN slide

Collect ==
  \E order \in Orders :
    LET slide == Slide(order)
        end == slide[Len(order)]
        place(a) == slide[IndexOf(order, a) - 1].target
    IN /\ data' = [a \in Array |-> IF a \in InUse THEN place(a) ELSE data[a]]
       /\ heap' = end.bytes
       /\ heap_next' = end.target
       /\ died' = \/ end.target + MinFree > HeapSize
                  \/ \E a \in InUse : frozen[a] /\ place(a) # data[a]

-----------------------------------------------------------------------------
(***************************************************************************)
(* lock_t and its set.  The caller has chosen the value by the time pc is  *)
(* "set".                                                                  *)
(***************************************************************************)
Lock(t, a) ==
  /\ a \in InUse
  /\ array_lock[a] = None
  /\ array_lock' = [array_lock EXCEPT ![a] = t]

SetInPlace(t) ==
  /\ At(t, "set")
  /\ align_size(SizeOf[op[t].value]) <= size[op[t].array]
  /\ Goto(t, "write")
  /\ UNCHANGED <<storage, locks, died>>

\* Mutant of Deallocate: the thread waits for the heap with the array locked
DeallocateLocked(t) ==
  LET a == op[t].array IN
  /\ At(t, "set")
  /\ align_size(SizeOf[op[t].value]) > size[a]
  /\ size' = [size EXCEPT ![a] = 0]
  /\ data' = [data EXCEPT ![a] = Null]
  /\ Goto(t, "heap")
  /\ UNCHANGED <<groups, frozen, heap_next, heap, locks, died>>

\* "First, deallocate the array and release the lock"
Deallocate(t) ==
  LET a == op[t].array IN
  /\ At(t, "set")
  /\ align_size(SizeOf[op[t].value]) > size[a]
  /\ size' = [size EXCEPT ![a] = 0]
  /\ data' = [data EXCEPT ![a] = Null]
  /\ array_lock' = [array_lock EXCEPT ![a] = None]
  /\ Goto(t, "heap")
  /\ UNCHANGED <<groups, frozen, heap_next, heap, heap_lock, died>>

Insufficient(t) == heap_next + align_size(SizeOf[op[t].value]) > HeapSize

LockHeap(t) ==
  /\ At(t, "heap")
  /\ heap_lock = None
  /\ heap_lock' = t
  /\ Goto(t, IF Insufficient(t) THEN "grab" ELSE "allocate")
  /\ UNCHANGED <<storage, array_lock, died>>

(***************************************************************************)
(* partial_locked_garbage_collect: all array locks in the order of group   *)
(* and index, the collection, all unlocks.                                 *)
(***************************************************************************)
First(arrays) ==
  CHOOSE a \in arrays : \A b \in arrays : a[1] < b[1] \/ (a[1] = b[1] /\ a[2] <= b[2])

Held(t) == {a \in InUse : array_lock[a] = t}

GrabArray(t) ==
  /\ At(t, "grab")
  /\ Held(t) # InUse
  /\ Lock(t, First(InUse \ Held(t)))
  /\ UNCHANGED <<storage, heap_lock, op, died>>

CollectAll(t) ==
  /\ At(t, "grab")
  /\ Held(t) = InUse
  /\ Collect
  /\ Goto(t, "release")
  /\ UNCHANGED <<groups, size, frozen, locks>>

ReleaseArray(t) ==
  /\ At(t, "release")
  /\ Held(t) # {}
  /\ array_lock' = [array_lock EXCEPT ![First(Held(t))] = None]
  /\ UNCHANGED <<storage, heap_lock, op, died>>

\* "Require enough space after the collection"
CheckSpace(t) ==
  /\ At(t, "release")
  /\ Held(t) = {}
  /\ died' = Insufficient(t)
  /\ Goto(t, "allocate")
  /\ UNCHANGED <<storage, locks>>

\* Lock the array again, connect it to new memory, and release heap_lock
Allocate(t) ==
  LET a == op[t].array IN
  /\ At(t, "allocate")
  /\ Lock(t, a)
  /\ data' = [data EXCEPT ![a] = heap_next]
  /\ heap_next' = heap_next + align_size(SizeOf[op[t].value])
  /\ heap_lock' = None
  /\ Goto(t, "write")
  /\ UNCHANGED <<groups, size, frozen, heap, died>>

\* Copy the value, and unlock the array as lock_t goes out of scope
Write(t) ==
  LET a == op[t].array
      v == op[t].value
      new == Bytes(v)
  IN
  /\ At(t, "write")
  /\ heap' = [i \in DOMAIN heap |-> IF i - data[a] \in DOMAIN new THEN new[i - data[a]] ELSE heap[i]]
  /\ size' = [size EXCEPT ![a] = SizeOf[v]]
  /\ array_lock' = [array_lock EXCEPT ![a] = None]
  /\ UNCHANGED <<groups, data, frozen, heap_next, heap_lock, died>>

Store(t) == SetInPlace(t) \/ Deallocate(t) \/ LockHeap(t) \/ GrabArray(t) \/ CollectAll(t)
              \/ ReleaseArray(t) \/ CheckSpace(t) \/ Allocate(t)

-----------------------------------------------------------------------------
(***************************************************************************)
(* Groups.  "Operations that change the group structure must be serialized *)
(* and separate from array operations", so they need every thread idle.    *)
(***************************************************************************)
Quiet == (\A t \in Thread : op[t] = Idle) /\ ~died

AllocateGroup(g) ==
  /\ Quiet
  /\ g \notin groups
  /\ g = 0 \/ 0 \in groups  \* the first free one
  /\ groups' = groups \cup {g}
  /\ size' = [a \in Array |-> IF a[1] = g THEN 0 ELSE size[a]]
  /\ data' = [a \in Array |-> IF a[1] = g THEN Null ELSE data[a]]
  /\ frozen' = [a \in Array |-> frozen[a] /\ a[1] # g]
  /\ UNCHANGED <<heap_next, heap, locks, op, died>>

ClearGroup(g) ==
  /\ Quiet
  /\ g \in groups
  /\ groups' = groups \ {g}
  /\ UNCHANGED <<size, data, frozen, heap_next, heap, locks, op, died>>

\* Mutant of Freeze: the heap is not compacted first
FreezeInPlace(g) ==
  /\ Quiet
  /\ groups = {g}
  /\ frozen' = [a \in Array |-> frozen[a] \/ a[1] = g]
  /\ UNCHANGED <<groups, size, data, heap, heap_next, locks, op, died>>

Freeze(g) ==
  /\ Quiet
  /\ groups = {g}
  /\ Collect
  /\ frozen' = [a \in Array |-> frozen[a] \/ a[1] = g]
  /\ UNCHANGED <<groups, size, locks, op>>

-----------------------------------------------------------------------------
(***************************************************************************)
(* The store used the way its header allows: "multiple threads may safely  *)
(* compete to access a given array", with no other lock around it.  This is*)
(* the client of the thrasher test in end/end_test.cc, with groups that    *)
(* come and go and frozen arrays beside those being set.                   *)
(***************************************************************************)
Begin(t, a, v) ==
  /\ At(t, "idle")
  /\ Lock(t, a) /\ ~frozen[a]
  /\ op' = [op EXCEPT ![t] = [pc |-> "set", array |-> a, value |-> v]]
  /\ UNCHANGED <<storage, heap_lock, died>>

End(t) ==
  /\ Write(t)
  /\ op' = [op EXCEPT ![t] = Idle]

StoreNext ==
  \/ \E t \in Thread : Store(t) \/ End(t) \/ \E a \in InUse, v \in Value : Begin(t, a, v)
  \/ \E g \in Group : AllocateGroup(g) \/ ClearGroup(g) \/ Freeze(g)

StoreSpec == StoreInit /\ [][StoreNext]_storevars
-----------------------------------------------------------------------------
StoreTypeOK ==
  /\ groups \subseteq Group
  /\ size \in [Array -> 0 .. HeapSize]
  /\ data \in [Array -> Null .. HeapSize]
  /\ frozen \in [Array -> BOOLEAN]
  /\ array_lock \in [Array -> Thread \cup {None}]
  /\ heap_lock \in Thread \cup {None}
  /\ heap_next \in 0 .. HeapSize
  /\ heap = [i \in 0 .. HeapSize - 1 |-> heap[i]]
  /\ op \in [Thread -> {Idle} \cup [pc : {"read", "set", "heap", "grab", "release", "allocate", "write"},
                                    array : Array, value : Value]]
  /\ died \in BOOLEAN

(***************************************************************************)
(* With a heap that can hold every value users store, plus the free space a*)
(* collection must leave, no interleaving of sets and collections makes the*)
(* store die: it never runs out of memory, and never has to move a frozen  *)
(* array.  This is with one array in a group, or if none is frozen empty:  *)
(* one that is may have to move if another of its group is full.           *)
(***************************************************************************)
NeverDies == ~died

(***************************************************************************)
(* The store implements its abstract specification: no collection,         *)
(* reallocation or concurrent set changes the bytes of another array, and a*)
(* frozen array stays where MPI_Isend reads it.                            *)
(***************************************************************************)
Writing(a) == \E t \in Thread : op[t].pc = "write" /\ op[t].array = a

\* A locked array that is about to be written counts as empty
ValueOf(a) ==
  IF a[1] \notin groups \/ size[a] = 0 \/ Writing(a) THEN NoValue
  ELSE IF \E v \in Value : Holds(a, v) THEN CHOOSE v \in Value : Holds(a, v)
  ELSE Garbled

FrozenArrays == {a \in Array : a[1] \in groups /\ frozen[a]}

\* Where a frozen array has its bytes, if it has any
AddressOf(a) == IF a \in FrozenArrays /\ size[a] > 0 THEN data[a] ELSE Null

Promise == INSTANCE ArrayStore WITH
  Empty <- NoValue, Nowhere <- Null, GroupOf <- [a \in Array |-> a[1]],
  value <- [a \in Array |-> ValueOf(a)],
  address <- [a \in Array |-> AddressOf(a)],
  frozen <- FrozenArrays

KeepsValues == Promise!Spec
=============================================================================
