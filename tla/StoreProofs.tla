----------------------------- MODULE StoreProofs -----------------------------
(***************************************************************************)
(* compacting_store_t, for any threads, arrays, values and heap: what each *)
(* step of set, a collection, and a change of groups do to the locks, to   *)
(* the layout of the heap and to what the arrays hold.  From that, that the*)
(* store keeps what ArrayStore promises, and when it cannot die.           *)
(*                                                                         *)
(* After it the blocks of a slice on top of the store.                     *)
(***************************************************************************)
EXTENDS BlockStore, FiniteSetTheorems, WellFoundedInduction, TLAPS

\* A nonempty set of naturals has a least element
LEMMA LeastNatural ==
  ASSUME NEW S \in SUBSET Nat, S # {}
  PROVE  \E m \in S : \A k \in S : m <= k
<1> DEFINE Less == {ss \in Nat \X Nat : ss[1] < ss[2]}
<1>1. IsWellFoundedOn(Less, Nat)
  BY NatLessThanWellFounded DEF OpToRel
<1> HIDE DEF Less
<1>2. PICK m \in S : \A k \in S : ~(<<k, m>> \in Less)
  BY <1>1, WFMin
<1>3. \A k \in S : ~(k < m)
  BY <1>2 DEF Less
<1>4. QED
  BY <1>3

\* Sizes are rounded up
LEMMA Aligned ==
  ASSUME NEW n \in Nat
  PROVE  align_size(n) \in Nat /\ align_size(n) >= n /\ (n = 0 => align_size(n) = 0)
<1> DEFINE q == (n + Alignment - 1) \div Alignment
<1>1. Alignment \in Nat /\ Alignment > 0 /\ n + Alignment - 1 \in Nat
  BY HeapAssumption
<1>2. q \in Nat /\ q * Alignment <= n + Alignment - 1 /\ n + Alignment - 1 < q * Alignment + Alignment
  BY <1>1
<1>3. n = 0 => q = 0
  BY <1>1, <1>2
<1> HIDE DEF q
<1>4. q * Alignment \in Nat
  BY <1>1, <1>2
<1>5. q * Alignment >= n
  BY <1>1, <1>2, <1>4
<1>6. QED
  BY <1>1, <1>3, <1>4, <1>5 DEF align_size, q

LEMMA ArraysFinite ==
  /\ \A a : a \in Array <=> \E g \in Group : \E i \in 1 .. Count[g] : a = <<g, i>>
  /\ IsFiniteSet(Array)
<1>1. \A a : a \in Array <=> \E g \in Group : \E i \in 1 .. Count[g] : a = <<g, i>>
  BY DEF Array
<1> DEFINE A(g) == {g} \X (1 .. Count[g])
<1>2. \A g \in Group : IsFiniteSet(A(g))
  <2> TAKE g \in Group
  <2>1. IsFiniteSet({g}) /\ IsFiniteSet(1 .. Count[g])
    <3>1. Count[g] \in Int
      BY HeapAssumption
    <3>2. IsFiniteSet(1 .. Count[g])
      BY <3>1, FS_Interval
    <3>3. QED
      BY <3>2, FS_Singleton
  <2>2. QED
    BY <2>1, FS_Product
<1>3. Array = A(0) \cup A(1)
  BY DEF Array, Group
<1>4. QED
  BY <1>1, <1>2, <1>3, FS_Union DEF Group

LEMMA InUseFinite == InUse \subseteq Array /\ IsFiniteSet(InUse)
<1>1. InUse \subseteq Array
  BY DEF InUse, Members
<1>2. QED
  BY <1>1, ArraysFinite, FS_Subset

\* The locks are taken and released in the order of group and index
LEMMA FirstOne ==
  ASSUME NEW S \in SUBSET Array, S # {}
  PROVE  First(S) \in S
<1> DEFINE G == {a[1] : a \in S}
<1>1. \A a \in S : a[1] \in Nat /\ a[2] \in Nat
  <2> TAKE a \in S
  <2>1. PICK g \in Group : \E i \in 1 .. Count[g] : a = <<g, i>>
    BY ArraysFinite
  <2>2. Count[g] \in Nat /\ g \in Nat
    BY HeapAssumption DEF Group
  <2>3. PICK i \in 1 .. Count[g] : a = <<g, i>>
    BY <2>1
  <2>4. QED
    BY <2>2, <2>3
<1>2. PICK g \in G : \A h \in G : g <= h
  <2>1. G \in SUBSET Nat /\ G # {}
    BY <1>1
  <2> HIDE DEF G
  <2>2. QED
    BY <2>1, LeastNatural
<1> DEFINE I == {a[2] : a \in {b \in S : b[1] = g}}
<1>3. I \in SUBSET Nat /\ I # {}
  BY <1>1, <1>2
<1>4. PICK i \in I : \A j \in I : i <= j
  BY <1>3, LeastNatural
<1>5. PICK a \in S : a[1] = g /\ a[2] = i
  BY <1>4
<1>6. \A b \in S : a[1] < b[1] \/ (a[1] = b[1] /\ a[2] <= b[2])
  <2> TAKE b \in S
  <2>1. g <= b[1] /\ g \in Nat /\ b[1] \in Nat
    BY <1>1, <1>2
  <2>2. b[1] = g => i <= b[2]
    BY <1>4
  <2>3. QED
    BY <1>5, <2>1, <2>2
<1>7. QED
  BY <1>5, <1>6 DEF First

-----------------------------------------------------------------------------
(***************************************************************************)
(* A collection: the order it takes the arrays in, and the recursion over  *)
(* that order.                                                             *)
(***************************************************************************)
LEMMA OrderIs ==
  ASSUME NEW order \in Orders
  PROVE  /\ Len(order) \in Nat /\ Len(order) = Cardinality(InUse) /\ DOMAIN order = 1 .. Len(order)
         /\ \A n \in 1 .. Len(order) : order[n] \in InUse
         /\ \A i, j \in 1 .. Len(order) : i # j => order[i] # order[j]
         /\ \A i \in 1 .. Len(order) - 1 : data[order[i]] <= data[order[i + 1]]
         /\ \A a \in InUse : IndexOf(order, a) \in 1 .. Len(order) /\ order[IndexOf(order, a)] = a
<1> DEFINE m == Cardinality(InUse)
<1>1. m \in Nat
  BY InUseFinite, FS_CardinalityType
<1>2. /\ order \in [1 .. m -> InUse]
      /\ \A i, j \in DOMAIN order : i # j => order[i] # order[j]
      /\ \A i \in 1 .. Len(order) - 1 : data[order[i]] <= data[order[i + 1]]
  BY DEF Orders
<1> HIDE DEF m
<1>3. Len(order) = m /\ DOMAIN order = 1 .. m
  BY <1>1, <1>2
<1>4. order \in Injection(1 .. m, InUse)
  BY <1>2, <1>3 DEF Injection, IsInjective
<1>5. Cardinality(1 .. m) = m
  BY <1>1, FS_Interval
<1>6. order \in Surjection(1 .. m, InUse)
  BY <1>4, <1>5, InUseFinite, FS_Injection DEF m
<1>7. \A a \in InUse : \E n \in DOMAIN order : order[n] = a
  BY <1>3, <1>6 DEF Surjection
<1>8. \A a \in InUse : IndexOf(order, a) \in DOMAIN order /\ order[IndexOf(order, a)] = a
  BY <1>7 DEF IndexOf
<1>9. QED
  BY <1>1, <1>2, <1>3, <1>8 DEF m

LEMMA OrderSorted ==
  ASSUME NEW order \in Orders, data \in [Array -> Null .. HeapSize]
  PROVE  \A i, j \in 1 .. Len(order) : i <= j => data[order[i]] <= data[order[j]]
<1> DEFINE m == Len(order)
           at(n) == data[order[n]]
<1>1. m \in Nat /\ \A n \in 1 .. m : at(n) \in Int
  BY OrderIs, InUseFinite, HeapAssumption DEF Null
<1>2. \A n \in 1 .. m - 1 : at(n) <= at(n + 1)
  BY OrderIs
<1> HIDE DEF m, at
<1> SUFFICES ASSUME NEW i \in 1 .. m PROVE \A j \in 1 .. m : i <= j => at(i) <= at(j)
  BY DEF m, at
<1> DEFINE Bad == {j \in 1 .. m : i <= j /\ ~(at(i) <= at(j))}
<1> SUFFICES ASSUME Bad # {} PROVE FALSE
  OBVIOUS
<1>3. Bad \in SUBSET Nat
  BY <1>1
<1>4. PICK j \in Bad : \A k \in Bad : j <= k
  <2> HIDE DEF Bad
  <2> QED
    BY <1>3, LeastNatural
<1>5. j \in 1 .. m /\ i <= j /\ ~(at(i) <= at(j)) /\ j # i
  BY <1>1, <1>4
<1>6. j - 1 \in 1 .. m /\ i <= j - 1 /\ ~(j <= j - 1) /\ j - 1 \in 1 .. m - 1
  BY <1>1, <1>5
<1>7. at(i) <= at(j - 1)
  BY <1>4, <1>6
<1>8. at(j - 1) <= at(j)
  <2>1. at(j - 1) <= at((j - 1) + 1)
    BY <1>2, <1>6
  <2>2. (j - 1) + 1 = j
    BY <1>1, <1>5
  <2>3. QED
    BY <2>1, <2>2
<1>9. QED
  BY <1>1, <1>5, <1>6, <1>7, <1>8

LEMMA SlideIs ==
  ASSUME NEW order \in Orders
  PROVE  /\ Slide(order)[0] = [target |-> 0, bytes |-> heap]
         /\ \A n \in 1 .. Len(order) :
              /\ Slide(order)[n].target = Slide(order)[n - 1].target + align_size(size[order[n]])
              /\ Slide(order)[n].bytes
                   = memmove(Slide(order)[n - 1].bytes, Slide(order)[n - 1].target, order[n])
<1> DEFINE m == Len(order)
           Move(before, n) == [target |-> before.target + align_size(size[order[n]]),
                               bytes |-> memmove(before.bytes, before.target, order[n])]
           Step(f, n) == IF n = 0 THEN [target |-> 0, bytes |-> heap] ELSE Move(f[n - 1], n)
           Moves(f, n) == f = [k \in 0 .. n |-> Step(f, k)]
<1>1. m \in Nat
  BY OrderIs
<1>2. Slide(order) = CHOOSE f : f = [k \in 0 .. m |-> Step(f, k)]
  BY DEF Slide
<1> HIDE DEF m, Move
<1>3. \A n \in Nat : \E f : Moves(f, n)
  <2> DEFINE Bad == {n \in Nat : ~ \E f : Moves(f, n)}
  <2> SUFFICES ASSUME Bad # {} PROVE FALSE
    OBVIOUS
  <2>1. PICK n \in Bad : \A k \in Bad : n <= k
    <3> HIDE DEF Moves
    <3> QED
      BY LeastNatural
  <2>2. n # 0
    <3> DEFINE z == [k \in 0 .. 0 |-> [target |-> 0, bytes |-> heap]]
    <3> SUFFICES ASSUME n = 0 PROVE FALSE
      OBVIOUS
    <3>1. \A k \in 0 .. 0 : Step(z, k) = [target |-> 0, bytes |-> heap]
      OBVIOUS
    <3>2. Moves(z, 0)
      <4> HIDE DEF Step
      <4> QED
        BY <3>1
    <3>3. QED
      BY <3>2
  <2>3. n \in Nat /\ n - 1 \in Nat /\ ~(n <= n - 1)
    <3> HIDE DEF Moves
    <3> QED
      BY <2>1, <2>2
  <2>4. PICK f : Moves(f, n - 1)
    <3> HIDE DEF Moves
    <3> QED
      BY <2>1, <2>3
  <2> DEFINE g == [k \in 0 .. n |-> Step(f, k)]
  <2>5. \A k \in 0 .. n - 1 : g[k] = f[k]
    <3>1. \A k \in 0 .. n - 1 : k \in 0 .. n
      BY <2>3
    <3> HIDE DEF Step
    <3>2. QED
      BY <2>4, <3>1
  <2>6. \A k \in 0 .. n : k # 0 => k - 1 \in 0 .. n - 1
    BY <2>3
  <2>7. \A k \in 0 .. n : Step(f, k) = Step(g, k)
    <3> HIDE DEF g
    <3> QED
      BY <2>5, <2>6
  <2>8. Moves(g, n)
    <3> HIDE DEF Step
    <3> QED
      BY <2>7
  <2>9. QED
    BY <2>8
<1>4. Slide(order) = [k \in 0 .. m |-> Step(Slide(order), k)]
  <2> HIDE DEF Step
  <2>1. \E f : f = [k \in 0 .. m |-> Step(f, k)]
    BY <1>1, <1>3
  <2>2. QED
    BY <1>2, <2>1
<1>5. Slide(order)[0] = [target |-> 0, bytes |-> heap]
  BY <1>1, <1>4
<1>6. \A n \in 1 .. m : n \in 0 .. m /\ n # 0
  BY <1>1
<1>7. \A n \in 1 .. m : Slide(order)[n] = Move(Slide(order)[n - 1], n)
  <2> TAKE n \in 1 .. m
  <2>1. Slide(order)[n] = Step(Slide(order), n)
    <3> HIDE DEF Step
    <3> QED
      BY <1>4, <1>6
  <2>2. QED
    BY <1>6, <2>1
<1>8. \A n \in 1 .. m :
        /\ Slide(order)[n].target = Slide(order)[n - 1].target + align_size(size[order[n]])
        /\ Slide(order)[n].bytes = memmove(Slide(order)[n - 1].bytes, Slide(order)[n - 1].target, order[n])
  <2> TAKE n \in 1 .. m
  <2> DEFINE before == Slide(order)[n - 1]
             new == before.target + align_size(size[order[n]])
             bytes == memmove(before.bytes, before.target, order[n])
  <2>1. Slide(order)[n] = [target |-> new, bytes |-> bytes]
    BY <1>7 DEF Move
  <2> HIDE DEF new, bytes
  <2>2. Slide(order)[n].target = new /\ Slide(order)[n].bytes = bytes
    BY <2>1
  <2>3. QED
    BY <2>2 DEF new, bytes
<1>9. QED
  BY <1>5, <1>8 DEF m

-----------------------------------------------------------------------------
(***************************************************************************)
(* A collection of a heap whose arrays do not overlap slides each down over*)
(* bytes that no array behind it needs.                                    *)
(***************************************************************************)
Room(a) == align_size(size[a])

HeapTypes ==
  /\ size \in [Array -> 0 .. HeapSize]
  /\ data \in [Array -> Null .. HeapSize]
  /\ heap_next \in 0 .. HeapSize
  /\ heap = [i \in 0 .. HeapSize - 1 |-> heap[i]]

Apart(d, m, e, n) == d + m <= e \/ e + n <= d

Packed ==
  \A a \in InUse : size[a] > 0 =>
    /\ data[a] \in Nat /\ data[a] + Room(a) <= heap_next
    /\ \A b \in InUse \ {a} : size[b] > 0 => Apart(data[a], Room(a), data[b], Room(b))

\* The state of a collection after n arrays
Slid(order, n) ==
  LET m == Len(order)
      target(k) == Slide(order)[k].target
      bytes == Slide(order)[n].bytes
      from(k) == data[order[k]]
      length(k) == size[order[k]]
  IN /\ target(n) \in Nat /\ target(n) <= heap_next
     /\ bytes = [i \in DOMAIN heap |-> bytes[i]]
     /\ \A k \in 1 .. m : k > n =>
          /\ length(k) > 0 => target(n) <= from(k)
          /\ \A j \in 0 .. length(k) - 1 : bytes[from(k) + j] = heap[from(k) + j]
     /\ \A k \in 1 .. m : k <= n =>
          /\ target(k - 1) \in Nat
          /\ target(k - 1) + Room(order[k]) <= target(n)
          /\ \A j \in 0 .. length(k) - 1 : bytes[target(k - 1) + j] = heap[from(k) + j]

LEMMA SlidFirst ==
  ASSUME HeapTypes, Packed, NEW order \in Orders
  PROVE  Slid(order, 0)
<1>1. Slide(order)[0].target = 0 /\ Slide(order)[0].bytes = heap
  BY SlideIs
<1>2. /\ heap_next \in Nat /\ heap = [i \in DOMAIN heap |-> heap[i]]
      /\ \A k \in 1 .. Len(order) : order[k] \in InUse /\ ~(k <= 0) /\ k \in Nat
  BY OrderIs, HeapAssumption DEF HeapTypes
<1>3. \A k \in 1 .. Len(order) : size[order[k]] > 0 => 0 <= data[order[k]]
  BY <1>2 DEF Packed
<1>4. QED
  BY <1>1, <1>2, <1>3 DEF Slid

LEMMA SlidNext ==
  ASSUME HeapTypes, Packed, NEW order \in Orders, NEW n \in 1 .. Len(order), Slid(order, n - 1)
  PROVE  Slid(order, n)
<1> DEFINE m == Len(order)
           T(k) == Slide(order)[k].target
           old == Slide(order)[n - 1].bytes
           new == Slide(order)[n].bytes
           D(k) == data[order[k]]
           S(k) == size[order[k]]
           E(k) == Room(order[k])
<1>1. /\ m \in Nat /\ heap_next \in Nat /\ heap_next <= HeapSize /\ HeapSize \in Nat
      /\ DOMAIN heap = 0 .. HeapSize - 1
      /\ \A k \in 1 .. m : S(k) \in Nat /\ D(k) \in Int
  BY OrderIs, InUseFinite, HeapAssumption DEF HeapTypes, Null
<1>2. \A k \in 1 .. m : E(k) \in Nat /\ E(k) >= S(k) /\ (S(k) = 0 => E(k) = 0)
  <2> TAKE k \in 1 .. m
  <2>1. S(k) \in Nat
    BY <1>1
  <2>2. QED
    BY <2>1, Aligned DEF Room
<1>3. /\ T(n) = T(n - 1) + E(n)
      /\ new = [i \in DOMAIN heap |-> IF i - T(n - 1) \in 0 .. S(n) - 1
                                        THEN old[D(n) + (i - T(n - 1))] ELSE old[i]]
  BY SlideIs DEF Room, memmove
<1>4. \A k \in 1 .. m : S(k) > 0 =>
        /\ D(k) \in Nat /\ D(k) + E(k) <= heap_next
        /\ \A h \in 1 .. m : h # k /\ S(h) > 0 => Apart(D(k), E(k), D(h), E(h))
  BY OrderIs DEF Packed
<1>5. \A i, j \in 1 .. m : i <= j => D(i) <= D(j)
  BY OrderSorted DEF HeapTypes
<1>6. /\ T(n - 1) \in Nat /\ T(n - 1) <= heap_next
      /\ \A k \in 1 .. m : k > n - 1 =>
           /\ S(k) > 0 => T(n - 1) <= D(k)
           /\ \A j \in 0 .. S(k) - 1 : old[D(k) + j] = heap[D(k) + j]
      /\ \A k \in 1 .. m : k <= n - 1 =>
           /\ T(k - 1) \in Nat
           /\ T(k - 1) + E(k) <= T(n - 1)
           /\ \A j \in 0 .. S(k) - 1 : old[T(k - 1) + j] = heap[D(k) + j]
  BY DEF Slid
<1> HIDE DEF m, T, old, new, D, S, E
<1>7. n \in 1 .. m /\ n \in Nat
  BY <1>1 DEF m
<1> DEFINE t == T(n - 1)
           s == S(n)
           d == D(n)
<1>15. n > n - 1 /\ t \in Nat /\ t <= heap_next /\ s \in Nat /\ d \in Int /\ E(n) \in Nat
  BY <1>1, <1>2, <1>6, <1>7
<1>16. s > 0 => t <= d /\ d + E(n) <= heap_next
  BY <1>4, <1>6, <1>7, <1>15
<1>8. T(n) \in Nat /\ T(n) <= heap_next /\ t + s <= T(n)
  <2>1. T(n) = t + E(n) /\ E(n) >= s /\ (s = 0 => E(n) = 0)
    BY <1>2, <1>3, <1>7
  <2> HIDE DEF t, s, d
  <2>2. QED
    BY <1>1, <1>15, <1>16, <2>1
<1>17. \A i \in 0 .. HeapSize - 1 :
         new[i] = IF t <= i /\ i < t + s THEN old[d + (i - t)] ELSE old[i]
  <2> TAKE i \in 0 .. HeapSize - 1
  <2>1. new[i] = IF i - t \in 0 .. s - 1 THEN old[d + (i - t)] ELSE old[i]
    BY <1>1, <1>3
  <2> HIDE DEF t, s, d
  <2>2. i - t \in 0 .. s - 1 <=> t <= i /\ i < t + s
    BY <1>1, <1>15
  <2>3. QED
    BY <2>1, <2>2
<1> HIDE DEF t, s, d
<1>9. new = [i \in DOMAIN heap |-> new[i]]
  BY <1>3
<1>10. ASSUME NEW k \in 1 .. m, k > n, S(k) > 0 PROVE T(n) <= D(k)
  <2>1. k > n - 1 /\ n <= k /\ n # k
    BY <1>1, <1>7, <1>10
  <2>2. T(n - 1) <= D(k) /\ D(n) <= D(k) /\ D(k) \in Nat /\ E(k) > 0
    BY <1>1, <1>2, <1>4, <1>5, <1>6, <1>7, <1>10, <2>1
  <2>3. CASE S(n) = 0
    BY <1>2, <1>3, <1>6, <1>7, <2>2, <2>3
  <2>4. CASE S(n) > 0
    <3>1. Apart(D(n), E(n), D(k), E(k)) /\ D(n) \in Nat /\ T(n - 1) <= D(n)
      BY <1>1, <1>4, <1>6, <1>7, <1>10, <2>1, <2>4
    <3>2. D(n) + E(n) <= D(k)
      BY <1>2, <1>7, <2>2, <3>1 DEF Apart
    <3>3. QED
      BY <1>2, <1>3, <1>6, <1>7, <2>2, <3>1, <3>2
  <2>5. QED
    BY <1>1, <1>7, <2>3, <2>4
<1>11. ASSUME NEW k \in 1 .. m, k > n, NEW j \in 0 .. S(k) - 1 PROVE new[D(k) + j] = heap[D(k) + j]
  <2>1. S(k) \in Nat /\ S(k) > 0 /\ j \in Nat /\ j < S(k)
    BY <1>1, <1>11
  <2>2. T(n) <= D(k) /\ D(k) \in Nat /\ D(k) + E(k) <= heap_next /\ E(k) >= S(k) /\ E(k) \in Nat
    BY <1>2, <1>4, <1>10, <1>11, <2>1
  <2> DEFINE x == D(k) + j
  <2>3. x \in 0 .. HeapSize - 1
    <3>1. PICK a \in Nat, e \in Nat, z \in Nat : a = D(k) /\ e = E(k) /\ z = S(k)
      BY <2>1, <2>2
    <3>2. j < z /\ z <= e /\ a + e <= heap_next
      BY <2>1, <2>2, <3>1
    <3>3. a + j \in 0 .. HeapSize - 1
      BY <1>1, <2>1, <3>2
    <3>4. QED
      BY <3>1, <3>3
  <2>4. ~(x < t + s)
    BY <1>8, <1>15, <2>1, <2>2
  <2>5. new[x] = old[x]
    <3> HIDE DEF x
    <3> QED
      BY <1>17, <2>3, <2>4
  <2>6. k > n - 1
    BY <1>1, <1>7, <1>11
  <2>7. QED
    BY <1>6, <2>5, <2>6
<1>12. ASSUME NEW k \in 1 .. m, k <= n
       PROVE  T(k - 1) \in Nat /\ T(k - 1) + E(k) <= T(n) /\ (k < n => T(k - 1) + E(k) <= T(n - 1))
  <2>1. CASE k = n
    BY <1>1, <1>2, <1>3, <1>6, <1>7, <2>1
  <2>2. CASE k # n
    <3>1. k <= n - 1
      BY <1>1, <1>7, <1>12, <2>2
    <3>2. T(k - 1) \in Nat /\ T(k - 1) + E(k) <= T(n - 1) /\ E(k) \in Nat
      BY <1>2, <1>6, <3>1
    <3>3. T(n - 1) <= T(n)
      BY <1>2, <1>3, <1>6, <1>7
    <3>4. QED
      BY <1>6, <1>8, <3>2, <3>3
  <2>3. QED
    BY <2>1, <2>2
<1>13. ASSUME NEW k \in 1 .. m, k <= n, NEW j \in 0 .. S(k) - 1
       PROVE  new[T(k - 1) + j] = heap[D(k) + j]
  <2>1. S(k) \in Nat /\ S(k) > 0 /\ j \in Nat /\ j < S(k)
    BY <1>1, <1>13
  <2>2. /\ T(k - 1) \in Nat /\ T(k - 1) + E(k) <= T(n) /\ E(k) \in Nat /\ E(k) >= S(k)
        /\ k < n => T(k - 1) + E(k) <= T(n - 1)
    BY <1>2, <1>12, <1>13
  <2> DEFINE x == T(k - 1) + j
  <2>3. x \in 0 .. HeapSize - 1
    <3>1. PICK a \in Nat, e \in Nat, w \in Nat, z \in Nat : a = T(k - 1) /\ e = E(k) /\ w = T(n) /\ z = S(k)
      BY <1>8, <2>1, <2>2
    <3>2. j < z /\ z <= e /\ a + e <= w /\ w <= heap_next
      BY <1>8, <2>1, <2>2, <3>1
    <3>3. a + j \in 0 .. HeapSize - 1
      BY <1>1, <2>1, <3>2
    <3>4. QED
      BY <3>1, <3>3
  <2>4. CASE k = n
    <3>1. x = t + j /\ j < s
      BY <2>1, <2>4 DEF t, s
    <3>2. x - t = j /\ t <= x /\ x < t + s
      BY <1>15, <2>1, <3>1
    <3>3. new[x] = old[d + j]
      <4> HIDE DEF x
      <4> QED
        BY <1>17, <2>3, <3>2
    <3>4. old[d + j] = heap[d + j]
      <4>1. d = D(n) /\ j \in 0 .. S(n) - 1
        BY <2>4 DEF d
      <4>2. QED
        BY <1>6, <1>7, <1>15, <4>1
    <3>5. QED
      BY <2>4, <3>3, <3>4 DEF d
  <2>5. CASE k # n
    <3>1. k <= n - 1 /\ k < n
      BY <1>1, <1>7, <1>13, <2>5
    <3>2. x < t
      <4>1. T(k - 1) + E(k) <= t
        BY <2>2, <3>1 DEF t
      <4>2. QED
        BY <1>15, <2>1, <2>2, <4>1
    <3>3. new[x] = old[x]
      <4> HIDE DEF x
      <4> QED
        BY <1>15, <1>17, <2>3, <3>2
    <3>4. QED
      BY <1>6, <3>1, <3>3
  <2>6. QED
    BY <2>4, <2>5
<1>14. QED
  BY <1>8, <1>9, <1>10, <1>11, <1>12, <1>13 DEF Slid, m, T, old, new, D, S, E

LEMMA SlidAll ==
  ASSUME HeapTypes, Packed, NEW order \in Orders
  PROVE  \A n \in 0 .. Len(order) : Slid(order, n)
<1>1. Len(order) \in Nat
  BY OrderIs
<1> DEFINE Bad == {n \in 0 .. Len(order) : ~Slid(order, n)}
<1> SUFFICES ASSUME Bad # {} PROVE FALSE
  BY <1>1
<1>2. Bad \in SUBSET Nat
  BY <1>1
<1>3. PICK n \in Bad : \A k \in Bad : n <= k
  <2> HIDE DEF Bad
  <2> QED
    BY <1>2, LeastNatural
<1>4. n # 0
  BY <1>3, SlidFirst
<1>5. n \in 1 .. Len(order) /\ n - 1 \in 0 .. Len(order) /\ ~(n <= n - 1)
  BY <1>1, <1>3, <1>4
<1>6. Slid(order, n - 1)
  BY <1>3, <1>5
<1>7. QED
  BY <1>3, <1>5, <1>6, SlidNext

LEMMA Collected ==
  ASSUME HeapTypes, Packed, Collect
  PROVE  /\ data' \in [Array -> Null .. HeapSize] /\ heap_next' \in 0 .. HeapSize /\ died' \in BOOLEAN
         /\ heap' = [i \in 0 .. HeapSize - 1 |-> heap'[i]]
         /\ \A a \in InUse :
              /\ data'[a] \in Nat /\ data'[a] + Room(a) <= heap_next'
              /\ \A b \in InUse \ {a} : Apart(data'[a], Room(a), data'[b], Room(b))
              /\ \A i \in 0 .. size[a] - 1 : heap'[data'[a] + i] = heap[data[a] + i]
<1>1. PICK order \in Orders :
        LET slide == Slide(order)
            end == slide[Len(order)]
            place(a) == slide[IndexOf(order, a) - 1].target
        IN /\ data' = [a \in Array |-> IF a \in InUse THEN place(a) ELSE data[a]]
           /\ heap' = end.bytes
           /\ heap_next' = end.target
           /\ died' = \/ end.target + MinFree > HeapSize
                      \/ \E a \in InUse : frozen[a] /\ place(a) # data[a]
  BY DEF Collect
<1> DEFINE m == Len(order)
           T(k) == Slide(order)[k].target
           at(a) == IndexOf(order, a)
<1>2. /\ m \in Nat /\ Null = -1 /\ HeapSize \in Nat /\ heap_next \in 0 .. HeapSize
      /\ \A a \in InUse : at(a) \in 1 .. m /\ order[at(a)] = a /\ a \in Array
      /\ \A a \in InUse : size[a] \in Nat
  BY OrderIs, InUseFinite, HeapAssumption DEF HeapTypes, Null
<1>3. \A a \in InUse : Room(a) \in Nat
  BY <1>2, Aligned DEF Room
<1>4. /\ T(m) \in Nat /\ T(m) <= heap_next
      /\ heap' = [i \in DOMAIN heap |-> heap'[i]]
      /\ \A k \in 1 .. m : /\ T(k - 1) \in Nat /\ T(k - 1) + Room(order[k]) <= T(m)
                           /\ \A j \in 0 .. size[order[k]] - 1 :
                                heap'[T(k - 1) + j] = heap[data[order[k]] + j]
  <2>1. Slid(order, m)
    BY <1>2, SlidAll
  <2>2. \A k \in 1 .. m : k <= m
    BY <1>2
  <2>3. heap' = Slide(order)[m].bytes
    BY <1>1
  <2>4. QED
    BY <2>1, <2>2, <2>3 DEF Slid
<1>5. \A k, h \in 1 .. m : k < h => T(k - 1) + Room(order[k]) <= T(h - 1)
  <2> TAKE k, h \in 1 .. m
  <2> HAVE k < h
  <2>1. h - 1 \in 1 .. m /\ k <= h - 1 /\ h - 1 \in 0 .. m
    BY <1>2
  <2>2. \A n \in 0 .. m : Slid(order, n)
    BY SlidAll
  <2>3. QED
    BY <2>1, <2>2 DEF Slid
<1>6. \A a \in InUse : data'[a] = T(at(a) - 1)
  BY <1>1, <1>2
<1>7. died' \in BOOLEAN
  BY <1>1
<1> HIDE DEF m, T, at
<1>8. data' \in [Array -> Null .. HeapSize]
  <2>1. \A a \in InUse : T(at(a) - 1) \in Nat /\ T(at(a) - 1) <= HeapSize
    BY <1>2, <1>3, <1>4
  <2>2. \A a \in Array : data'[a] \in Null .. HeapSize
    <3> SUFFICES ASSUME NEW a \in Array PROVE data'[a] \in Null .. HeapSize
      OBVIOUS
    <3>1. CASE a \in InUse
      BY <1>2, <1>6, <2>1, <3>1
    <3>2. CASE a \notin InUse
      BY <1>1, <3>2 DEF HeapTypes
    <3>3. QED
      BY <3>1, <3>2
  <2>3. data' = [a \in Array |-> data'[a]]
    BY <1>1
  <2>4. QED
    BY <2>2, <2>3
<1>9. heap_next' \in 0 .. HeapSize /\ heap' = [i \in 0 .. HeapSize - 1 |-> heap'[i]]
  <2>1. heap_next' = T(m)
    BY <1>1 DEF T, m
  <2>2. DOMAIN heap = 0 .. HeapSize - 1
    BY DEF HeapTypes
  <2>3. QED
    BY <1>2, <1>4, <2>1, <2>2
<1>10. ASSUME NEW a \in InUse
       PROVE  /\ data'[a] \in Nat /\ data'[a] + Room(a) <= heap_next'
              /\ \A i \in 0 .. size[a] - 1 : heap'[data'[a] + i] = heap[data[a] + i]
  <2>1. heap_next' = T(m)
    BY <1>1 DEF T, m
  <2>2. QED
    BY <1>2, <1>4, <1>6, <2>1
<1>11. ASSUME NEW a \in InUse, NEW b \in InUse \ {a} PROVE Apart(data'[a], Room(a), data'[b], Room(b))
  <2>1. at(a) # at(b) /\ at(a) \in Nat /\ at(b) \in Nat /\ at(a) \in 1 .. m /\ at(b) \in 1 .. m
    BY <1>2
  <2>2. at(a) < at(b) \/ at(b) < at(a)
    BY <2>1
  <2>3. at(a) < at(b) => data'[a] + Room(a) <= data'[b]
    BY <1>2, <1>5, <1>6, <2>1
  <2>4. at(b) < at(a) => data'[b] + Room(b) <= data'[a]
    BY <1>2, <1>5, <1>6, <2>1
  <2>5. QED
    BY <2>2, <2>3, <2>4 DEF Apart
<1>12. QED
  BY <1>7, <1>8, <1>9, <1>10, <1>11

-----------------------------------------------------------------------------
(***************************************************************************)
(* The invariant of the store.                                             *)
(***************************************************************************)

\* A thread holds the lock of the array it sets, and those of all arrays while it collects;
\* heap_lock covers a collection and what follows until the memory is taken
ThreadLocks(t) ==
  /\ op[t].pc \in {"set", "write"} => array_lock[op[t].array] = t
  /\ heap_lock = t <=> op[t].pc \in {"grab", "release", "allocate"}
  /\ op[t].pc # "idle" => op[t].array \in InUse

ArrayLock(a) ==
  array_lock[a] # None =>
    /\ a \in InUse
    /\ \/ op[array_lock[a]].pc \in {"set", "write"} /\ op[array_lock[a]].array = a
       \/ op[array_lock[a]].pc \in {"grab", "release"}

LockInv == (\A t \in Thread : ThreadLocks(t)) /\ (\A a \in Array : ArrayLock(a))

\* Who is about to allocate has found that there is space
SpaceInv == ~died => \A t \in Thread : op[t].pc = "allocate" => ~Insufficient(t)

\* The memory of an array: what it was allocated for the value about to be written, or the
\* value it holds
Extent(a) == IF Writing(a) THEN align_size(SizeOf[op[array_lock[a]].value]) ELSE Room(a)

LayoutInv ==
  \A a \in InUse : Extent(a) > 0 =>
    /\ data[a] \in Nat /\ data[a] + Extent(a) <= heap_next
    /\ \A b \in InUse \ {a} : Extent(b) > 0 => Apart(data[a], Extent(a), data[b], Extent(b))

StoreInv == StoreTypeOK /\ LockInv /\ SpaceInv /\ LayoutInv

\* An array nobody is writing keeps what it holds
Keeps(b) == ~Writing(b) => /\ ~Writing(b)' /\ size'[b] = size[b]
                           /\ \A v \in Value : Holds(b, v) => Holds(b, v)'

-----------------------------------------------------------------------------
PCs == {"read", "set", "heap", "grab", "release", "allocate", "write"}
Calls == [pc : PCs, array : Array, value : Value]

LEMMA OpIs ==
  ASSUME StoreTypeOK, NEW t \in Thread
  PROVE  op[t].pc # "idle" => op[t] \in Calls
<1>1. op[t] \in {Idle} \cup Calls
  BY DEF StoreTypeOK, Calls, PCs
<1>2. Idle.pc = "idle"
  BY DEF Idle
<1>3. QED
  BY <1>1, <1>2

LEMMA Goes ==
  ASSUME StoreTypeOK, NEW t \in Thread, op[t].pc # "idle", NEW pc \in PCs, Goto(t, pc)
  PROVE  /\ op' \in [Thread -> {Idle} \cup Calls]
         /\ op[t] \in Calls /\ op'[t] \in Calls
         /\ op'[t].pc = pc /\ op'[t].array = op[t].array /\ op'[t].value = op[t].value
         /\ \A u \in Thread \ {t} : op'[u] = op[u]
<1>1. op[t] \in Calls /\ op \in [Thread -> {Idle} \cup Calls]
  BY OpIs DEF StoreTypeOK, Calls, PCs
<1>2. op' = [op EXCEPT ![t] = [op[t] EXCEPT !.pc = pc]]
  BY DEF Goto
<1> DEFINE o == [op[t] EXCEPT !.pc = pc]
<1>3. o \in Calls /\ o.pc = pc /\ o.array = op[t].array /\ o.value = op[t].value
  BY <1>1 DEF Calls
<1> HIDE DEF o
<1>4. op' = [op EXCEPT ![t] = o]
  BY <1>2 DEF o
<1>5. QED
  BY <1>1, <1>3, <1>4

LEMMA ExtentIs ==
  ASSUME StoreTypeOK, LockInv, NEW a \in Array
  PROVE  /\ Extent(a) \in Nat /\ Room(a) \in Nat /\ size[a] \in Nat /\ Room(a) >= size[a]
         /\ size[a] = 0 => Room(a) = 0
         /\ \A t \in Thread : op[t].pc = "write" /\ op[t].array = a =>
              /\ Writing(a) /\ array_lock[a] = t
              /\ Extent(a) = align_size(SizeOf[op[t].value])
<1>1. size[a] \in Nat
  BY HeapAssumption DEF StoreTypeOK
<1>2. Room(a) \in Nat /\ Room(a) >= size[a] /\ (size[a] = 0 => Room(a) = 0)
  BY <1>1, Aligned DEF Room
<1>3. ASSUME NEW t \in Thread, op[t].pc = "write", op[t].array = a
      PROVE  /\ Writing(a) /\ array_lock[a] = t
             /\ Extent(a) = align_size(SizeOf[op[t].value]) /\ Extent(a) \in Nat
  <2>1. Writing(a) /\ array_lock[a] = t
    BY <1>3 DEF Writing, LockInv, ThreadLocks
  <2>2. op[t].value \in Value
    BY <1>3, OpIs DEF Calls
  <2>3. SizeOf[op[t].value] \in Nat
    BY <2>2, HeapAssumption
  <2>4. QED
    BY <2>1, <2>3, Aligned DEF Extent
<1>4. ~Writing(a) => Extent(a) \in Nat
  BY <1>2 DEF Extent
<1>5. QED
  BY <1>1, <1>2, <1>3, <1>4 DEF Writing

\* A step of another thread leaves the memory of an array as it is
LEMMA Unaffected ==
  ASSUME StoreTypeOK, LockInv, NEW t \in Thread, NEW b \in Array,
         \A u \in Thread \ {t} : op'[u] = op[u],
         op[t].pc = "write" => op[t].array # b,
         op'[t].pc = "write" => op'[t].array # b,
         size'[b] = size[b],
         \A u \in Thread \ {t} : array_lock[b] = u => array_lock'[b] = u
  PROVE  Extent(b)' = Extent(b) /\ (Writing(b)' <=> Writing(b))
<1>1. Writing(b)' <=> Writing(b)
  BY DEF Writing
<1>2. CASE Writing(b)
  <2>1. PICK u \in Thread : op[u].pc = "write" /\ op[u].array = b
    BY <1>2 DEF Writing
  <2>2. u # t /\ array_lock[b] = u
    BY <2>1, ExtentIs
  <2>3. op'[u] = op[u] /\ array_lock'[b] = u
    BY <2>2
  <2>4. QED
    BY <1>1, <1>2, <2>2, <2>3 DEF Extent
<1>3. CASE ~Writing(b)
  BY <1>1, <1>3 DEF Extent, Room
<1>4. QED
  BY <1>1, <1>2, <1>3

LEMMA Moved ==
  ASSUME StoreTypeOK, LockInv, StoreTypeOK', LayoutInv, InUse' = InUse, NEW a \in InUse,
         heap_next <= heap_next', Extent(a)' \in Nat,
         \A b \in InUse \ {a} : data'[b] = data[b] /\ Extent(b)' = Extent(b),
         Extent(a)' > 0 =>
           /\ data'[a] \in Nat /\ data'[a] + Extent(a)' <= heap_next'
           /\ \A b \in InUse \ {a} : Extent(b) > 0 => Apart(data'[a], Extent(a)', data[b], Extent(b))
  PROVE  LayoutInv'
<1>1. heap_next \in Nat /\ heap_next' \in Nat
  BY HeapAssumption DEF StoreTypeOK
<1>2. \A b \in InUse : Extent(b) \in Nat
  BY ExtentIs, InUseFinite
<1>8. \A b \in InUse : Extent(b)' \in Nat
  BY <1>2
<1> DEFINE X(b) == Extent(b)'
<1> SUFFICES ASSUME NEW b \in InUse, X(b) > 0
             PROVE  /\ data'[b] \in Nat /\ data'[b] + X(b) <= heap_next'
                    /\ \A c \in InUse \ {b} : X(c) > 0 => Apart(data'[b], X(b), data'[c], X(c))
  BY DEF LayoutInv, Apart
<1>3. \A c \in InUse \ {a} : data'[c] = data[c] /\ X(c) = Extent(c)
  OBVIOUS
<1>4. \A d, m, e, n : Apart(d, m, e, n) => Apart(e, n, d, m)
  BY DEF Apart
<1> HIDE DEF X
<1>5. CASE b = a
  BY <1>3, <1>5 DEF X
<1>6. CASE b # a
  <2>1. X(b) = Extent(b) /\ data'[b] = data[b] /\ Extent(b) > 0
    BY <1>3, <1>6
  <2>2. data[b] \in Nat /\ data[b] + Extent(b) <= heap_next
    BY <2>1 DEF LayoutInv
  <2>3. ASSUME NEW c \in InUse \ {b}, X(c) > 0 PROVE Apart(data'[b], X(b), data'[c], X(c))
    <3>1. CASE c = a
      <4>1. Apart(data'[a], X(a), data[b], Extent(b))
        BY <1>6, <2>1, <2>3, <3>1 DEF X
      <4>2. QED
        BY <1>4, <2>1, <3>1, <4>1
    <3>2. CASE c # a
      BY <1>3, <2>1, <2>3, <3>2 DEF LayoutInv
    <3>3. QED
      BY <3>1, <3>2
  <2>4. data'[b] + X(b) <= heap_next'
    <3>1. data[b] + Extent(b) <= heap_next'
      BY <1>1, <1>2, <2>2
    <3>2. QED
      BY <2>1, <3>1
  <2>5. QED
    BY <2>1, <2>2, <2>3, <2>4
<1>7. QED
  BY <1>5, <1>6

-----------------------------------------------------------------------------
(***************************************************************************)
(* What the steps of one thread have in common.                            *)
(***************************************************************************)
Others(t) ==
  /\ groups' = groups
  /\ \A u \in Thread \ {t} : op'[u] = op[u]
  /\ \A u \in Thread \ {t} : \A b \in Array : array_lock'[b] = u <=> array_lock[b] = u

LEMMA ThreadStep ==
  ASSUME LockInv, NEW t \in Thread, Others(t),
         array_lock' \in [Array -> Thread \cup {None}],
         \A u \in Thread \ {t} : heap_lock' = u <=> heap_lock = u,
         ThreadLocks(t)',
         \A b \in Array : array_lock'[b] = t =>
           /\ b \in InUse
           /\ \/ op'[t].pc \in {"set", "write"} /\ op'[t].array = b
              \/ op'[t].pc \in {"grab", "release"}
  PROVE  InUse' = InUse /\ LockInv'
<1>1. InUse' = InUse
  BY DEF InUse, Members, Others
<1>2. ASSUME NEW u \in Thread \ {t} PROVE ThreadLocks(u)'
  <2>1. ThreadLocks(u) /\ op'[u] = op[u]
    BY DEF LockInv, Others
  <2>2. op[u].pc \in {"set", "write"} => array_lock'[op[u].array] = u
    <3> SUFFICES ASSUME op[u].pc \in {"set", "write"} PROVE array_lock'[op[u].array] = u
      OBVIOUS
    <3>1. op[u].array \in InUse /\ array_lock[op[u].array] = u
      BY <2>1 DEF ThreadLocks
    <3>2. QED
      BY <3>1, InUseFinite DEF Others
  <2>3. QED
    BY <1>1, <2>1, <2>2 DEF ThreadLocks
<1>3. ASSUME NEW b \in Array PROVE ArrayLock(b)'
  <2>1. array_lock'[b] \in Thread \cup {None}
    OBVIOUS
  <2>2. CASE array_lock'[b] = t
    BY <1>1, <2>2 DEF ArrayLock
  <2>3. CASE array_lock'[b] \in Thread \ {t}
    <3> DEFINE u == array_lock'[b]
    <3>1. u \in Thread \ {t} /\ array_lock[b] = u
      BY <2>3 DEF Others
    <3>2. ArrayLock(b) /\ op'[u] = op[u] /\ u # None
      BY <3>1, HeapAssumption DEF LockInv, Others
    <3>3. QED
      BY <1>1, <3>1, <3>2 DEF ArrayLock
  <2>4. CASE array_lock'[b] = None
    BY <2>4 DEF ArrayLock
  <2>5. QED
    BY <2>1, <2>2, <2>3, <2>4
<1>4. QED
  BY <1>1, <1>2, <1>3 DEF LockInv

\* A step that leaves the heap alone and neither starts nor ends a write
LEMMA Steady ==
  ASSUME StoreTypeOK, LockInv, LayoutInv, NEW t \in Thread, Others(t),
         op[t].pc # "write", op'[t].pc # "write",
         UNCHANGED <<size, data, heap_next, heap>>
  PROVE  LayoutInv' /\ \A b \in Array : Keeps(b)
<1>1. InUse' = InUse
  BY DEF InUse, Members, Others
<1>2. ASSUME NEW b \in Array PROVE Extent(b)' = Extent(b) /\ (Writing(b)' <=> Writing(b))
  BY Unaffected DEF Others
<1>3. LayoutInv'
  <2> DEFINE X(b) == Extent(b)'
  <2>1. \A b \in InUse : X(b) = Extent(b)
    BY <1>2, InUseFinite
  <2>2. \A b \in InUse : X(b) > 0 =>
          /\ data'[b] \in Nat /\ data'[b] + X(b) <= heap_next'
          /\ \A c \in InUse \ {b} : X(c) > 0 => Apart(data'[b], X(b), data'[c], X(c))
    <3> HIDE DEF X
    <3> QED
      BY <2>1 DEF LayoutInv
  <2>3. QED
    BY <1>1, <2>2 DEF LayoutInv, Apart
<1>4. ASSUME NEW b \in Array PROVE Keeps(b)
  BY <1>2 DEF Keeps, Holds
<1>5. QED
  BY <1>3, <1>4

LEMMA SpaceKept ==
  ASSUME SpaceInv, NEW t \in Thread, Others(t), heap_next' = heap_next, ~died,
         op'[t].pc = "allocate" => died' \/ ~Insufficient(t)'
  PROVE  SpaceInv'
<1> SUFFICES ASSUME ~died', NEW u \in Thread, op'[u].pc = "allocate" PROVE ~Insufficient(u)'
  BY DEF SpaceInv
<1>1. CASE u = t
  BY <1>1
<1>2. CASE u # t
  <2>1. op'[u] = op[u] /\ ~Insufficient(u)
    BY <1>2 DEF SpaceInv, Others
  <2>2. QED
    BY <2>1 DEF Insufficient
<1>3. QED
  BY <1>1, <1>2

-----------------------------------------------------------------------------
(***************************************************************************)
(* The steps of set.                                                       *)
(***************************************************************************)
LEMMA LockHeapKeeps ==
  ASSUME StoreInv, NEW t \in Thread, LockHeap(t)
  PROVE  StoreInv' /\ \A b \in Array : Keeps(b)
<1> DEFINE next == IF Insufficient(t) THEN "grab" ELSE "allocate"
<1> USE DEF StoreInv
<1>1. /\ op[t].pc = "heap" /\ ~died /\ heap_lock = None /\ heap_lock' = t
      /\ UNCHANGED <<storage, array_lock, died>>
      /\ Goto(t, next) /\ next \in PCs /\ op[t].pc # "idle"
  BY DEF LockHeap, At, PCs
<1>2. UNCHANGED <<groups, size, data, frozen, heap_next, heap, array_lock, died>>
  BY <1>1 DEF storage
<1> HIDE DEF next
<1>3. /\ op' \in [Thread -> {Idle} \cup Calls]
      /\ op'[t].pc = next /\ op'[t].array = op[t].array /\ op'[t].value = op[t].value
      /\ \A u \in Thread \ {t} : op'[u] = op[u]
  BY <1>1, Goes
<1>4. next \in {"grab", "allocate"} /\ (next = "allocate" => ~Insufficient(t))
  BY DEF next
<1>5. StoreTypeOK'
  BY <1>1, <1>2, <1>3 DEF StoreTypeOK, Calls, PCs
<1>6. Others(t)
  BY <1>2, <1>3 DEF Others
<1>7. InUse' = InUse /\ LockInv'
  <2>1. op[t].array \in InUse
    BY <1>1 DEF LockInv, ThreadLocks
  <2>2. ThreadLocks(t)'
    BY <1>1, <1>2, <1>3, <1>4, <2>1 DEF ThreadLocks, InUse, Members
  <2>3. \A b \in Array : array_lock'[b] # t
    BY <1>1, <1>2, HeapAssumption DEF LockInv, ArrayLock
  <2>4. QED
    BY <1>1, <1>2, <1>6, <2>2, <2>3, HeapAssumption, ThreadStep DEF StoreTypeOK
<1>8. SpaceInv'
  BY <1>1, <1>2, <1>3, <1>4, <1>6, SpaceKept DEF Insufficient
<1>9. QED
  BY <1>1, <1>2, <1>3, <1>4, <1>5, <1>6, <1>7, <1>8, Steady

LEMMA GrabArrayKeeps ==
  ASSUME StoreInv, NEW t \in Thread, GrabArray(t)
  PROVE  StoreInv' /\ \A b \in Array : Keeps(b)
<1> DEFINE a == First(InUse \ Held(t))
<1> USE DEF StoreInv
<1>1. /\ op[t].pc = "grab" /\ ~died
      /\ a \in InUse /\ array_lock[a] = None /\ array_lock' = [array_lock EXCEPT ![a] = t]
      /\ UNCHANGED <<groups, size, data, frozen, heap_next, heap, heap_lock, op, died>>
  BY DEF GrabArray, At, Lock, storage
<1> HIDE DEF a
<1>2. StoreTypeOK'
  BY <1>1, InUseFinite DEF StoreTypeOK
<1>3. Others(t)
  BY <1>1, InUseFinite, HeapAssumption DEF Others, StoreTypeOK
<1>4. InUse' = InUse /\ LockInv'
  <2>1. ThreadLocks(t)'
    BY <1>1 DEF LockInv, ThreadLocks, InUse, Members
  <2>2. \A b \in Array : array_lock'[b] = t => b \in InUse
    BY <1>1, HeapAssumption DEF LockInv, ArrayLock, StoreTypeOK
  <2>3. QED
    BY <1>1, <1>2, <1>3, <2>1, <2>2, ThreadStep DEF StoreTypeOK
<1>5. SpaceInv'
  BY <1>1, <1>3, SpaceKept
<1>6. QED
  BY <1>1, <1>2, <1>3, <1>4, <1>5, Steady

LEMMA ReleaseArrayKeeps ==
  ASSUME StoreInv, NEW t \in Thread, ReleaseArray(t)
  PROVE  StoreInv' /\ \A b \in Array : Keeps(b)
<1> DEFINE a == First(Held(t))
<1> USE DEF StoreInv
<1>1. /\ op[t].pc = "release" /\ ~died
      /\ Held(t) # {} /\ array_lock' = [array_lock EXCEPT ![a] = None]
      /\ UNCHANGED <<groups, size, data, frozen, heap_next, heap, heap_lock, op, died>>
  BY DEF ReleaseArray, At, storage
<1>2. a \in InUse /\ array_lock[a] = t
  <2>1. Held(t) \in SUBSET Array
    BY InUseFinite DEF Held
  <2>2. a \in Held(t)
    BY <1>1, <2>1, FirstOne
  <2>3. QED
    BY <2>2 DEF Held
<1> HIDE DEF a
<1>3. StoreTypeOK'
  BY <1>1, InUseFinite DEF StoreTypeOK
<1>4. Others(t)
  BY <1>1, <1>2, InUseFinite, HeapAssumption DEF Others, StoreTypeOK
<1>5. InUse' = InUse /\ LockInv'
  <2>1. ThreadLocks(t)'
    BY <1>1 DEF LockInv, ThreadLocks, InUse, Members
  <2>2. \A b \in Array : array_lock'[b] = t => b \in InUse
    BY <1>1, HeapAssumption DEF LockInv, ArrayLock, StoreTypeOK
  <2>3. QED
    BY <1>1, <1>3, <1>4, <2>1, <2>2, ThreadStep DEF StoreTypeOK
<1>6. SpaceInv'
  BY <1>1, <1>4, SpaceKept
<1>7. QED
  BY <1>1, <1>3, <1>4, <1>5, <1>6, Steady

LEMMA CheckSpaceKeeps ==
  ASSUME StoreInv, NEW t \in Thread, CheckSpace(t)
  PROVE  StoreInv' /\ \A b \in Array : Keeps(b)
<1> USE DEF StoreInv
<1>1. /\ op[t].pc = "release" /\ op[t].pc # "idle" /\ ~died
      /\ Held(t) = {} /\ died' = Insufficient(t) /\ Goto(t, "allocate") /\ "allocate" \in PCs
      /\ UNCHANGED <<groups, size, data, frozen, heap_next, heap, array_lock, heap_lock>>
  BY DEF CheckSpace, At, storage, locks, PCs
<1>2. /\ op' \in [Thread -> {Idle} \cup Calls]
      /\ op'[t].pc = "allocate" /\ op'[t].array = op[t].array /\ op'[t].value = op[t].value
      /\ \A u \in Thread \ {t} : op'[u] = op[u]
  BY <1>1, Goes
<1>3. StoreTypeOK'
  <2>1. died' \in BOOLEAN
    BY <1>1 DEF Insufficient
  <2>2. QED
    BY <1>1, <1>2, <2>1 DEF StoreTypeOK, Calls, PCs
<1>4. Others(t)
  BY <1>1, <1>2 DEF Others
<1>5. InUse' = InUse /\ LockInv'
  <2>1. ThreadLocks(t)'
    BY <1>1, <1>2 DEF LockInv, ThreadLocks, InUse, Members
  <2>2. \A b \in Array : array_lock'[b] # t
    BY <1>1, HeapAssumption DEF LockInv, ArrayLock, Held
  <2>3. QED
    BY <1>1, <1>3, <1>4, <2>1, <2>2, ThreadStep DEF StoreTypeOK
<1>6. SpaceInv'
  BY <1>1, <1>2, <1>4, SpaceKept DEF Insufficient
<1>7. QED
  BY <1>1, <1>2, <1>3, <1>4, <1>5, <1>6, Steady

\* Nobody writes during a collection, and what each array holds moves with it
LEMMA CollectKeeps ==
  ASSUME StoreTypeOK, LayoutInv, Collect, \A a \in InUse : ~Writing(a) /\ ~Writing(a)',
         groups' = groups, size' = size
  PROVE  /\ InUse' = InUse
         /\ data' \in [Array -> Null .. HeapSize] /\ heap_next' \in 0 .. HeapSize /\ died' \in BOOLEAN
         /\ heap' = [i \in 0 .. HeapSize - 1 |-> heap'[i]]
         /\ LayoutInv'
         /\ \A b \in InUse : Keeps(b)
<1>1. HeapTypes
  BY DEF HeapTypes, StoreTypeOK
<1>2. \A a \in InUse : /\ Extent(a) = Room(a) /\ Extent(a)' = Room(a)
                       /\ size[a] \in Nat /\ Room(a) \in Nat /\ Room(a) >= size[a]
  <2> TAKE a \in InUse
  <2>1. size[a] \in Nat
    BY InUseFinite, HeapAssumption DEF StoreTypeOK
  <2>2. QED
    BY <2>1, Aligned DEF Extent, Room
<1>3. Packed
  <2>1. \A a \in InUse : size[a] > 0 => Extent(a) > 0
    BY <1>2
  <2>2. QED
    BY <1>2, <2>1 DEF Packed, LayoutInv
<1>4. /\ data' \in [Array -> Null .. HeapSize] /\ heap_next' \in 0 .. HeapSize /\ died' \in BOOLEAN
      /\ heap' = [i \in 0 .. HeapSize - 1 |-> heap'[i]]
      /\ \A a \in InUse :
           /\ data'[a] \in Nat /\ data'[a] + Room(a) <= heap_next'
           /\ \A b \in InUse \ {a} : Apart(data'[a], Room(a), data'[b], Room(b))
           /\ \A i \in 0 .. size[a] - 1 : heap'[data'[a] + i] = heap[data[a] + i]
  BY <1>1, <1>3, Collected
<1>5. InUse' = InUse
  BY DEF InUse, Members
<1>6. LayoutInv'
  <2> DEFINE X(b) == Extent(b)'
  <2>1. \A b \in InUse : X(b) = Room(b)
    BY <1>2
  <2>2. \A b \in InUse : X(b) > 0 =>
          /\ data'[b] \in Nat /\ data'[b] + X(b) <= heap_next'
          /\ \A c \in InUse \ {b} : X(c) > 0 => Apart(data'[b], X(b), data'[c], X(c))
    <3> HIDE DEF X
    <3> QED
      BY <1>4, <2>1
  <2>3. QED
    BY <1>5, <2>2 DEF LayoutInv, Apart
<1>7. ASSUME NEW b \in InUse, NEW v \in Value, Holds(b, v) PROVE Holds(b, v)'
  <2>1. \A i \in 0 .. size[b] - 1 : heap'[data'[b] + i] = Bytes(v)[i]
    BY <1>4, <1>7 DEF Holds
  <2>2. Bytes(v)' = Bytes(v)
    BY DEF Bytes
  <2>3. QED
    BY <1>7, <2>1, <2>2 DEF Holds
<1>8. QED
  BY <1>4, <1>5, <1>6, <1>7 DEF Keeps

LEMMA CollectAllKeeps ==
  ASSUME StoreInv, NEW t \in Thread, CollectAll(t)
  PROVE  StoreInv' /\ \A b \in InUse : Keeps(b)
<1> USE DEF StoreInv
<1>1. /\ op[t].pc = "grab" /\ op[t].pc # "idle" /\ ~died
      /\ Held(t) = InUse /\ Collect /\ Goto(t, "release") /\ "release" \in PCs
      /\ UNCHANGED <<groups, size, frozen, array_lock, heap_lock>>
  BY DEF CollectAll, At, locks, PCs
<1>2. /\ op' \in [Thread -> {Idle} \cup Calls]
      /\ op'[t].pc = "release" /\ op'[t].array = op[t].array /\ op'[t].value = op[t].value
      /\ \A u \in Thread \ {t} : op'[u] = op[u]
  BY <1>1, Goes
<1>3. \A a \in InUse : array_lock[a] = t
  BY <1>1 DEF Held
<1>4. \A a \in InUse : ~Writing(a) /\ ~Writing(a)'
  <2>1. ASSUME NEW a \in InUse, NEW u \in Thread, op[u].pc = "write", op[u].array = a PROVE FALSE
    BY <1>1, <1>3, <2>1 DEF LockInv, ThreadLocks
  <2>2. \A u \in Thread : op'[u].pc = "write" => op'[u] = op[u]
    BY <1>2
  <2>3. QED
    BY <2>1, <2>2 DEF Writing
<1>5. /\ InUse' = InUse
      /\ data' \in [Array -> Null .. HeapSize] /\ heap_next' \in 0 .. HeapSize /\ died' \in BOOLEAN
      /\ heap' = [i \in 0 .. HeapSize - 1 |-> heap'[i]]
      /\ LayoutInv'
      /\ \A b \in InUse : Keeps(b)
  BY <1>1, <1>4, CollectKeeps
<1>6. StoreTypeOK'
  BY <1>1, <1>2, <1>5 DEF StoreTypeOK, Calls, PCs
<1>7. Others(t)
  BY <1>1, <1>2 DEF Others
<1>8. LockInv'
  <2>1. ThreadLocks(t)'
    BY <1>1, <1>2, <1>5 DEF LockInv, ThreadLocks
  <2>2. \A b \in Array : array_lock'[b] = t => b \in InUse
    BY <1>1, HeapAssumption DEF LockInv, ArrayLock, StoreTypeOK
  <2>3. QED
    BY <1>1, <1>2, <1>6, <1>7, <2>1, <2>2, ThreadStep DEF StoreTypeOK
<1>9. SpaceInv'
  <2> SUFFICES ASSUME NEW u \in Thread, op'[u].pc = "allocate" PROVE FALSE
    BY DEF SpaceInv
  <2>1. u # t /\ op[u].pc = "allocate"
    BY <1>2
  <2>2. heap_lock = u /\ heap_lock = t
    BY <1>1, <2>1 DEF LockInv, ThreadLocks
  <2>3. QED
    BY <2>1, <2>2
<1>10. QED
  BY <1>5, <1>6, <1>8, <1>9

LEMMA LockOf ==
  ASSUME StoreTypeOK, LockInv, NEW t \in Thread, NEW b \in Array, array_lock[b] = t
  PROVE  /\ b \in InUse
         /\ \/ op[t].pc \in {"set", "write"} /\ op[t].array = b
            \/ op[t].pc \in {"grab", "release"}
BY HeapAssumption DEF LockInv, ArrayLock

LEMMA SetInPlaceKeeps ==
  ASSUME StoreInv, NEW t \in Thread, SetInPlace(t)
  PROVE  StoreInv' /\ \A b \in InUse \ {op[t].array} : Keeps(b)
<1>0. PICK a, v : a = op[t].array /\ v = op[t].value
  OBVIOUS
<1> USE DEF StoreInv
<1>1. /\ op[t].pc = "set" /\ op[t].pc # "idle" /\ ~died
      /\ align_size(SizeOf[v]) <= size[a]
      /\ Goto(t, "write") /\ "write" \in PCs
      /\ UNCHANGED <<groups, size, data, frozen, heap_next, heap, array_lock, heap_lock, died>>
  BY <1>0 DEF SetInPlace, At, storage, locks, PCs
<1>2. /\ op' \in [Thread -> {Idle} \cup Calls] /\ op[t] \in Calls
      /\ op'[t].pc = "write" /\ op'[t].array = op[t].array /\ op'[t].value = op[t].value
      /\ \A u \in Thread \ {t} : op'[u] = op[u]
  BY <1>0, <1>1, Goes
<1>3. a \in InUse /\ a \in Array /\ array_lock[a] = t
  BY <1>0, <1>1, InUseFinite DEF LockInv, ThreadLocks
<1>4. StoreTypeOK'
  BY <1>0, <1>1, <1>2 DEF StoreTypeOK, Calls, PCs
<1>5. Others(t)
  BY <1>0, <1>1, <1>2 DEF Others
<1>6. InUse' = InUse /\ LockInv'
  <2>1. ThreadLocks(t)'
    BY <1>0, <1>1, <1>2, <1>3 DEF LockInv, ThreadLocks, InUse, Members
  <2>2. \A b \in Array : array_lock'[b] = t => b \in InUse /\ b = a
    BY <1>0, <1>1, <1>3, LockOf, HeapAssumption DEF StoreTypeOK
  <2>3. QED
    BY <1>0, <1>1, <1>2, <1>4, <1>5, <2>1, <2>2, ThreadStep DEF StoreTypeOK
<1>7. SpaceInv'
  BY <1>0, <1>1, <1>2, <1>5, SpaceKept
<1>8. ASSUME NEW b \in Array, b # a PROVE Extent(b)' = Extent(b) /\ (Writing(b)' <=> Writing(b))
  <2>1. op'[t].array # b /\ op[t].pc # "write"
    BY <1>0, <1>1, <1>2, <1>8
  <2>2. QED
    BY <1>0, <1>1, <1>2, <2>1, Unaffected
<1>9. /\ Extent(a) = Room(a) /\ Room(a) \in Nat /\ Room(a) >= size[a] /\ size[a] \in Nat
      /\ Extent(a)' = align_size(SizeOf[v]) /\ Extent(a)' \in Nat
  <2>1. ~Writing(a)
    BY <1>0, <1>1, <1>3 DEF Writing, LockInv, ThreadLocks
  <2>2. Writing(a)' /\ array_lock'[a] = t
    BY <1>0, <1>1, <1>2, <1>3 DEF Writing
  <2>3. SizeOf[v] \in Nat
    BY <1>0, <1>2, HeapAssumption DEF Calls
  <2>4. QED
    BY <1>0, <1>2, <1>3, <2>1, <2>2, <2>3, ExtentIs, Aligned DEF Extent
<1>10. LayoutInv'
  <2> DEFINE X == Extent(a)'
  <2>1. X \in Nat /\ X <= Extent(a) /\ Extent(a) \in Nat
    BY <1>0, <1>1, <1>9
  <2>2. \A b \in InUse \ {a} : data'[b] = data[b] /\ Extent(b)' = Extent(b) /\ Extent(b) \in Nat
    BY <1>0, <1>1, <1>8, ExtentIs, InUseFinite
  <2>3. ASSUME X > 0
        PROVE  /\ data'[a] \in Nat /\ data'[a] + X <= heap_next'
               /\ \A b \in InUse \ {a} : Extent(b) > 0 => Apart(data'[a], X, data[b], Extent(b))
    <3> HIDE DEF X
    <3>1. Extent(a) > 0 /\ data'[a] = data[a] /\ heap_next' = heap_next /\ heap_next \in Nat
      BY <1>0, <1>1, <2>1, <2>3, HeapAssumption DEF StoreTypeOK
    <3>2. /\ data[a] \in Nat /\ data[a] + Extent(a) <= heap_next
          /\ \A b \in InUse \ {a} : Extent(b) > 0 => Apart(data[a], Extent(a), data[b], Extent(b)) /\ data[b] \in Nat
      BY <1>0, <1>3, <3>1 DEF LayoutInv
    <3>3. data'[a] + X <= heap_next'
      BY <2>1, <3>1, <3>2
    <3>4. ASSUME NEW b \in InUse \ {a}, Extent(b) > 0 PROVE Apart(data'[a], X, data[b], Extent(b))
      BY <2>1, <2>2, <3>1, <3>2, <3>4 DEF Apart
    <3>5. QED
      BY <3>1, <3>2, <3>3, <3>4
  <2>4. heap_next <= heap_next' /\ Extent(a)' \in Nat
    BY <1>0, <1>1, <2>1, HeapAssumption DEF StoreTypeOK
  <2>5. QED
    BY <1>0, <1>3, <1>4, <1>6, <2>2, <2>3, <2>4, Moved
<1>11. ASSUME NEW b \in InUse, b # a PROVE Keeps(b)
  BY <1>0, <1>1, <1>8, <1>11, InUseFinite DEF Keeps, Holds
<1>12. QED
  BY <1>0, <1>4, <1>6, <1>7, <1>10, <1>11

LEMMA DeallocateKeeps ==
  ASSUME StoreInv, NEW t \in Thread, Deallocate(t)
  PROVE  StoreInv' /\ \A b \in InUse \ {op[t].array} : Keeps(b)
<1>0. PICK a : a = op[t].array
  OBVIOUS
<1> USE DEF StoreInv
<1>1. /\ op[t].pc = "set" /\ op[t].pc # "idle" /\ ~died
      /\ size' = [size EXCEPT ![a] = 0] /\ data' = [data EXCEPT ![a] = Null]
      /\ array_lock' = [array_lock EXCEPT ![a] = None]
      /\ Goto(t, "heap") /\ "heap" \in PCs
      /\ UNCHANGED <<groups, frozen, heap_next, heap, heap_lock, died>>
  BY <1>0 DEF Deallocate, At, PCs
<1>2. /\ op' \in [Thread -> {Idle} \cup Calls]
      /\ op'[t].pc = "heap" /\ op'[t].array = op[t].array /\ op'[t].value = op[t].value
      /\ \A u \in Thread \ {t} : op'[u] = op[u]
  BY <1>0, <1>1, Goes
<1>3. a \in InUse /\ a \in Array /\ array_lock[a] = t
  BY <1>0, <1>1, InUseFinite DEF LockInv, ThreadLocks
<1>4. StoreTypeOK'
  <2>4. 0 \in 0 .. HeapSize /\ Null \in Null .. HeapSize
    BY HeapAssumption DEF Null
  <2>1. size' \in [Array -> 0 .. HeapSize] /\ data' \in [Array -> Null .. HeapSize]
    BY <1>1, <2>4 DEF StoreTypeOK
  <2>2. array_lock' \in [Array -> Thread \cup {None}]
    BY <1>0, <1>1 DEF StoreTypeOK
  <2>3. QED
    BY <1>0, <1>1, <1>2, <2>1, <2>2 DEF StoreTypeOK, Calls, PCs
<1>5. Others(t)
  BY <1>0, <1>1, <1>2, <1>3, HeapAssumption DEF Others, StoreTypeOK
<1>6. InUse' = InUse /\ LockInv'
  <2>1. ThreadLocks(t)'
    BY <1>0, <1>1, <1>2, <1>3 DEF LockInv, ThreadLocks, InUse, Members
  <2>2. \A b \in Array : array_lock'[b] # t
    <3> SUFFICES ASSUME NEW b \in Array, array_lock'[b] = t PROVE FALSE
      OBVIOUS
    <3>1. t # None
      BY HeapAssumption
    <3>2. b # a /\ array_lock[b] = t
      BY <1>1, <1>3, <3>1 DEF StoreTypeOK
    <3>3. QED
      BY <1>0, <1>1, <3>2, LockOf
  <2>3. QED
    BY <1>0, <1>1, <1>2, <1>4, <1>5, <2>1, <2>2, ThreadStep DEF StoreTypeOK
<1>7. SpaceInv'
  BY <1>0, <1>1, <1>2, <1>5, SpaceKept
<1>8. ASSUME NEW b \in Array, b # a PROVE Extent(b)' = Extent(b) /\ (Writing(b)' <=> Writing(b))
  <2>1. op'[t].pc # "write" /\ op[t].pc # "write" /\ size'[b] = size[b]
    BY <1>0, <1>1, <1>2, <1>8 DEF StoreTypeOK
  <2>2. \A u \in Thread \ {t} : array_lock[b] = u => array_lock'[b] = u
    BY <1>5 DEF Others
  <2>3. QED
    BY <1>0, <1>2, <2>1, <2>2, Unaffected
<1>9. Extent(a)' = 0
  <2>1. \A u \in Thread : ~(op[u].pc = "write" /\ op[u].array = a)
    BY <1>0, <1>1, <1>3 DEF LockInv, ThreadLocks
  <2>2. ~Writing(a)'
    BY <1>0, <1>2, <2>1 DEF Writing
  <2>3. size'[a] = 0
    BY <1>0, <1>1, <1>3 DEF StoreTypeOK
  <2>4. QED
    BY <2>2, <2>3, Aligned DEF Extent, Room
<1>10. LayoutInv'
  <2>1. \A b \in InUse \ {a} : data'[b] = data[b] /\ Extent(b)' = Extent(b)
    BY <1>0, <1>1, <1>8, InUseFinite DEF StoreTypeOK
  <2>2. heap_next <= heap_next' /\ Extent(a)' \in Nat /\ ~(Extent(a)' > 0)
    BY <1>0, <1>1, <1>9, HeapAssumption DEF StoreTypeOK
  <2>3. QED
    BY <1>0, <1>3, <1>4, <1>6, <2>1, <2>2, Moved
<1>11. ASSUME NEW b \in InUse, b # a PROVE Keeps(b)
  <2>1. size'[b] = size[b] /\ data'[b] = data[b]
    BY <1>0, <1>1, <1>11, InUseFinite DEF StoreTypeOK
  <2>2. QED
    BY <1>0, <1>1, <1>8, <1>11, <2>1, InUseFinite DEF Keeps, Holds
<1>12. QED
  BY <1>0, <1>4, <1>6, <1>7, <1>10, <1>11

LEMMA AllocateKeeps ==
  ASSUME StoreInv, NEW t \in Thread, Allocate(t)
  PROVE  StoreInv' /\ \A b \in InUse \ {op[t].array} : Keeps(b)
<1>0. PICK a, v : a = op[t].array /\ v = op[t].value
  OBVIOUS
<1> DEFINE n == align_size(SizeOf[v])
<1> USE DEF StoreInv
<1>1. /\ op[t].pc = "allocate" /\ op[t].pc # "idle" /\ ~died
      /\ a \in InUse /\ array_lock[a] = None /\ array_lock' = [array_lock EXCEPT ![a] = t]
      /\ data' = [data EXCEPT ![a] = heap_next] /\ heap_next' = heap_next + n
      /\ heap_lock' = None /\ Goto(t, "write") /\ "write" \in PCs
      /\ UNCHANGED <<groups, size, frozen, heap, died>>
  BY <1>0 DEF Allocate, At, Lock, PCs
<1>2. /\ op' \in [Thread -> {Idle} \cup Calls] /\ op[t] \in Calls
      /\ op'[t].pc = "write" /\ op'[t].array = op[t].array /\ op'[t].value = op[t].value
      /\ \A u \in Thread \ {t} : op'[u] = op[u]
  BY <1>0, <1>1, Goes
<1>3. n \in Nat /\ heap_next \in Nat /\ HeapSize \in Nat /\ heap_next + n <= HeapSize
  <2>1. SizeOf[v] \in Nat
    BY <1>0, <1>2, HeapAssumption DEF Calls
  <2>2. n \in Nat /\ heap_next \in Nat /\ HeapSize \in Nat
    BY <2>1, Aligned, HeapAssumption DEF StoreTypeOK
  <2>3. ~(heap_next + n > HeapSize)
    BY <1>0, <1>1 DEF SpaceInv, Insufficient
  <2>4. QED
    BY <2>2, <2>3
<1>4. a \in Array /\ heap_lock = t
  BY <1>0, <1>1, InUseFinite DEF LockInv, ThreadLocks
<1> HIDE DEF n
<1>5. StoreTypeOK'
  <2>1. data' \in [Array -> Null .. HeapSize] /\ heap_next' \in 0 .. HeapSize
    BY <1>0, <1>1, <1>3, <1>4 DEF StoreTypeOK, Null
  <2>2. array_lock' \in [Array -> Thread \cup {None}]
    BY <1>0, <1>1 DEF StoreTypeOK
  <2>3. QED
    BY <1>0, <1>1, <1>2, <2>1, <2>2 DEF StoreTypeOK, Calls, PCs
<1>6. Others(t)
  BY <1>0, <1>1, <1>2, <1>4, HeapAssumption DEF Others, StoreTypeOK
<1>7. InUse' = InUse /\ LockInv'
  <2>1. ThreadLocks(t)'
    <3>1. array_lock'[a] = t /\ heap_lock' # t
      BY <1>0, <1>1, <1>4, HeapAssumption DEF StoreTypeOK
    <3>2. InUse' = InUse
      BY <1>0, <1>1 DEF InUse, Members
    <3>3. QED
      BY <1>0, <1>1, <1>2, <3>1, <3>2 DEF ThreadLocks
  <2>2. \A b \in Array : array_lock'[b] = t => b = a
    <3> SUFFICES ASSUME NEW b \in Array, array_lock'[b] = t, b # a PROVE FALSE
      OBVIOUS
    <3>1. array_lock[b] = t
      BY <1>1, <1>4 DEF StoreTypeOK
    <3>2. QED
      BY <1>0, <1>1, <3>1, LockOf
  <2>3. \A u \in Thread \ {t} : heap_lock' = u <=> heap_lock = u
    BY <1>0, <1>1, <1>4, HeapAssumption
  <2>4. array_lock' \in [Array -> Thread \cup {None}]
    BY <1>5 DEF StoreTypeOK
  <2>5. \A b \in Array : array_lock'[b] = t =>
          b \in InUse /\ op'[t].pc \in {"set", "write"} /\ op'[t].array = b
    BY <1>0, <1>1, <1>2, <2>2
  <2>6. QED
    BY <1>6, <2>1, <2>3, <2>4, <2>5, ThreadStep
<1>8. SpaceInv'
  <2> SUFFICES ASSUME NEW u \in Thread, op'[u].pc = "allocate" PROVE FALSE
    BY DEF SpaceInv
  <2>1. u # t /\ op[u].pc = "allocate"
    BY <1>0, <1>2
  <2>2. heap_lock = u
    BY <2>1 DEF LockInv, ThreadLocks
  <2>3. QED
    BY <1>0, <1>4, <2>1, <2>2
<1>9. ASSUME NEW b \in Array, b # a PROVE Extent(b)' = Extent(b) /\ (Writing(b)' <=> Writing(b))
  <2>1. op'[t].array # b /\ op[t].pc # "write" /\ size'[b] = size[b]
    BY <1>0, <1>1, <1>2, <1>9
  <2>2. \A u \in Thread \ {t} : array_lock[b] = u => array_lock'[b] = u
    BY <1>6 DEF Others
  <2>3. QED
    BY <1>0, <1>2, <2>1, <2>2, Unaffected
<1>10. Extent(a)' = n
  <2>1. Writing(a)' /\ array_lock'[a] = t
    BY <1>0, <1>1, <1>2, <1>4 DEF Writing, StoreTypeOK
  <2>2. QED
    BY <1>0, <1>2, <2>1 DEF Extent, n
<1>11. LayoutInv'
  <2> DEFINE X == Extent(a)'
  <2>1. data'[a] = heap_next /\ heap_next' = heap_next + n /\ X = n
    BY <1>0, <1>1, <1>4, <1>10 DEF StoreTypeOK
  <2>2. \A b \in InUse \ {a} : data'[b] = data[b] /\ Extent(b)' = Extent(b)
    BY <1>0, <1>1, <1>9, InUseFinite DEF StoreTypeOK
  <2>3. \A b \in InUse \ {a} : Extent(b) > 0 => data[b] + Extent(b) <= heap_next
    BY DEF LayoutInv
  <2>4. ASSUME X > 0
        PROVE  /\ data'[a] \in Nat /\ data'[a] + X <= heap_next'
               /\ \A b \in InUse \ {a} : Extent(b) > 0 => Apart(data'[a], X, data[b], Extent(b))
    <3> HIDE DEF X
    <3> QED
      BY <1>0, <1>3, <2>1, <2>3 DEF Apart
  <2>5. heap_next <= heap_next' /\ Extent(a)' \in Nat
    BY <1>0, <1>3, <1>10, <2>1
  <2>6. QED
    BY <1>0, <1>1, <1>5, <1>7, <2>2, <2>4, <2>5, Moved
<1>12. ASSUME NEW b \in InUse, b # a PROVE Keeps(b)
  <2>1. size'[b] = size[b] /\ data'[b] = data[b]
    BY <1>0, <1>1, <1>12, InUseFinite DEF StoreTypeOK
  <2>2. QED
    BY <1>0, <1>1, <1>9, <1>12, <2>1, InUseFinite DEF Keeps, Holds
<1>13. QED
  BY <1>0, <1>5, <1>7, <1>8, <1>11, <1>12

\* Write, after which the client's thread is idle
LEMMA WriteKeeps ==
  ASSUME StoreInv, NEW t \in Thread, Write(t), op' = [op EXCEPT ![t] = Idle],
         NEW a, NEW v, a = op[t].array, v = op[t].value
  PROVE  /\ StoreInv' /\ InUse' = InUse
         /\ \A b \in InUse \ {a} : Keeps(b)
         /\ a \in InUse /\ v \in Value /\ ~Writing(a)' /\ Holds(a, v)'
<1>0. a = op[t].array /\ v = op[t].value
  OBVIOUS
<1> DEFINE new == Bytes(v)
<1> USE DEF StoreInv
<1>1. /\ op[t].pc = "write" /\ op[t].pc # "idle" /\ ~died
      /\ heap' = [i \in DOMAIN heap |-> IF i - data[a] \in DOMAIN new THEN new[i - data[a]] ELSE heap[i]]
      /\ size' = [size EXCEPT ![a] = SizeOf[v]]
      /\ array_lock' = [array_lock EXCEPT ![a] = None]
      /\ UNCHANGED <<groups, data, frozen, heap_next, heap_lock, died>>
  BY <1>0 DEF Write, At
<1>2. /\ op[t] \in Calls /\ op' \in [Thread -> {Idle} \cup Calls] /\ op'[t] = Idle /\ Idle.pc = "idle"
      /\ \A u \in Thread \ {t} : op'[u] = op[u]
  <2>1. op \in [Thread -> {Idle} \cup Calls]
    BY DEF StoreTypeOK, Calls, PCs
  <2>2. op[t] \in Calls
    BY <1>1, OpIs
  <2>3. Idle.pc = "idle"
    BY DEF Idle
  <2>4. QED
    BY <2>1, <2>2, <2>3
<1>3. a \in InUse /\ a \in Array /\ array_lock[a] = t
  BY <1>0, <1>1, InUseFinite DEF LockInv, ThreadLocks
<1>4. /\ SizeOf[v] \in Nat /\ v \in Value
      /\ Extent(a) = align_size(SizeOf[v]) /\ Extent(a) \in Nat /\ Extent(a) >= SizeOf[v]
  <2>1. SizeOf[v] \in Nat /\ v \in Value
    BY <1>0, <1>2, HeapAssumption DEF Calls
  <2>2. QED
    BY <1>0, <1>1, <1>3, <2>1, ExtentIs, Aligned
<1>5. heap_next \in Nat /\ heap_next <= HeapSize /\ HeapSize \in Nat /\ data[a] \in Int
  BY <1>3, HeapAssumption DEF StoreTypeOK, Null
<1>6. /\ DOMAIN new = 0 .. SizeOf[v] - 1 /\ \A i \in DOMAIN new : new[i] = <<v, i>>
      /\ new = Bytes(v)'
  BY DEF Bytes
<1>7. /\ DOMAIN heap = 0 .. HeapSize - 1
      /\ \A i \in 0 .. HeapSize - 1 :
           heap'[i] = IF data[a] <= i /\ i < data[a] + SizeOf[v] THEN new[i - data[a]] ELSE heap[i]
  <2>1. DOMAIN heap = 0 .. HeapSize - 1
    BY DEF StoreTypeOK
  <2> HIDE DEF new
  <2>2. ASSUME NEW i \in 0 .. HeapSize - 1
        PROVE  heap'[i] = IF data[a] <= i /\ i < data[a] + SizeOf[v] THEN new[i - data[a]] ELSE heap[i]
    <3>1. heap'[i] = IF i - data[a] \in DOMAIN new THEN new[i - data[a]] ELSE heap[i]
      BY <1>1, <2>1
    <3>2. i - data[a] \in DOMAIN new <=> data[a] <= i /\ i < data[a] + SizeOf[v]
      <4>1. PICK d \in Int, n \in Nat : d = data[a] /\ n = SizeOf[v]
        BY <1>4, <1>5
      <4>2. i - d \in 0 .. n - 1 <=> d <= i /\ i < d + n
        BY <1>5
      <4>3. QED
        BY <1>6, <4>1, <4>2
    <3>3. QED
      BY <3>1, <3>2
  <2>3. QED
    BY <2>1, <2>2
<1> HIDE DEF new
<1>8. StoreTypeOK'
  <2>1. SizeOf[v] \in 0 .. HeapSize
    <3>1. CASE SizeOf[v] = 0
      BY <1>4, <1>5, <3>1
    <3>2. CASE SizeOf[v] > 0
      <4>1. Extent(a) > 0
        BY <1>4, <3>2
      <4>2. data[a] \in Nat /\ data[a] + Extent(a) <= heap_next
        BY <1>3, <4>1 DEF LayoutInv
      <4>3. QED
        BY <1>4, <1>5, <4>2
    <3>3. QED
      BY <1>4, <3>1, <3>2
  <2>2. size' \in [Array -> 0 .. HeapSize] /\ array_lock' \in [Array -> Thread \cup {None}]
    BY <1>1, <2>1 DEF StoreTypeOK
  <2>3. heap' = [i \in 0 .. HeapSize - 1 |-> heap'[i]]
    BY <1>1, <1>7
  <2>4. QED
    BY <1>1, <1>2, <2>2, <2>3 DEF StoreTypeOK, Calls, PCs
<1>9. Others(t)
  BY <1>1, <1>2, <1>3, HeapAssumption DEF Others, StoreTypeOK
<1>10. InUse' = InUse /\ LockInv'
  <2>1. ThreadLocks(t)'
    BY <1>1, <1>2 DEF LockInv, ThreadLocks
  <2>2. \A b \in Array : array_lock'[b] # t
    <3> SUFFICES ASSUME NEW b \in Array, array_lock'[b] = t PROVE FALSE
      OBVIOUS
    <3>1. t # None
      BY HeapAssumption
    <3>2. b # a /\ array_lock[b] = t
      BY <1>1, <1>3, <3>1 DEF StoreTypeOK
    <3>3. QED
      BY <1>0, <1>1, <3>2, LockOf
  <2>3. array_lock' \in [Array -> Thread \cup {None}]
    BY <1>8 DEF StoreTypeOK
  <2>4. QED
    BY <1>1, <1>9, <2>1, <2>2, <2>3, ThreadStep
<1>11. SpaceInv'
  BY <1>1, <1>2, <1>9, SpaceKept
<1>12. ASSUME NEW b \in Array, b # a PROVE Extent(b)' = Extent(b) /\ (Writing(b)' <=> Writing(b))
  <2>1. op'[t].pc # "write" /\ op[t].array # b /\ size'[b] = size[b]
    BY <1>0, <1>1, <1>2, <1>12 DEF StoreTypeOK
  <2>2. \A u \in Thread \ {t} : array_lock[b] = u => array_lock'[b] = u
    BY <1>9 DEF Others
  <2>3. QED
    BY <1>2, <2>1, <2>2, Unaffected
<1>13. ~Writing(a)' /\ Extent(a)' = Extent(a)
  <2>1. ASSUME NEW u \in Thread, op'[u].pc = "write", op'[u].array = a PROVE FALSE
    <3>1. u # t /\ op[u].pc = "write" /\ op[u].array = a
      BY <1>2, <2>1
    <3>2. QED
      BY <1>3, <3>1 DEF LockInv, ThreadLocks
  <2>2. ~Writing(a)'
    BY <2>1 DEF Writing
  <2>3. size'[a] = SizeOf[v]
    BY <1>1, <1>3 DEF StoreTypeOK
  <2>4. QED
    BY <1>4, <2>2, <2>3 DEF Extent, Room
<1>14. LayoutInv'
  <2>1. \A b \in InUse \ {a} : data'[b] = data[b] /\ Extent(b)' = Extent(b)
    BY <1>1, <1>12, InUseFinite
  <2>2. heap_next <= heap_next' /\ Extent(a)' \in Nat /\ data'[a] = data[a] /\ heap_next' = heap_next
    BY <1>1, <1>4, <1>5, <1>13
  <2>3. Extent(a) > 0 =>
          /\ data[a] \in Nat /\ data[a] + Extent(a) <= heap_next
          /\ \A b \in InUse \ {a} : Extent(b) > 0 => Apart(data[a], Extent(a), data[b], Extent(b))
    BY <1>3 DEF LayoutInv
  <2>4. Extent(a)' > 0 =>
          /\ data'[a] \in Nat /\ data'[a] + Extent(a)' <= heap_next'
          /\ \A b \in InUse \ {a} : Extent(b) > 0 => Apart(data'[a], Extent(a)', data[b], Extent(b))
    BY <1>13, <2>2, <2>3
  <2>5. QED
    BY <1>3, <1>8, <1>10, <2>1, <2>2, <2>4, Moved
<1>15. ASSUME NEW b \in InUse, b # a, ~Writing(b), NEW w \in Value, Holds(b, w) PROVE Holds(b, w)'
  <2>1. b \in Array /\ size'[b] = size[b] /\ data'[b] = data[b]
    BY <1>1, <1>15, InUseFinite DEF StoreTypeOK
  <2>2. ASSUME NEW i \in 0 .. size[b] - 1 PROVE heap'[data[b] + i] = heap[data[b] + i]
    <3>1. /\ size[b] \in Nat /\ Extent(b) = Room(b) /\ Room(b) \in Nat /\ Room(b) >= size[b]
          /\ i \in Nat /\ i < size[b]
      BY <1>15, <2>1, <2>2, ExtentIs DEF Extent
    <3>2. /\ data[b] \in Nat /\ data[b] + Extent(b) <= heap_next
          /\ Extent(a) > 0 => Apart(data[b], Extent(b), data[a], Extent(a)) /\ data[a] \in Nat
      BY <1>3, <1>15, <3>1 DEF LayoutInv
    <3> DEFINE x == data[b] + i
    <3>3. x \in 0 .. HeapSize - 1
      BY <1>5, <3>1, <3>2
    <3>4. ~(data[a] <= x /\ x < data[a] + SizeOf[v])
      BY <1>4, <1>5, <3>1, <3>2 DEF Apart
    <3> HIDE DEF x
    <3>5. heap'[x] = heap[x]
      BY <1>7, <3>3, <3>4
    <3>6. QED
      BY <3>5 DEF x
  <2>3. Bytes(w)' = Bytes(w)
    BY DEF Bytes
  <2>4. QED
    BY <1>15, <2>1, <2>2, <2>3 DEF Holds
<1>16. \A b \in InUse \ {a} : Keeps(b)
  <2> TAKE b \in InUse \ {a}
  <2>1. b \in Array /\ size'[b] = size[b]
    BY <1>1, InUseFinite DEF StoreTypeOK
  <2>2. QED
    BY <1>12, <1>15, <2>1 DEF Keeps
<1>17. Holds(a, v)'
  <2>1. size'[a] = SizeOf[v] /\ data'[a] = data[a]
    BY <1>1, <1>3 DEF StoreTypeOK
  <2>2. ASSUME NEW i \in 0 .. SizeOf[v] - 1 PROVE heap'[data[a] + i] = new[i]
    <3>1. i \in Nat /\ i < SizeOf[v] /\ Extent(a) > 0
      BY <1>4, <2>2
    <3>2. data[a] \in Nat /\ data[a] + Extent(a) <= heap_next
      BY <1>3, <3>1 DEF LayoutInv
    <3> DEFINE x == data[a] + i
    <3>3. x \in 0 .. HeapSize - 1 /\ data[a] <= x /\ x < data[a] + SizeOf[v] /\ x - data[a] = i
      BY <1>4, <1>5, <3>1, <3>2
    <3> HIDE DEF x
    <3>4. heap'[x] = new[i]
      BY <1>7, <3>3
    <3>5. QED
      BY <3>4 DEF x
  <2>3. QED
    BY <1>6, <2>1, <2>2 DEF Holds
<1>18. QED
  BY <1>3, <1>4, <1>8, <1>10, <1>11, <1>13, <1>14, <1>16, <1>17

-----------------------------------------------------------------------------
(***************************************************************************)
(* What clients do: they lock an array and choose what to set, and change  *)
(* groups while every thread is idle.                                      *)
(***************************************************************************)
\* A thread that is to set an array, and has not locked it
LEMMA ReadKeeps ==
  ASSUME StoreInv, NEW t \in Thread, At(t, "idle"), NEW a \in InUse, NEW v \in Value,
         op' = [op EXCEPT ![t] = [pc |-> "read", array |-> a, value |-> v]],
         UNCHANGED <<storage, locks, died>>
  PROVE  StoreInv' /\ InUse' = InUse /\ \A b \in Array : Keeps(b)
<1> DEFINE call == [pc |-> "read", array |-> a, value |-> v]
<1> USE DEF StoreInv
<1>1. /\ op[t].pc = "idle" /\ ~died
      /\ UNCHANGED <<groups, size, data, frozen, heap_next, heap, array_lock, heap_lock, died>>
  BY DEF At, storage, locks
<1>2. /\ call \in Calls /\ call.pc = "read" /\ call.array = a
  BY InUseFinite DEF Calls, PCs
<1> HIDE DEF call
<1>3. op \in [Thread -> {Idle} \cup Calls] /\ op' = [op EXCEPT ![t] = call]
  BY DEF StoreTypeOK, Calls, PCs, call
<1>4. /\ op' \in [Thread -> {Idle} \cup Calls] /\ op'[t] = call
      /\ \A u \in Thread \ {t} : op'[u] = op[u]
  BY <1>2, <1>3
<1>5. StoreTypeOK'
  BY <1>1, <1>4 DEF StoreTypeOK, Calls, PCs
<1>6. Others(t)
  BY <1>1, <1>4 DEF Others
<1>7. InUse' = InUse /\ LockInv'
  <2>1. ThreadLocks(t)'
    BY <1>1, <1>2, <1>4 DEF LockInv, ThreadLocks, InUse, Members
  <2>2. \A b \in Array : array_lock'[b] # t
    BY <1>1, LockOf
  <2>3. array_lock' \in [Array -> Thread \cup {None}]
    BY <1>5 DEF StoreTypeOK
  <2>4. QED
    BY <1>1, <1>6, <2>1, <2>2, <2>3, ThreadStep
<1>8. SpaceInv'
  BY <1>1, <1>2, <1>4, <1>6, SpaceKept
<1>9. QED
  BY <1>1, <1>2, <1>4, <1>5, <1>6, <1>7, <1>8, Steady

\* It locks the array and knows what to set
LEMMA LockKeeps ==
  ASSUME StoreInv, NEW t \in Thread, op[t].pc \in {"idle", "read"}, ~died, NEW a, Lock(t, a),
         NEW v \in Value, op' = [op EXCEPT ![t] = [pc |-> "set", array |-> a, value |-> v]],
         UNCHANGED <<storage, heap_lock>>, died' \in BOOLEAN
  PROVE  StoreInv' /\ InUse' = InUse /\ \A b \in Array : Keeps(b)
<1> DEFINE call == [pc |-> "set", array |-> a, value |-> v]
<1> USE DEF StoreInv
<1>1. /\ a \in InUse /\ a \in Array /\ array_lock[a] = None /\ array_lock' = [array_lock EXCEPT ![a] = t]
      /\ UNCHANGED <<groups, size, data, frozen, heap_next, heap, heap_lock>>
  BY InUseFinite DEF Lock, storage
<1>2. /\ call \in Calls /\ call.pc = "set" /\ call.array = a
  BY <1>1 DEF Calls, PCs
<1> HIDE DEF call
<1>3. op \in [Thread -> {Idle} \cup Calls] /\ op' = [op EXCEPT ![t] = call]
  BY DEF StoreTypeOK, Calls, PCs, call
<1>4. /\ op' \in [Thread -> {Idle} \cup Calls] /\ op'[t] = call
      /\ \A u \in Thread \ {t} : op'[u] = op[u]
  BY <1>2, <1>3
<1>5. array_lock' \in [Array -> Thread \cup {None}]
  BY <1>1 DEF StoreTypeOK
<1>6. StoreTypeOK'
  BY <1>1, <1>4, <1>5 DEF StoreTypeOK, Calls, PCs
<1>7. Others(t)
  BY <1>1, <1>4, HeapAssumption DEF Others, StoreTypeOK
<1>8. InUse' = InUse /\ LockInv'
  <2>1. array_lock'[a] = t
    BY <1>1 DEF StoreTypeOK
  <2>2. ThreadLocks(t)'
    BY <1>1, <1>2, <1>4, <2>1 DEF LockInv, ThreadLocks, InUse, Members
  <2>3. \A b \in Array : array_lock'[b] = t => b = a
    <3> SUFFICES ASSUME NEW b \in Array, array_lock'[b] = t, b # a PROVE FALSE
      OBVIOUS
    <3>1. array_lock[b] = t
      BY <1>1 DEF StoreTypeOK
    <3>2. QED
      BY <3>1, LockOf
  <2>4. \A b \in Array : array_lock'[b] = t => b \in InUse /\ op'[t].pc \in {"set", "write"} /\ op'[t].array = b
    BY <1>1, <1>2, <1>4, <2>3
  <2>5. QED
    BY <1>1, <1>5, <1>7, <2>2, <2>4, ThreadStep
<1>9. SpaceInv'
  BY <1>1, <1>2, <1>4, <1>7, SpaceKept
<1>10. QED
  BY <1>1, <1>2, <1>4, <1>6, <1>7, <1>8, <1>9, Steady

LEMMA QuietIs ==
  ASSUME StoreInv, Quiet
  PROVE  /\ ~died /\ \A t \in Thread : op[t].pc = "idle"
         /\ \A a \in Array : ~Writing(a) /\ array_lock[a] = None
<1>1. Idle.pc = "idle"
  BY DEF Idle
<1>2. ~died /\ \A t \in Thread : op[t].pc = "idle"
  BY <1>1 DEF Quiet
<1>3. \A a \in Array : array_lock[a] \in Thread \cup {None}
  BY DEF StoreInv, StoreTypeOK
<1>4. QED
  BY <1>2, <1>3, LockOf DEF StoreInv, Writing

\* While all threads are idle, what is said of them stays true
LEMMA QuietStep ==
  ASSUME StoreInv, Quiet, UNCHANGED <<locks, op>>
  PROVE  LockInv' /\ SpaceInv' /\ \A a \in Array : ~Writing(a)' /\ Extent(a)' = Room(a)'
<1>1. /\ \A t \in Thread : op'[t].pc = "idle" /\ ~(heap_lock' = t)
      /\ \A a \in Array : array_lock'[a] = None
  BY QuietIs DEF StoreInv, LockInv, ThreadLocks, locks
<1>2. LockInv'
  BY <1>1 DEF LockInv, ThreadLocks, ArrayLock
<1>3. \A a \in Array : ~Writing(a)'
  BY <1>1 DEF Writing
<1>4. QED
  BY <1>1, <1>2, <1>3 DEF SpaceInv, Extent

LEMMA AllocateGroupKeeps ==
  ASSUME StoreInv, NEW g \in Group, AllocateGroup(g)
  PROVE  /\ StoreInv' /\ \A b \in InUse : b \in InUse' /\ Keeps(b)
         /\ \A b \in InUse' \ InUse : b[1] = g /\ size'[b] = 0 /\ ~Writing(b)'
<1> USE DEF StoreInv
<1>1. /\ Quiet /\ g \notin groups /\ groups' = groups \cup {g}
      /\ size' = [a \in Array |-> IF a[1] = g THEN 0 ELSE size[a]]
      /\ data' = [a \in Array |-> IF a[1] = g THEN Null ELSE data[a]]
      /\ frozen' = [a \in Array |-> frozen[a] /\ a[1] # g]
      /\ UNCHANGED <<heap_next, heap, array_lock, heap_lock, op, died, locks>>
  BY DEF AllocateGroup, locks
<1>2. 0 \in 0 .. HeapSize /\ Null \in Null .. HeapSize
  BY HeapAssumption DEF Null
<1>3. StoreTypeOK'
  <2>1. size' \in [Array -> 0 .. HeapSize] /\ data' \in [Array -> Null .. HeapSize] /\ frozen' \in [Array -> BOOLEAN]
    BY <1>1, <1>2 DEF StoreTypeOK
  <2>2. groups' \subseteq Group
    BY <1>1 DEF StoreTypeOK
  <2>3. QED
    BY <1>1, <2>1, <2>2 DEF StoreTypeOK
<1>4. LockInv' /\ SpaceInv' /\ \A a \in Array : ~Writing(a)' /\ Extent(a)' = Room(a)'
  BY <1>1, QuietStep
<1>5. \A b \in InUse' : b \in Array /\ (b \in InUse \/ b[1] = g) /\ (b \in InUse => b[1] # g)
  BY <1>1 DEF InUse, Members
<1>6. \A b \in InUse : b \in InUse' /\ b \in Array /\ b[1] # g
  BY <1>1, InUseFinite DEF InUse, Members
<1>7. \A b \in InUse : size'[b] = size[b] /\ data'[b] = data[b]
  BY <1>1, <1>6
<1>8. \A b \in Array : b[1] = g => size'[b] = 0 /\ Room(b)' = 0
  <2> TAKE b \in Array
  <2> HAVE b[1] = g
  <2>1. size'[b] = 0
    BY <1>1
  <2>2. QED
    BY <2>1, Aligned DEF Room
<1>9. \A b \in InUse : Extent(b)' = Extent(b)
  BY <1>1, <1>4, <1>6, <1>7, QuietIs DEF Extent, Room
<1>10. LayoutInv'
  <2> DEFINE X(b) == Extent(b)'
  <2>1. \A b \in InUse' : X(b) > 0 => b \in InUse /\ X(b) = Extent(b)
    BY <1>4, <1>5, <1>8, <1>9
  <2>2. \A b \in InUse' : X(b) > 0 =>
          /\ data'[b] \in Nat /\ data'[b] + X(b) <= heap_next'
          /\ \A c \in InUse' \ {b} : X(c) > 0 => Apart(data'[b], X(b), data'[c], X(c))
    <3> HIDE DEF X
    <3> SUFFICES ASSUME NEW b \in InUse', X(b) > 0
                 PROVE  /\ data'[b] \in Nat /\ data'[b] + X(b) <= heap_next'
                        /\ \A c \in InUse' \ {b} : X(c) > 0 => Apart(data'[b], X(b), data'[c], X(c))
      OBVIOUS
    <3>1. b \in InUse /\ X(b) = Extent(b) /\ data'[b] = data[b] /\ heap_next' = heap_next
      BY <1>1, <1>7, <2>1
    <3>2. /\ data[b] \in Nat /\ data[b] + X(b) <= heap_next
          /\ \A c \in InUse \ {b} : Extent(c) > 0 => Apart(data[b], X(b), data[c], Extent(c))
      BY <3>1 DEF LayoutInv
    <3>3. \A c \in InUse' \ {b} : X(c) > 0 => Apart(data'[b], X(b), data'[c], X(c))
      BY <1>7, <2>1, <3>1, <3>2
    <3>4. QED
      BY <3>1, <3>2, <3>3
  <2>3. QED
    BY <2>2 DEF LayoutInv, Apart
<1>11. \A b \in InUse : Keeps(b)
  BY <1>1, <1>4, <1>6, <1>7 DEF Keeps, Holds
<1>12. QED
  BY <1>3, <1>4, <1>5, <1>6, <1>8, <1>10, <1>11

LEMMA ClearGroupKeeps ==
  ASSUME StoreInv, NEW g \in Group, ClearGroup(g)
  PROVE  StoreInv' /\ InUse' \subseteq InUse /\ \A b \in InUse : Keeps(b)
<1> USE DEF StoreInv
<1>1. /\ Quiet /\ groups' = groups \ {g}
      /\ UNCHANGED <<size, data, frozen, heap_next, heap, array_lock, heap_lock, op, died, locks>>
  BY DEF ClearGroup, locks
<1>2. StoreTypeOK'
  BY <1>1 DEF StoreTypeOK
<1>3. LockInv' /\ SpaceInv' /\ \A a \in Array : ~Writing(a)' /\ Extent(a)' = Room(a)'
  BY <1>1, QuietStep
<1>4. InUse' \subseteq InUse
  BY <1>1 DEF InUse, Members
<1>5. \A b \in InUse : Extent(b)' = Extent(b)
  BY <1>1, <1>3, InUseFinite, QuietIs DEF Extent, Room
<1>6. LayoutInv'
  <2> DEFINE X(b) == Extent(b)'
  <2>1. \A b \in InUse' : b \in InUse /\ X(b) = Extent(b)
    BY <1>4, <1>5
  <2>2. \A b \in InUse' : X(b) > 0 =>
          /\ data'[b] \in Nat /\ data'[b] + X(b) <= heap_next'
          /\ \A c \in InUse' \ {b} : X(c) > 0 => Apart(data'[b], X(b), data'[c], X(c))
    <3> HIDE DEF X
    <3> QED
      BY <1>1, <2>1 DEF LayoutInv
  <2>3. QED
    BY <2>2 DEF LayoutInv, Apart
<1>7. \A b \in InUse : Keeps(b)
  BY <1>1, <1>3, InUseFinite DEF Keeps, Holds
<1>8. QED
  BY <1>2, <1>3, <1>4, <1>6, <1>7

LEMMA FreezeKeeps ==
  ASSUME StoreInv, NEW g \in Group, Freeze(g)
  PROVE  StoreInv' /\ InUse' = InUse /\ \A b \in InUse : Keeps(b)
<1> USE DEF StoreInv
<1>1. /\ Quiet /\ Collect /\ frozen' = [a \in Array |-> frozen[a] \/ a[1] = g]
      /\ UNCHANGED <<groups, size, array_lock, heap_lock, op, locks>>
  BY DEF Freeze, locks
<1>2. LockInv' /\ SpaceInv' /\ \A a \in Array : ~Writing(a)'
  BY <1>1, QuietStep
<1>3. \A a \in InUse : ~Writing(a) /\ ~Writing(a)'
  BY <1>1, <1>2, InUseFinite, QuietIs
<1>4. /\ InUse' = InUse
      /\ data' \in [Array -> Null .. HeapSize] /\ heap_next' \in 0 .. HeapSize /\ died' \in BOOLEAN
      /\ heap' = [i \in 0 .. HeapSize - 1 |-> heap'[i]]
      /\ LayoutInv'
      /\ \A b \in InUse : Keeps(b)
  BY <1>1, <1>3, CollectKeeps
<1>5. StoreTypeOK'
  <2>1. frozen' \in [Array -> BOOLEAN]
    BY <1>1 DEF StoreTypeOK
  <2>2. QED
    BY <1>1, <1>4, <2>1 DEF StoreTypeOK
<1>6. QED
  BY <1>2, <1>4, <1>5

\* A step of set, as its client sees it
LEMMA StoreKeeps ==
  ASSUME StoreInv, NEW t \in Thread, Store(t)
  PROVE  /\ StoreInv' /\ InUse' = InUse /\ UNCHANGED <<groups, frozen>>
         /\ op[t].pc \notin {"idle", "read", "write"} /\ op'[t].pc \notin {"idle", "read"}
         /\ op'[t].array = op[t].array /\ op'[t].value = op[t].value
         /\ \A u \in Thread \ {t} : op'[u] = op[u]
         /\ \A b \in InUse \ {op[t].array} : Keeps(b)
<1> DEFINE Sees ==
             /\ UNCHANGED <<groups, frozen>>
             /\ op[t].pc \notin {"idle", "read", "write"} /\ op'[t].pc \notin {"idle", "read"}
             /\ op'[t].array = op[t].array /\ op'[t].value = op[t].value
             /\ \A u \in Thread \ {t} : op'[u] = op[u]
<1>1. ASSUME NEW pc \in PCs \ {"read"}, op[t].pc \in {"set", "heap", "grab", "release", "allocate"},
             Goto(t, pc), UNCHANGED <<groups, frozen>>
      PROVE  Sees
  <2>1. op[t].pc # "idle" /\ pc # "idle"
    BY <1>1 DEF PCs
  <2>2. QED
    BY <1>1, <2>1, Goes DEF StoreInv
<1> HIDE DEF Sees
<1>2. CASE SetInPlace(t)
  <2>1. Sees
    BY <1>1, <1>2 DEF SetInPlace, At, PCs, storage
  <2>2. QED
    BY <1>2, <2>1, SetInPlaceKeeps DEF Sees, InUse, Members
<1>3. CASE Deallocate(t)
  <2>1. Sees
    BY <1>1, <1>3 DEF Deallocate, At, PCs
  <2>2. QED
    BY <1>3, <2>1, DeallocateKeeps DEF Sees, InUse, Members
<1>4. CASE LockHeap(t)
  <2>1. Sees
    BY <1>1, <1>4 DEF LockHeap, At, PCs, storage
  <2>2. QED
    BY <1>4, <2>1, LockHeapKeeps, InUseFinite DEF Sees, InUse, Members
<1>5. CASE GrabArray(t)
  <2>1. Sees
    BY <1>5 DEF GrabArray, At, storage, Sees
  <2>2. QED
    BY <1>5, <2>1, GrabArrayKeeps, InUseFinite DEF Sees, InUse, Members
<1>6. CASE CollectAll(t)
  <2>1. Sees
    BY <1>1, <1>6 DEF CollectAll, At, PCs
  <2>2. QED
    BY <1>6, <2>1, CollectAllKeeps DEF Sees, InUse, Members
<1>7. CASE ReleaseArray(t)
  <2>1. Sees
    BY <1>7 DEF ReleaseArray, At, storage, Sees
  <2>2. QED
    BY <1>7, <2>1, ReleaseArrayKeeps, InUseFinite DEF Sees, InUse, Members
<1>8. CASE CheckSpace(t)
  <2>1. Sees
    BY <1>1, <1>8 DEF CheckSpace, At, PCs, storage
  <2>2. QED
    BY <1>8, <2>1, CheckSpaceKeeps, InUseFinite DEF Sees, InUse, Members
<1>9. CASE Allocate(t)
  <2>1. Sees
    BY <1>1, <1>9 DEF Allocate, At, PCs
  <2>2. QED
    BY <1>9, <2>1, AllocateKeeps DEF Sees, InUse, Members
<1>10. QED
  BY <1>2, <1>3, <1>4, <1>5, <1>6, <1>7, <1>8, <1>9 DEF Store

LEMMA InitStoreInv ==
  ASSUME StoreInit
  PROVE  StoreInv /\ InUse = {}
<1> USE DEF StoreInit
<1>1. InUse = {} /\ Idle.pc = "idle"
  BY DEF InUse, Members, Idle
<1>2. 0 \in 0 .. HeapSize /\ Null \in Null .. HeapSize
  BY HeapAssumption DEF Null
<1>3. StoreTypeOK
  BY <1>2 DEF StoreTypeOK
<1>4. LockInv /\ SpaceInv
  BY <1>1, HeapAssumption DEF LockInv, ThreadLocks, ArrayLock, SpaceInv
<1>5. LayoutInv
  BY <1>1 DEF LayoutInv
<1>6. QED
  BY <1>1, <1>3, <1>4, <1>5 DEF StoreInv

-----------------------------------------------------------------------------
(***************************************************************************)
(* What the store promises, whoever its clients are.                       *)
(***************************************************************************)
\* Nobody sets a frozen array
BusyInv == \A t \in Thread : op[t].pc # "idle" => ~frozen[op[t].array]

\* An array is empty, about to be written, or holds a value
Valued(a) == size[a] = 0 \/ Writing(a) \/ \E v \in Value : Holds(a, v)
ValuesInv == \A a \in InUse : Valued(a)

\* One group at most is frozen, as a whole.  What it holds lies at the bottom of the heap, with
\* no gap between one array and the next
Solid(a) == frozen[a] /\ size[a] > 0
Founded(a) == data[a] = 0 \/ \E b \in InUse : Solid(b) /\ data[b] + Room(b) = data[a]

FrozenInv ==
  /\ \A a, b \in InUse : frozen[a] => (frozen[b] <=> b[1] = a[1])
  /\ \A a \in InUse : Solid(a) => Founded(a)

PromiseInv == StoreInv /\ BusyInv /\ ValuesInv /\ FrozenInv

\* After a collection there is no gap below an array, and none below the free space
LEMMA NoGaps ==
  ASSUME HeapTypes, Packed, Collect
  PROVE  /\ heap_next' = 0 \/ \E b \in InUse : size[b] > 0 /\ data'[b] + Room(b) = heap_next'
         /\ \A a \in InUse :
              \/ data'[a] = 0
              \/ \E b \in InUse : size[b] > 0 /\ data'[b] + Room(b) = data'[a] /\ data[b] <= data[a]
<1>1. PICK order \in Orders :
        /\ data' = [b \in Array |-> IF b \in InUse THEN Slide(order)[IndexOf(order, b) - 1].target ELSE data[b]]
        /\ heap_next' = Slide(order)[Len(order)].target
  BY DEF Collect
<1> DEFINE m == Len(order)
           T(k) == Slide(order)[k].target
           S(k) == size[order[k]]
           E(k) == Room(order[k])
<1>2. /\ m \in Nat /\ T(0) = 0
      /\ \A k \in 1 .. m : order[k] \in InUse /\ T(k) = T(k - 1) + E(k)
  BY OrderIs, SlideIs DEF Room
<1>3. \A k \in 1 .. m : E(k) \in Nat /\ (~(S(k) > 0) => E(k) = 0)
  <2> TAKE k \in 1 .. m
  <2>1. S(k) \in Nat
    BY OrderIs, InUseFinite, HeapAssumption DEF HeapTypes
  <2>2. PICK z \in Nat : z = S(k)
    BY <2>1
  <2>3. align_size(z) \in Nat /\ (~(z > 0) => align_size(z) = 0)
    BY Aligned
  <2>4. QED
    BY <2>2, <2>3 DEF Room
<1>4. \A k \in 0 .. m : T(k) \in Nat
  BY SlidAll DEF Slid
<1>5. \A b \in InUse : /\ IndexOf(order, b) \in 1 .. m /\ order[IndexOf(order, b)] = b
                       /\ data'[b] = T(IndexOf(order, b) - 1)
  BY <1>1, OrderIs, InUseFinite
<1>6. \A k \in 1 .. m : data'[order[k]] = T(k - 1)
  <2> TAKE k \in 1 .. m
  <2>1. order[k] \in InUse /\ IndexOf(order, order[k]) \in 1 .. m /\ order[IndexOf(order, order[k])] = order[k]
    BY <1>2, <1>5
  <2>2. IndexOf(order, order[k]) = k
    BY <2>1, OrderIs
  <2>3. QED
    BY <1>5, <2>1, <2>2
<1>7. \A i, j \in 1 .. m : i <= j => data[order[i]] <= data[order[j]]
  BY OrderSorted DEF HeapTypes
<1>8. heap_next' = T(m)
  BY <1>1
<1> HIDE DEF m, T, S, E
<1> DEFINE Rests(k) == T(k) = 0 \/ \E j \in 1 .. m : j <= k /\ S(j) > 0 /\ T(j) = T(k)
           Bad == {k \in 0 .. m : ~Rests(k)}
<1>9. Bad = {}
  <2> SUFFICES ASSUME Bad # {} PROVE FALSE
    OBVIOUS
  <2>1. Bad \in SUBSET Nat
    BY <1>2
  <2>2. PICK k \in Bad : \A i \in Bad : k <= i
    <3> HIDE DEF Bad
    <3> QED
      BY <2>1, LeastNatural
  <2>3. k \in 1 .. m /\ k - 1 \in 0 .. m /\ ~(k <= k - 1)
    BY <1>2, <2>2
  <2>4. Rests(k - 1)
    BY <2>2, <2>3
  <2>5. T(k - 1) = T(k) \/ S(k) > 0
    BY <1>2, <1>3, <1>4, <2>3
  <2>6. QED
    BY <2>2, <2>3, <2>4, <2>5
<1>10. \A j \in 1 .. m : order[j] \in InUse /\ data'[order[j]] + Room(order[j]) = T(j)
  BY <1>2, <1>6 DEF E
<1>11. heap_next' = 0 \/ \E b \in InUse : size[b] > 0 /\ data'[b] + Room(b) = heap_next'
  <2>1. Rests(m) /\ heap_next' = T(m)
    BY <1>2, <1>8, <1>9
  <2>2. QED
    BY <1>10, <2>1 DEF S
<1>12. ASSUME NEW a \in InUse
       PROVE  \/ data'[a] = 0
              \/ \E b \in InUse : size[b] > 0 /\ data'[b] + Room(b) = data'[a] /\ data[b] <= data[a]
  <2> DEFINE n == IndexOf(order, a)
  <2>1. n \in 1 .. m /\ n - 1 \in 0 .. m /\ order[n] = a /\ data'[a] = T(n - 1)
    BY <1>2, <1>5
  <2>2. Rests(n - 1)
    BY <1>9, <2>1
  <2> HIDE DEF n
  <2>3. ASSUME NEW j \in 1 .. m, j <= n - 1, S(j) > 0, T(j) = T(n - 1)
        PROVE  \E b \in InUse : size[b] > 0 /\ data'[b] + Room(b) = data'[a] /\ data[b] <= data[a]
    <3>1. data[order[j]] <= data[a]
      BY <1>2, <1>7, <2>1, <2>3
    <3>2. QED
      BY <1>10, <2>1, <2>3, <3>1 DEF S
  <2>4. QED
    BY <2>1, <2>2, <2>3
<1>13. QED
  BY <1>11, <1>12

\* A collection has no reason to move an array with no gap below it
LEMMA SolidStays ==
  ASSUME HeapTypes, Packed, Collect, \A a \in InUse : Solid(a) => Founded(a)
  PROVE  \A a \in InUse : Solid(a) => data'[a] = data[a]
<1>1. PICK order \in Orders :
        data' = [b \in Array |-> IF b \in InUse THEN Slide(order)[IndexOf(order, b) - 1].target ELSE data[b]]
  BY DEF Collect
<1> DEFINE m == Len(order)
           T(k) == Slide(order)[k].target
           at(b) == IndexOf(order, b)
<1>2. m \in Nat /\ \A b \in InUse : at(b) \in 1 .. m /\ order[at(b)] = b /\ data'[b] = T(at(b) - 1)
  BY <1>1, OrderIs, InUseFinite
<1>3. \A b \in InUse : size[b] > 0 => data[b] \in Nat
  BY DEF Packed
<1>4. \A b \in InUse : size[b] > 0 => Room(b) \in Nat /\ Room(b) > 0
  <2> TAKE b \in InUse
  <2> HAVE size[b] > 0
  <2>1. size[b] \in Nat
    BY InUseFinite, HeapAssumption DEF HeapTypes
  <2>2. QED
    BY <2>1, Aligned DEF Room
<1>5. \A i, j \in 1 .. m : i <= j => data[order[i]] <= data[order[j]]
  BY OrderSorted DEF HeapTypes
<1>6. \A n \in 0 .. m : Slid(order, n)
  BY SlidAll
<1>7. ASSUME NEW b \in InUse, size[b] > 0 PROVE T(at(b) - 1) \in Nat /\ T(at(b) - 1) <= data[b]
  <2> DEFINE k == at(b)
  <2>1. k \in 1 .. m /\ k - 1 \in 0 .. m /\ k > k - 1 /\ order[k] = b
    BY <1>2
  <2> HIDE DEF k
  <2>2. T(k - 1) \in Nat /\ T(k - 1) <= data[order[k]]
    BY <1>6, <1>7, <2>1 DEF Slid
  <2>3. QED
    BY <2>1, <2>2 DEF k
<1>8. ASSUME NEW b \in InUse, NEW c \in InUse, at(c) < at(b)
      PROVE  T(at(c) - 1) + Room(c) <= T(at(b) - 1)
  <2> DEFINE k == at(b)
             j == at(c)
  <2>1. k \in 1 .. m /\ j \in 1 .. m /\ k - 1 \in 0 .. m /\ j <= k - 1 /\ order[j] = c
    BY <1>2, <1>8
  <2> HIDE DEF k, j
  <2>2. T(j - 1) + Room(order[j]) <= T(k - 1)
    BY <1>6, <2>1 DEF Slid
  <2>3. QED
    BY <2>1, <2>2 DEF k, j
<1> HIDE DEF T, at, m
<1> DEFINE Bad == {b \in InUse : Solid(b) /\ data'[b] # data[b]}
           Places == {data[b] : b \in Bad}
<1> SUFFICES ASSUME Bad # {} PROVE FALSE
  OBVIOUS
<1>9. \A b \in Bad : b \in InUse /\ size[b] > 0 /\ data[b] \in Nat
  BY <1>3 DEF Solid
<1>10. PICK p \in Places : \A q \in Places : p <= q
  <2>1. Places \in SUBSET Nat /\ Places # {}
    BY <1>9
  <2> HIDE DEF Places
  <2>2. QED
    BY <2>1, LeastNatural
<1>11. PICK a \in Bad : data[a] = p
  BY <1>10
<1>12. \A b \in Bad : data[a] <= data[b]
  BY <1>10, <1>11
<1>13. /\ a \in InUse /\ Solid(a) /\ size[a] > 0 /\ data'[a] # data[a] /\ data[a] \in Nat
       /\ at(a) \in 1 .. m /\ order[at(a)] = a /\ data'[a] = T(at(a) - 1)
       /\ T(at(a) - 1) \in Nat /\ T(at(a) - 1) <= data[a]
  BY <1>2, <1>7, <1>9
<1> HIDE DEF Bad, Places
<1>14. PICK b \in InUse : Solid(b) /\ data[b] + Room(b) = data[a]
  <2>1. data[a] # 0
    BY <1>13
  <2>2. QED
    BY <1>13, <2>1 DEF Founded
<1>15. /\ size[b] > 0 /\ data[b] \in Nat /\ data[b] < data[a]
       /\ at(b) \in 1 .. m /\ order[at(b)] = b /\ data'[b] = T(at(b) - 1)
  <2>1. size[b] > 0
    BY <1>14 DEF Solid
  <2>2. data[b] \in Nat /\ Room(b) \in Nat /\ Room(b) > 0
    BY <1>3, <1>4, <2>1
  <2>3. QED
    BY <1>2, <1>13, <1>14, <2>1, <2>2
<1>16. data'[b] = data[b]
  <2>1. b \notin Bad
    BY <1>12, <1>13, <1>15
  <2>2. QED
    BY <1>14, <2>1 DEF Bad
<1>17. at(b) < at(a)
  <2> SUFFICES ASSUME ~(at(b) < at(a)) PROVE FALSE
    OBVIOUS
  <2>1. at(a) <= at(b)
    BY <1>2, <1>13, <1>15
  <2>2. data[a] <= data[b]
    BY <1>5, <1>13, <1>15, <2>1
  <2>3. QED
    BY <1>13, <1>15, <2>2
<1>18. T(at(b) - 1) + Room(b) <= T(at(a) - 1)
  BY <1>8, <1>17, <1>13
<1>19. QED
  BY <1>13, <1>14, <1>15, <1>16, <1>18

-----------------------------------------------------------------------------
(***************************************************************************)
(* What the promise sees of a state.                                       *)
(***************************************************************************)
LEMMA InUseIs == \A a \in Array : a \in InUse <=> a[1] \in groups
<1>1. \A a \in Array : a[1] \in Group
  BY ArraysFinite
<1>2. QED
  BY <1>1 DEF InUse, Members, Group

LEMMA ValueIs ==
  \A a \in Array :
    /\ a \notin InUse \/ size[a] = 0 \/ Writing(a) => ValueOf(a) = NoValue
    /\ \A v \in Value : a \in InUse /\ size[a] \in Nat \ {0} /\ ~Writing(a) /\ Holds(a, v) => ValueOf(a) = v
<1> SUFFICES ASSUME NEW a \in Array
             PROVE  /\ a \notin InUse \/ size[a] = 0 \/ Writing(a) => ValueOf(a) = NoValue
                    /\ \A v \in Value : a \in InUse /\ size[a] \in Nat \ {0} /\ ~Writing(a) /\ Holds(a, v)
                         => ValueOf(a) = v
  OBVIOUS
<1> DEFINE empty == a[1] \notin groups \/ size[a] = 0 \/ Writing(a)
<1>1. ValueOf(a) = IF empty THEN NoValue
                   ELSE IF \E v \in Value : Holds(a, v) THEN CHOOSE v \in Value : Holds(a, v) ELSE Garbled
  BY DEF ValueOf
<1>2. a \notin InUse <=> a[1] \notin groups
  BY InUseIs
<1>3. ASSUME NEW v \in Value, NEW w \in Value, size[a] \in Nat \ {0}, Holds(a, v), Holds(a, w) PROVE v = w
  <2>1. 0 \in 0 .. size[a] - 1 /\ 0 \in 0 .. SizeOf[v] - 1 /\ 0 \in 0 .. SizeOf[w] - 1
    BY <1>3 DEF Holds
  <2>2. Bytes(v)[0] = Bytes(w)[0]
    BY <1>3, <2>1 DEF Holds
  <2>3. QED
    BY <2>1, <2>2 DEF Bytes
<1>4. ASSUME NEW v \in Value, size[a] \in Nat \ {0}, ~empty, Holds(a, v) PROVE ValueOf(a) = v
  <2> DEFINE w == CHOOSE w \in Value : Holds(a, w)
  <2>1. ValueOf(a) = w /\ w \in Value /\ Holds(a, w)
    BY <1>1, <1>4
  <2> HIDE DEF w
  <2>2. QED
    BY <1>3, <1>4, <2>1
<1>5. QED
  BY <1>1, <1>2, <1>4

LEMMA ValueIsNext ==
  \A a \in Array :
    /\ a \notin InUse' \/ size'[a] = 0 \/ Writing(a)' => ValueOf(a)' = NoValue
    /\ \A v \in Value : a \in InUse' /\ size'[a] \in Nat \ {0} /\ ~Writing(a)' /\ Holds(a, v)' => ValueOf(a)' = v
<1> DEFINE Is ==
      \A a \in Array :
        /\ a \notin InUse \/ size[a] = 0 \/ Writing(a) => ValueOf(a) = NoValue
        /\ \A v \in Value : a \in InUse /\ size[a] \in Nat \ {0} /\ ~Writing(a) /\ Holds(a, v) => ValueOf(a) = v
<1>1. Is
  BY ValueIs
<1> HIDE DEF Is
<1>2. Is'
  BY <1>1, PTL
<1>3. QED
  BY <1>2 DEF Is

\* An array that no step of its own disturbs shows the same value
LEMMA ValueKept ==
  ASSUME NEW b \in InUse, b \in InUse', size[b] \in Nat, Valued(b), Keeps(b), Writing(b) => Writing(b)'
  PROVE  Valued(b)' /\ ValueOf(b)' = ValueOf(b)
<1>1. b \in Array
  BY InUseFinite
<1>2. CASE Writing(b)
  BY <1>1, <1>2, ValueIs, ValueIsNext DEF Valued
<1>3. CASE ~Writing(b)
  <2>1. ~Writing(b)' /\ size'[b] = size[b] /\ \A v \in Value : Holds(b, v) => Holds(b, v)'
    BY <1>3 DEF Keeps
  <2>2. CASE size[b] = 0
    BY <1>1, <2>1, <2>2, ValueIs, ValueIsNext DEF Valued
  <2>3. CASE size[b] # 0
    <3>1. PICK v \in Value : Holds(b, v)
      BY <1>3, <2>3 DEF Valued
    <3>2. ValueOf(b) = v
      BY <1>1, <1>3, <2>3, <3>1, ValueIs
    <3>3. ValueOf(b)' = v
      BY <1>1, <2>1, <2>3, <3>1, ValueIsNext
    <3>4. QED
      BY <2>1, <3>1, <3>2, <3>3 DEF Valued
  <2>4. QED
    BY <2>2, <2>3
<1>4. QED
  BY <1>2, <1>3

LEMMA ValuePossible ==
  ASSUME NEW a \in Array, size'[a] \in Nat, a \in InUse' => Valued(a)'
  PROVE  ValueOf(a)' \in Value \cup {NoValue}
<1>1. CASE a \notin InUse' \/ size'[a] = 0 \/ Writing(a)'
  BY <1>1, ValueIsNext
<1>2. CASE a \in InUse' /\ size'[a] # 0 /\ ~Writing(a)'
  <2>1. PICK v \in Value : Holds(a, v)'
    BY <1>2 DEF Valued
  <2>2. QED
    BY <1>2, <2>1, ValueIsNext
<1>3. QED
  BY <1>1, <1>2

LEMMA FrozenSteady ==
  ASSUME FrozenInv, groups' = groups, frozen' = frozen,
         \A b \in InUse : frozen[b] => size'[b] = size[b] /\ (size[b] > 0 => data'[b] = data[b])
  PROVE  /\ FrozenInv'
         /\ FrozenArrays' = FrozenArrays /\ \A a \in Array : AddressOf(a)' = AddressOf(a)
<1>1. InUse' = InUse
  BY DEF InUse, Members
<1>2. FrozenArrays' = FrozenArrays
  BY DEF FrozenArrays
<1>3. \A a \in FrozenArrays : a \in InUse /\ frozen[a]
  BY InUseIs DEF FrozenArrays
<1>4. \A a \in Array : AddressOf(a)' = AddressOf(a)
  BY <1>2, <1>3 DEF AddressOf
<1>5. \A b \in InUse : Solid(b) => Solid(b)' /\ data'[b] = data[b] /\ Room(b)' = Room(b)
  BY DEF Solid, Room
<1>6. \A b \in InUse : Solid(b)' => Solid(b)
  BY DEF Solid
<1>7. ASSUME NEW a \in InUse, Solid(a)' PROVE Founded(a)'
  <2>1. Solid(a) /\ Founded(a) /\ data'[a] = data[a]
    BY <1>5, <1>6, <1>7 DEF FrozenInv
  <2>2. CASE data[a] = 0
    BY <2>1, <2>2 DEF Founded
  <2>3. ASSUME NEW b \in InUse, Solid(b), data[b] + Room(b) = data[a] PROVE Founded(a)'
    <3>1. Solid(b)' /\ data'[b] + Room(b)' = data'[a] /\ b \in InUse'
      BY <1>1, <1>5, <2>1, <2>3
    <3>2. QED
      BY <3>1 DEF Founded
  <2>4. QED
    BY <2>1, <2>2, <2>3 DEF Founded
<1>8. \A a, b \in InUse : frozen[a] => (frozen[b] <=> b[1] = a[1])
  BY DEF FrozenInv
<1>9. FrozenInv'
  BY <1>1, <1>7, <1>8 DEF FrozenInv
<1>10. QED
  BY <1>2, <1>4, <1>9

-----------------------------------------------------------------------------
(***************************************************************************)
(* The steps of the promise.                                               *)
(***************************************************************************)
Promises == [Promise!Next]_Promise!vars

SameFrozen == FrozenArrays' = FrozenArrays /\ \A a \in Array : AddressOf(a)' = AddressOf(a)

LEMMA PromiseStutter ==
  ASSUME SameFrozen, \A a \in Array : ValueOf(a)' = ValueOf(a)
  PROVE  Promises
<1>1. [a \in Array |-> ValueOf(a)]' = [a \in Array |-> ValueOf(a)]
  OBVIOUS
<1>2. [a \in Array |-> AddressOf(a)]' = [a \in Array |-> AddressOf(a)]
  BY DEF SameFrozen
<1>3. QED
  BY <1>1, <1>2 DEF SameFrozen, Promises, Promise!vars

LEMMA PromiseSet ==
  ASSUME SameFrozen, NEW a \in Array, a \notin FrozenArrays,
         ValueOf(a)' \in Value \cup {NoValue},
         \A b \in Array \ {a} : ValueOf(b)' = ValueOf(b)
  PROVE  Promises
<1>1. [b \in Array |-> AddressOf(b)]' = [b \in Array |-> AddressOf(b)]
  BY DEF SameFrozen
<1>2. [b \in Array |-> ValueOf(b)]'[a] = ValueOf(a)'
  OBVIOUS
<1>3. \A b \in Array \ {a} : [c \in Array |-> ValueOf(c)]'[b] = [c \in Array |-> ValueOf(c)][b]
  OBVIOUS
<1>4. Promise!Set(a)
  BY <1>1, <1>2, <1>3 DEF SameFrozen, Promise!Set
<1>5. QED
  BY <1>4 DEF Promises, Promise!Next

LEMMA PromiseFreeze ==
  ASSUME NEW c \in Array, \A a \in FrozenArrays : a[1] # c[1],
         FrozenArrays' = FrozenArrays \cup {a \in Array : a[1] = c[1]},
         \A a \in Array : a[1] # c[1] => AddressOf(a)' = AddressOf(a),
         \A a \in Array : ValueOf(a)' = ValueOf(a)
  PROVE  Promises
<1> DEFINE group == [a \in Array |-> a[1]]
<1>1. [a \in Array |-> ValueOf(a)]' = [a \in Array |-> ValueOf(a)]
  OBVIOUS
<1>2. \A a \in Array : group[a] = a[1]
  OBVIOUS
<1>3. FrozenArrays \subseteq Array
  BY DEF FrozenArrays
<1>4. \A a \in Array : [b \in Array |-> AddressOf(b)]'[a] = AddressOf(a)' /\ [b \in Array |-> AddressOf(b)][a] = AddressOf(a)
  OBVIOUS
<1>5. {a \in Array : group[a] = group[c]} = {a \in Array : a[1] = c[1]}
  BY <1>2
<1> HIDE DEF group
<1>6. \A a \in FrozenArrays : group[a] # group[c]
  BY <1>2, <1>3
<1>7. \A a \in Array : group[a] # group[c] => [b \in Array |-> AddressOf(b)]'[a] = [b \in Array |-> AddressOf(b)][a]
  BY <1>2, <1>4
<1>8. Promise!Freeze(group[c])
  BY <1>1, <1>5, <1>6, <1>7 DEF Promise!Freeze, group
<1>9. QED
  BY <1>8 DEF Promises, Promise!Next, group

LEMMA PromiseClear ==
  ASSUME NEW c \in Array,
         FrozenArrays' = {a \in FrozenArrays : a[1] # c[1]},
         \A a \in Array : ValueOf(a)' = IF a[1] = c[1] THEN NoValue ELSE ValueOf(a),
         \A a \in Array : AddressOf(a)' = IF a[1] = c[1] THEN Null ELSE AddressOf(a)
  PROVE  Promises
<1> DEFINE group == [a \in Array |-> a[1]]
           shown == [a \in Array |-> ValueOf(a)]
           place == [a \in Array |-> AddressOf(a)]
<1>1. FrozenArrays \subseteq Array
  BY DEF FrozenArrays
<1>2. \A a \in Array : group[a] = a[1] /\ shown[a] = ValueOf(a) /\ place[a] = AddressOf(a)
  OBVIOUS
<1>3. \A a \in Array : shown'[a] = ValueOf(a)' /\ place'[a] = AddressOf(a)'
  OBVIOUS
<1>4. shown' = [a \in Array |-> IF group[a] = group[c] THEN NoValue ELSE shown[a]]
  BY <1>2, <1>3
<1>5. place' = [a \in Array |-> IF group[a] = group[c] THEN Null ELSE place[a]]
  BY <1>2, <1>3
<1>6. FrozenArrays' = {a \in FrozenArrays : group[a] # group[c]}
  BY <1>1, <1>2
<1>7. Promise!Clear(group[c])
  BY <1>4, <1>5, <1>6 DEF Promise!Clear
<1>8. QED
  BY <1>7 DEF Promises, Promise!Next

-----------------------------------------------------------------------------
(***************************************************************************)
(* Each step of the store is one of the promise, or none that it sees.     *)
(***************************************************************************)
LEMMA Layout ==
  ASSUME StoreInv, \A a \in InUse : ~Writing(a)
  PROVE  HeapTypes /\ Packed
<1>1. HeapTypes
  BY DEF HeapTypes, StoreInv, StoreTypeOK
<1>2. \A a \in InUse : Extent(a) = Room(a) /\ (size[a] > 0 => Extent(a) > 0)
  <2> TAKE a \in InUse
  <2>1. size[a] \in Nat
    BY InUseFinite, HeapAssumption DEF StoreInv, StoreTypeOK
  <2>2. Room(a) \in Nat /\ Room(a) >= size[a]
    BY <2>1, Aligned DEF Room
  <2>3. QED
    BY <2>1, <2>2 DEF Extent
<1>3. Packed
  BY <1>2 DEF Packed, StoreInv, LayoutInv
<1>4. QED
  BY <1>1, <1>3

\* A step in which no frozen array's group comes or goes, and threads leave arrays but the one of
\* one of them alone
LEMMA ThreadPromises ==
  ASSUME PromiseInv, StoreInv', InUse' = InUse, NEW t \in Thread, NEW a \in InUse, ~frozen[a],
         groups' = groups, frozen' = frozen,
         op'[t].pc # "idle" => op'[t].array = a,
         op[t].pc = "write" => op[t].array = a,
         \A u \in Thread \ {t} : op'[u] = op[u],
         \A b \in InUse \ {a} : Keeps(b),
         Valued(a)',
         \A b \in InUse : frozen[b] => size'[b] = size[b] /\ (size[b] > 0 => data'[b] = data[b])
  PROVE  PromiseInv' /\ Promises
<1>1. /\ a \in Array /\ InUse \subseteq Array
      /\ \A b \in Array : size[b] \in Nat /\ size'[b] \in Nat
  BY InUseFinite, HeapAssumption DEF PromiseInv, StoreInv, StoreTypeOK
<1>2. FrozenInv' /\ SameFrozen
  BY FrozenSteady DEF PromiseInv, SameFrozen
<1>3. ASSUME NEW b \in InUse \ {a} PROVE Valued(b)' /\ ValueOf(b)' = ValueOf(b)
  <2>1. Writing(b) => Writing(b)'
    <3> SUFFICES ASSUME NEW u \in Thread, op[u].pc = "write", op[u].array = b PROVE Writing(b)'
      BY DEF Writing
    <3>1. op'[u] = op[u]
      BY <1>3
    <3>2. QED
      BY <3>1 DEF Writing
  <2>2. b \in InUse /\ b \in InUse' /\ size[b] \in Nat /\ Valued(b) /\ Keeps(b)
    BY <1>1, <1>3 DEF PromiseInv, ValuesInv
  <2>3. QED
    BY <2>1, <2>2, ValueKept
<1>4. \A b \in Array \ {a} : ValueOf(b)' = ValueOf(b)
  BY <1>3, ValueIs, ValueIsNext
<1>5. ValuesInv'
  BY <1>3 DEF ValuesInv
<1>6. ValueOf(a)' \in Value \cup {NoValue}
  BY <1>1, ValuePossible
<1>7. BusyInv'
  <2> SUFFICES ASSUME NEW u \in Thread, op'[u].pc # "idle" PROVE ~frozen'[op'[u].array]
    BY DEF BusyInv
  <2>1. CASE u = t
    BY <2>1
  <2>2. CASE u # t
    BY <2>2 DEF PromiseInv, BusyInv
  <2>3. QED
    BY <2>1, <2>2
<1>8. Promises
  <2>1. a \notin FrozenArrays
    BY DEF FrozenArrays
  <2>2. QED
    BY <1>1, <1>2, <1>4, <1>6, <2>1, PromiseSet
<1>9. QED
  BY <1>2, <1>5, <1>7, <1>8 DEF PromiseInv

\* What a step of set does to the array it is for, and to frozen ones
LEMMA StoreShows ==
  ASSUME PromiseInv, NEW t \in Thread, Store(t), NEW a, a = op[t].array
  PROVE  /\ (\A b \in InUse : Keeps(b)) \/ Writing(a)' \/ size'[a] = 0
         /\ \A b \in InUse : frozen[b] => size'[b] = size[b] /\ (size[b] > 0 => data'[b] = data[b])
<1> USE DEF PromiseInv
<1>1. op[t].pc # "idle" /\ op[t].pc # "read"
  BY StoreKeeps
<1>2. op[t] \in Calls /\ a \in Array /\ op \in [Thread -> {Idle} \cup Calls]
  <2>1. op[t] \in Calls
    BY <1>1, OpIs DEF StoreInv
  <2>2. QED
    BY <2>1 DEF StoreInv, StoreTypeOK, Calls, PCs
<1>3. ~frozen[a] /\ InUse \subseteq Array
  BY <1>1, InUseFinite DEF BusyInv
<1>4. size \in [Array -> 0 .. HeapSize] /\ data \in [Array -> Null .. HeapSize]
  BY DEF StoreInv, StoreTypeOK
<1>5. UNCHANGED storage => \A b \in InUse : size'[b] = size[b] /\ data'[b] = data[b]
  BY DEF storage
<1>6. ASSUME Goto(t, "write") PROVE Writing(a)'
  <2>1. op'[t].pc = "write" /\ op'[t].array = a
    BY <1>2, <1>6 DEF Goto, Calls
  <2>2. QED
    BY <2>1 DEF Writing
<1>7. CASE SetInPlace(t)
  BY <1>5, <1>6, <1>7 DEF SetInPlace
<1>8. CASE Deallocate(t)
  <2>1. size' = [size EXCEPT ![a] = 0] /\ data' = [data EXCEPT ![a] = Null]
    BY <1>8 DEF Deallocate
  <2>2. size'[a] = 0 /\ \A b \in Array \ {a} : size'[b] = size[b] /\ data'[b] = data[b]
    BY <1>2, <1>4, <2>1
  <2>3. QED
    BY <1>3, <2>2
<1>9. CASE LockHeap(t)
  BY <1>5, <1>9, LockHeapKeeps, <1>3 DEF LockHeap
<1>10. CASE GrabArray(t)
  BY <1>5, <1>10, GrabArrayKeeps, <1>3 DEF GrabArray
<1>11. CASE CollectAll(t)
  <2>1. Collect /\ size' = size /\ Held(t) = InUse /\ op[t].pc = "grab"
    BY <1>11 DEF CollectAll, At
  <2>2. \A b \in InUse : ~Writing(b)
    <3> SUFFICES ASSUME NEW b \in InUse, NEW u \in Thread, op[u].pc = "write", op[u].array = b PROVE FALSE
      BY DEF Writing
    <3>1. array_lock[b] = t /\ array_lock[b] = u
      BY <2>1 DEF Held, StoreInv, LockInv, ThreadLocks
    <3>2. QED
      BY <2>1, <3>1
  <2>3. HeapTypes /\ Packed
    BY <2>2, Layout
  <2>4. \A b \in InUse : Solid(b) => data'[b] = data[b]
    BY <2>1, <2>3, SolidStays DEF FrozenInv
  <2>5. QED
    BY <1>11, <2>1, <2>4, CollectAllKeeps DEF Solid
<1>12. CASE ReleaseArray(t)
  BY <1>5, <1>12, ReleaseArrayKeeps, <1>3 DEF ReleaseArray
<1>13. CASE CheckSpace(t)
  BY <1>5, <1>13, CheckSpaceKeeps, <1>3 DEF CheckSpace
<1>14. CASE Allocate(t)
  <2>1. data' = [data EXCEPT ![a] = heap_next] /\ size' = size /\ Goto(t, "write")
    BY <1>14 DEF Allocate
  <2>2. \A b \in Array \ {a} : data'[b] = data[b]
    BY <1>4, <2>1
  <2>3. QED
    BY <1>3, <1>6, <2>1, <2>2
<1>15. QED
  BY <1>7, <1>8, <1>9, <1>10, <1>11, <1>12, <1>13, <1>14 DEF Store

LEMMA StorePromises ==
  ASSUME PromiseInv, NEW t \in Thread, Store(t)
  PROVE  PromiseInv' /\ Promises
<1> DEFINE a == op[t].array
<1>1. /\ StoreInv' /\ InUse' = InUse /\ groups' = groups /\ frozen' = frozen
      /\ op[t].pc # "idle" /\ op[t].pc # "write" /\ op'[t].array = op[t].array
      /\ \A u \in Thread \ {t} : op'[u] = op[u]
      /\ \A b \in InUse \ {op[t].array} : Keeps(b)
  BY StoreKeeps DEF PromiseInv
<1>2. a \in InUse /\ ~frozen[a]
  BY <1>1 DEF PromiseInv, BusyInv, StoreInv, LockInv, ThreadLocks
<1>3. PICK c \in InUse : c = op[t].array
  BY <1>2
<1>4. /\ (\A b \in InUse : Keeps(b)) \/ Writing(c)' \/ size'[c] = 0
      /\ \A b \in InUse : frozen[b] => size'[b] = size[b] /\ (size[b] > 0 => data'[b] = data[b])
  BY <1>3, StoreShows
<1> HIDE DEF a
<1>5. Valued(c)'
  <2>1. CASE \A b \in InUse : Keeps(b)
    <3>1. size[c] \in Nat
      BY InUseFinite, HeapAssumption DEF PromiseInv, StoreInv, StoreTypeOK
    <3>2. Writing(c) => Writing(c)'
      <4> SUFFICES ASSUME NEW u \in Thread, op[u].pc = "write", op[u].array = c PROVE Writing(c)'
        BY DEF Writing
      <4>1. op'[u] = op[u]
        BY <1>1
      <4>2. QED
        BY <4>1 DEF Writing
    <3>3. Valued(c) /\ Keeps(c) /\ c \in InUse'
      BY <1>1, <2>1 DEF PromiseInv, ValuesInv
    <3>4. QED
      BY <3>1, <3>2, <3>3, ValueKept
  <2>2. CASE Writing(c)' \/ size'[c] = 0
    BY <2>2 DEF Valued
  <2>3. QED
    BY <1>4, <2>1, <2>2
<1>6. QED
  BY <1>1, <1>2, <1>3, <1>4, <1>5, ThreadPromises DEF a

LEMMA BeginPromises ==
  ASSUME PromiseInv, NEW t \in Thread, NEW a \in InUse, NEW v \in Value, Begin(t, a, v)
  PROVE  PromiseInv' /\ Promises
<1> DEFINE call == [pc |-> "set", array |-> a, value |-> v]
<1>1. /\ op[t].pc = "idle" /\ ~died /\ Lock(t, a) /\ ~frozen[a] /\ op' = [op EXCEPT ![t] = call]
      /\ UNCHANGED <<storage, heap_lock>> /\ died' \in BOOLEAN
      /\ groups' = groups /\ frozen' = frozen /\ size' = size /\ data' = data
  BY DEF Begin, At, storage, PromiseInv, StoreInv, StoreTypeOK
<1>2. StoreInv' /\ InUse' = InUse /\ \A b \in Array : Keeps(b)
  BY <1>1, LockKeeps DEF PromiseInv
<1>3. /\ op'[t].pc = "set" /\ op'[t].array = a
      /\ \A u \in Thread \ {t} : op'[u] = op[u]
  <2>1. call.pc = "set" /\ call.array = a
    OBVIOUS
  <2> HIDE DEF call
  <2>2. op'[t] = call /\ \A u \in Thread \ {t} : op'[u] = op[u]
    BY <1>1 DEF PromiseInv, StoreInv, StoreTypeOK
  <2>3. QED
    BY <2>1, <2>2
<1>4. a \in Array /\ InUse \subseteq Array /\ size[a] \in Nat
  BY InUseFinite, HeapAssumption DEF PromiseInv, StoreInv, StoreTypeOK
<1>5. Valued(a)'
  <2>1. Writing(a) => Writing(a)'
    <3> SUFFICES ASSUME NEW u \in Thread, op[u].pc = "write", op[u].array = a PROVE Writing(a)'
      BY DEF Writing
    <3>1. op'[u] = op[u]
      BY <1>1, <1>3
    <3>2. QED
      BY <3>1 DEF Writing
  <2>2. Valued(a) /\ Keeps(a) /\ a \in InUse'
    BY <1>2, <1>4 DEF PromiseInv, ValuesInv
  <2>3. QED
    BY <1>4, <2>1, <2>2, ValueKept
<1>6. QED
  BY <1>1, <1>2, <1>3, <1>4, <1>5, ThreadPromises

LEMMA EndPromises ==
  ASSUME PromiseInv, NEW t \in Thread, End(t)
  PROVE  PromiseInv' /\ Promises
<1>1. /\ op[t].pc = "write" /\ Write(t) /\ op' = [op EXCEPT ![t] = Idle]
      /\ groups' = groups /\ frozen' = frozen /\ data' = data
      /\ size' = [size EXCEPT ![op[t].array] = SizeOf[op[t].value]]
  BY DEF End, Write, At
<1>2. op[t].pc # "idle" /\ Idle.pc = "idle"
  BY <1>1 DEF Idle
<1>3. op[t] \in Calls /\ op[t].array \in InUse /\ ~frozen[op[t].array]
  BY <1>2, OpIs DEF PromiseInv, BusyInv, StoreInv, LockInv, ThreadLocks
<1>4. PICK a \in InUse : a = op[t].array
  BY <1>3
<1>5. PICK v \in Value : v = op[t].value
  BY <1>3 DEF Calls
<1>6. /\ StoreInv' /\ InUse' = InUse
      /\ \A b \in InUse \ {a} : Keeps(b)
      /\ Holds(a, v)'
  BY <1>1, <1>4, <1>5, WriteKeeps DEF PromiseInv
<1>7. op'[t].pc = "idle" /\ \A u \in Thread \ {t} : op'[u] = op[u]
  BY <1>1, <1>2 DEF PromiseInv, StoreInv, StoreTypeOK
<1>8. Valued(a)'
  BY <1>6 DEF Valued
<1>9. \A b \in InUse : frozen[b] => size'[b] = size[b] /\ data'[b] = data[b]
  BY <1>1, <1>3, InUseFinite DEF PromiseInv, StoreInv, StoreTypeOK
<1>10. QED
  BY <1>1, <1>3, <1>4, <1>6, <1>7, <1>8, <1>9, ThreadPromises

\* The values of arrays whose group stays, while all threads are idle
LEMMA QuietValues ==
  ASSUME PromiseInv, Quiet, \A a \in InUse \cap InUse' : Keeps(a)
  PROVE  \A a \in InUse \cap InUse' : Valued(a)' /\ ValueOf(a)' = ValueOf(a)
<1> TAKE a \in InUse \cap InUse'
<1>1. a \in Array /\ size[a] \in Nat /\ Valued(a) /\ Keeps(a)
  BY InUseFinite, HeapAssumption DEF PromiseInv, ValuesInv, StoreInv, StoreTypeOK
<1>2. ~Writing(a)
  BY <1>1, QuietIs DEF PromiseInv
<1>3. QED
  BY <1>1, <1>2, ValueKept

LEMMA QuietBusy ==
  ASSUME StoreInv, Quiet, op' = op
  PROVE  BusyInv'
BY QuietIs DEF BusyInv

LEMMA AllocateGroupPromises ==
  ASSUME PromiseInv, NEW g \in Group, AllocateGroup(g)
  PROVE  PromiseInv' /\ Promises
<1>1. /\ Quiet /\ g \notin groups /\ groups' = groups \cup {g} /\ op' = op
      /\ size' = [a \in Array |-> IF a[1] = g THEN 0 ELSE size[a]]
      /\ data' = [a \in Array |-> IF a[1] = g THEN Null ELSE data[a]]
      /\ frozen' = [a \in Array |-> frozen[a] /\ a[1] # g]
  BY DEF AllocateGroup
<1>2. /\ StoreInv' /\ \A b \in InUse : b \in InUse' /\ Keeps(b)
      /\ \A b \in InUse' \ InUse : size'[b] = 0
  BY AllocateGroupKeeps DEF PromiseInv
<1>3. \A a \in InUse : Valued(a)' /\ ValueOf(a)' = ValueOf(a)
  BY <1>1, <1>2, QuietValues
<1>4. \A a \in Array : ValueOf(a)' = ValueOf(a)
  <2> TAKE a \in Array
  <2>1. CASE a \in InUse
    BY <1>3, <2>1
  <2>2. CASE a \notin InUse
    BY <1>2, <2>2, ValueIs, ValueIsNext
  <2>3. QED
    BY <2>1, <2>2
<1>5. ValuesInv'
  <2> SUFFICES ASSUME NEW a \in InUse' PROVE Valued(a)'
    BY DEF ValuesInv
  <2>1. a \notin InUse => Valued(a)'
    BY <1>2 DEF Valued
  <2>2. QED
    BY <1>3, <2>1
<1>6. /\ \A a \in InUse : a \in Array /\ a[1] # g
      /\ \A a \in InUse' : a \in Array /\ (a \in InUse <=> a[1] # g)
  BY <1>1 DEF InUse, Members
<1>7. /\ \A a \in InUse : frozen'[a] = frozen[a] /\ size'[a] = size[a] /\ data'[a] = data[a]
      /\ \A a \in InUse' : a \notin InUse => ~frozen'[a]
  BY <1>1, <1>6 DEF PromiseInv, StoreInv, StoreTypeOK
<1>8. FrozenArrays' = FrozenArrays
  <2>1. \A a \in Array : a[1] \in groups' /\ frozen'[a] <=> a[1] \in groups /\ frozen[a]
    BY <1>1
  <2>2. QED
    BY <2>1 DEF FrozenArrays
<1>9. SameFrozen
  <2>1. \A a \in FrozenArrays : size'[a] = size[a] /\ data'[a] = data[a]
    BY <1>1 DEF FrozenArrays
  <2>2. QED
    BY <1>8, <2>1 DEF SameFrozen, AddressOf
<1>10. FrozenInv'
  <2>1. \A a, b \in InUse' : frozen'[a] => (frozen'[b] <=> b[1] = a[1])
    BY <1>6, <1>7 DEF PromiseInv, FrozenInv
  <2>2. \A a \in InUse : Solid(a)' <=> Solid(a)
    BY <1>7 DEF Solid
  <2>3. ASSUME NEW a \in InUse', Solid(a)' PROVE Founded(a)'
    <3>1. a \in InUse /\ Solid(a) /\ Founded(a) /\ data'[a] = data[a]
      BY <1>7, <2>2, <2>3 DEF PromiseInv, FrozenInv, Solid
    <3>2. ASSUME NEW b \in InUse, Solid(b), data[b] + Room(b) = data[a] PROVE Founded(a)'
      <4>1. b \in InUse' /\ Solid(b)' /\ data'[b] + Room(b)' = data'[a]
        BY <1>2, <1>7, <2>2, <3>1, <3>2 DEF Room
      <4>2. QED
        BY <4>1 DEF Founded
    <3>3. QED
      BY <3>1, <3>2 DEF Founded
  <2>4. QED
    BY <2>1, <2>3 DEF FrozenInv
<1>11. BusyInv'
  BY <1>1, QuietBusy DEF PromiseInv
<1>12. QED
  BY <1>2, <1>4, <1>5, <1>9, <1>10, <1>11, PromiseStutter DEF PromiseInv

LEMMA ClearGroupPromises ==
  ASSUME PromiseInv, NEW g \in Group, ClearGroup(g)
  PROVE  PromiseInv' /\ Promises
<1>1. /\ Quiet /\ groups' = groups \ {g}
      /\ op' = op /\ size' = size /\ data' = data /\ frozen' = frozen
  BY DEF ClearGroup
<1>2. StoreInv' /\ InUse' \subseteq InUse /\ \A b \in InUse : Keeps(b)
  BY ClearGroupKeeps DEF PromiseInv
<1>3. \A a \in InUse' : Valued(a)' /\ ValueOf(a)' = ValueOf(a)
  BY <1>1, <1>2, QuietValues
<1>4. /\ \A a \in InUse : a \in Array /\ (a \in InUse' <=> a[1] # g)
      /\ \A a \in Array : a[1] = g => a \notin InUse'
  BY <1>1 DEF InUse, Members
<1>5. \A a \in Array : ValueOf(a)' = IF a[1] = g THEN NoValue ELSE ValueOf(a)
  <2> TAKE a \in Array
  <2>1. CASE a \in InUse'
    BY <1>3, <1>4, <2>1
  <2>2. CASE a \notin InUse'
    BY <1>4, <2>2, ValueIs, ValueIsNext
  <2>3. QED
    BY <2>1, <2>2
<1>6. FrozenArrays' = {a \in FrozenArrays : a[1] # g}
  <2>1. \A a \in Array : a[1] \in groups' <=> a[1] \in groups /\ a[1] # g
    BY <1>1
  <2>2. QED
    BY <1>1, <2>1 DEF FrozenArrays
<1>7. \A a \in Array : AddressOf(a)' = IF a[1] = g THEN Null ELSE AddressOf(a)
  BY <1>1, <1>6 DEF AddressOf
<1>8. FrozenInv'
  <2>1. \A a, b \in InUse' : frozen'[a] => (frozen'[b] <=> b[1] = a[1])
    BY <1>1, <1>2 DEF PromiseInv, FrozenInv
  <2>2. \A a \in InUse : Solid(a)' <=> Solid(a)
    BY <1>1 DEF Solid
  <2>3. ASSUME NEW a \in InUse', Solid(a)' PROVE Founded(a)'
    <3>1. a \in InUse /\ Solid(a) /\ Founded(a) /\ a[1] # g
      BY <1>2, <1>4, <2>2, <2>3 DEF PromiseInv, FrozenInv
    <3>2. ASSUME NEW b \in InUse, Solid(b), data[b] + Room(b) = data[a] PROVE Founded(a)'
      <4>1. b[1] = a[1]
        BY <3>1, <3>2 DEF PromiseInv, FrozenInv, Solid
      <4>2. b \in InUse' /\ Solid(b)' /\ data'[b] + Room(b)' = data'[a]
        BY <1>1, <1>4, <2>2, <3>1, <3>2, <4>1 DEF Room
      <4>3. QED
        BY <4>2 DEF Founded
    <3>3. QED
      BY <1>1, <3>1, <3>2 DEF Founded
  <2>4. QED
    BY <2>1, <2>3 DEF FrozenInv
<1>9. ValuesInv' /\ BusyInv'
  BY <1>1, <1>3, QuietBusy DEF ValuesInv, PromiseInv
<1>10. Promises
  <2>1. CASE \E c \in Array : c[1] = g
    <3>1. PICK c \in Array : c[1] = g
      BY <2>1
    <3>2. QED
      BY <1>5, <1>6, <1>7, <3>1, PromiseClear
  <2>2. CASE \A c \in Array : c[1] # g
    <3>1. FrozenArrays' = FrozenArrays
      BY <1>6, <2>2 DEF FrozenArrays
    <3>2. QED
      BY <1>5, <1>7, <2>2, <3>1, PromiseStutter DEF SameFrozen
  <2>3. QED
    BY <2>1, <2>2
<1>11. QED
  BY <1>2, <1>8, <1>9, <1>10 DEF PromiseInv

LEMMA FreezePromises ==
  ASSUME PromiseInv, NEW g \in Group, Freeze(g)
  PROVE  PromiseInv' /\ Promises
<1>1. /\ Quiet /\ groups = {g} /\ groups' = groups /\ Collect /\ size' = size /\ op' = op
      /\ frozen' = [a \in Array |-> frozen[a] \/ a[1] = g]
  BY DEF Freeze
<1>2. StoreInv' /\ InUse' = InUse /\ \A b \in InUse : Keeps(b)
  BY FreezeKeeps DEF PromiseInv
<1>3. \A a \in InUse : Valued(a)' /\ ValueOf(a)' = ValueOf(a)
  BY <1>1, <1>2, QuietValues
<1>4. \A a \in Array : ValueOf(a)' = ValueOf(a)
  BY <1>2, <1>3, ValueIs, ValueIsNext
<1>5. \A a \in Array : a \in InUse <=> a[1] = g
  BY <1>1, InUseIs
<1>6. \A a \in InUse : a \in Array /\ a[1] = g /\ frozen'[a]
  BY <1>1, <1>5, InUseFinite
<1>7. HeapTypes /\ Packed
  BY <1>1, InUseFinite, QuietIs, Layout DEF PromiseInv
<1>8. FrozenInv'
  <2>1. \A a, b \in InUse' : frozen'[a] => (frozen'[b] <=> b[1] = a[1])
    BY <1>2, <1>6
  <2>2. \A a \in InUse : data'[a] = 0 \/ \E b \in InUse : size[b] > 0 /\ data'[b] + Room(b) = data'[a]
    BY <1>1, <1>7, NoGaps
  <2>3. \A b \in InUse : b \in InUse' /\ (size[b] > 0 => Solid(b)') /\ Room(b)' = Room(b)
    BY <1>1, <1>2, <1>6 DEF Solid, Room
  <2>4. \A a \in InUse : Founded(a)'
    BY <2>2, <2>3 DEF Founded
  <2>5. QED
    BY <1>2, <2>1, <2>4 DEF FrozenInv
<1>9. ValuesInv' /\ BusyInv'
  BY <1>1, <1>2, <1>3, QuietBusy DEF ValuesInv, PromiseInv
<1>10. FrozenArrays = {a \in InUse : frozen[a]} /\ FrozenArrays' = InUse
  BY <1>1, <1>5, <1>6 DEF FrozenArrays
<1>11. Promises
  <2>1. CASE \E c \in InUse : frozen[c]
    <3>1. \A a \in InUse : frozen[a]
      BY <1>6, <2>1 DEF PromiseInv, FrozenInv
    <3>2. FrozenArrays' = FrozenArrays
      BY <1>10, <3>1
    <3>3. \A a \in InUse : Solid(a) => data'[a] = data[a]
      BY <1>1, <1>7, SolidStays DEF PromiseInv, FrozenInv
    <3>4. \A a \in InUse : size[a] > 0 => data'[a] = data[a]
      BY <3>1, <3>3 DEF Solid
    <3>5. \A a \in Array : AddressOf(a)' = AddressOf(a)
      BY <1>1, <1>10, <3>2, <3>4 DEF AddressOf
    <3>6. QED
      BY <1>4, <3>2, <3>5, PromiseStutter DEF SameFrozen
  <2>2. CASE InUse # {} /\ \A c \in InUse : ~frozen[c]
    <3>1. PICK c \in InUse : TRUE
      BY <2>2
    <3>2. FrozenArrays = {}
      BY <1>10, <2>2
    <3>3. c \in Array /\ c[1] = g
      BY <1>6
    <3>4. FrozenArrays' = FrozenArrays \cup {a \in Array : a[1] = c[1]}
      BY <1>5, <1>6, <1>10, <3>2, <3>3
    <3>5. \A a \in Array : a[1] # c[1] => AddressOf(a)' = AddressOf(a)
      BY <1>5, <1>10, <3>2, <3>3 DEF AddressOf
    <3>6. QED
      BY <1>4, <3>2, <3>3, <3>4, <3>5, PromiseFreeze
  <2>3. CASE InUse = {}
    <3>1. FrozenArrays = {} /\ FrozenArrays' = {}
      BY <1>10, <2>3
    <3>2. SameFrozen
      BY <3>1 DEF SameFrozen, AddressOf
    <3>3. QED
      BY <1>4, <3>2, PromiseStutter
  <2>4. QED
    BY <2>1, <2>2, <2>3
<1>12. QED
  BY <1>2, <1>8, <1>9, <1>11 DEF PromiseInv

-----------------------------------------------------------------------------
LEMMA InitPromise == StoreInit => PromiseInv /\ Promise!Init
<1> SUFFICES ASSUME StoreInit PROVE PromiseInv /\ Promise!Init
  OBVIOUS
<1>1. StoreInv /\ InUse = {}
  BY InitStoreInv
<1>2. BusyInv /\ ValuesInv /\ FrozenInv
  BY <1>1 DEF StoreInit, Idle, BusyInv, ValuesInv, FrozenInv
<1>3. \A a \in Array : ValueOf(a) = NoValue
  BY <1>1, ValueIs
<1>4. FrozenArrays = {}
  BY DEF FrozenArrays, StoreInit
<1>5. \A a \in Array : AddressOf(a) = Null
  BY <1>4 DEF AddressOf
<1>6. Promise!Init
  BY <1>3, <1>4, <1>5 DEF Promise!Init
<1>7. QED
  BY <1>1, <1>2, <1>6 DEF PromiseInv

\* Every step of the store keeps the invariant and is a step of ArrayStore, or one it does not see
LEMMA NextPromises == PromiseInv /\ [StoreNext]_storevars => PromiseInv' /\ Promises
<1> SUFFICES ASSUME PromiseInv, [StoreNext]_storevars PROVE PromiseInv' /\ Promises
  OBVIOUS
<1>1. ASSUME NEW t \in Thread, Store(t) PROVE PromiseInv' /\ Promises
  BY <1>1, StorePromises
<1>2. ASSUME NEW t \in Thread, End(t) PROVE PromiseInv' /\ Promises
  BY <1>2, EndPromises
<1>3. ASSUME NEW t \in Thread, NEW a \in InUse, NEW v \in Value, Begin(t, a, v) PROVE PromiseInv' /\ Promises
  BY <1>3, BeginPromises
<1>4. ASSUME NEW g \in Group, AllocateGroup(g) \/ ClearGroup(g) \/ Freeze(g) PROVE PromiseInv' /\ Promises
  BY <1>4, AllocateGroupPromises, ClearGroupPromises, FreezePromises
<1>5. CASE UNCHANGED storevars
  <2>1. UNCHANGED <<groups, size, data, frozen, heap_next, heap, array_lock, heap_lock, op, died>>
    BY <1>5 DEF storevars, storage, locks
  <2>2. StoreInv'
    BY <2>1 DEF PromiseInv, StoreInv, StoreTypeOK, LockInv, ThreadLocks, ArrayLock, SpaceInv, Insufficient,
                LayoutInv, Extent, Writing, Room, InUse, Members
  <2>3. BusyInv' /\ ValuesInv' /\ FrozenInv'
    BY <2>1 DEF PromiseInv, BusyInv, ValuesInv, Valued, Holds, Writing, FrozenInv, Solid, Founded, Room,
                InUse, Members
  <2>4. FrozenArrays' = FrozenArrays
    BY <2>1 DEF FrozenArrays
  <2>5. SameFrozen
    BY <2>1, <2>4 DEF SameFrozen, AddressOf
  <2>6. \A a \in Array : ValueOf(a)' = ValueOf(a)
    BY <2>1 DEF ValueOf, Holds, Writing
  <2>7. QED
    BY <2>2, <2>3, <2>5, <2>6, PromiseStutter DEF PromiseInv
<1>6. QED
  BY <1>1, <1>2, <1>3, <1>4, <1>5 DEF StoreNext

\* However its client sets, allocates, freezes and frees, the store is an ArrayStore: no collection,
\* reallocation or concurrent set changes the value of another array, none is ever garbled, and a
\* frozen array keeps its place and its value until its group goes
THEOREM StoreKeepsValues == StoreSpec => KeepsValues
<1>1. StoreSpec => []PromiseInv
  <2>1. PromiseInv /\ [StoreNext]_storevars => PromiseInv'
    BY NextPromises
  <2>2. QED
    BY <2>1, InitPromise, PTL DEF StoreSpec
<1>2. PromiseInv /\ [StoreNext]_storevars => [Promise!Next]_Promise!vars
  BY NextPromises DEF Promises
<1>3. QED
  BY <1>1, <1>2, InitPromise, PTL DEF StoreSpec, KeepsValues, Promise!Spec

-----------------------------------------------------------------------------
(***************************************************************************)
(* A heap with room for every array never fills up, if it has room for one *)
(* more value or an array that is set gets memory from nobody else.        *)
(***************************************************************************)
Fits(m) ==
  /\ \A v \in Value : align_size(SizeOf[v]) <= m
  /\ Cardinality(Array) * m + MinFree <= HeapSize

Roomy(m) == Fits(m) /\ Cardinality(Array) * m + m <= HeapSize

LEMMA ArrayCount ==
  /\ Cardinality(Array) \in Nat
  /\ Cardinality(InUse) \in Nat /\ Cardinality(InUse) <= Cardinality(Array)
BY InUseFinite, ArraysFinite, FS_Subset, FS_CardinalityType

LEMMA RoomBound ==
  ASSUME PromiseInv, NEW m \in Nat, Fits(m), NEW a \in InUse, ~Writing(a)
  PROVE  Room(a) \in Nat /\ Room(a) <= m
<1>1. size[a] \in Nat
  BY InUseFinite, HeapAssumption DEF PromiseInv, StoreInv, StoreTypeOK
<1>2. CASE size[a] = 0
  BY <1>2, Aligned DEF Room
<1>3. CASE size[a] # 0
  <2>1. PICK v \in Value : size[a] = SizeOf[v]
    BY <1>3 DEF PromiseInv, ValuesInv, Valued, Holds
  <2>2. Room(a) <= m
    BY <2>1 DEF Room, Fits
  <2>3. QED
    BY <1>1, <2>2, Aligned DEF Room
<1>4. QED
  BY <1>2, <1>3

LEMMA EndBound ==
  ASSUME HeapTypes, Packed, Collect, NEW m \in Nat,
         \A a \in InUse : Room(a) \in Nat /\ Room(a) <= m
  PROVE  /\ heap_next' \in Nat /\ heap_next' <= Cardinality(Array) * m
         /\ (\E a \in InUse : Room(a) = 0) => heap_next' + m <= Cardinality(Array) * m
         /\ heap_next' + MinFree <= HeapSize =>
              (died' => \E a \in InUse : frozen[a] /\ data'[a] # data[a])
<1>1. PICK order \in Orders :
        LET slide == Slide(order)
            end == slide[Len(order)]
            place(a) == slide[IndexOf(order, a) - 1].target
        IN /\ data' = [a \in Array |-> IF a \in InUse THEN place(a) ELSE data[a]]
           /\ heap_next' = end.target
           /\ died' = \/ end.target + MinFree > HeapSize
                      \/ \E a \in InUse : frozen[a] /\ place(a) # data[a]
  BY DEF Collect
<1> DEFINE n == Len(order)
           T(k) == Slide(order)[k].target
<1>2. n \in Nat /\ n = Cardinality(InUse) /\ T(0) = 0 /\ heap_next' = T(n)
  BY <1>1, OrderIs, SlideIs
<1>3. \A k \in 1 .. n : T(k) = T(k - 1) + Room(order[k]) /\ order[k] \in InUse
  BY OrderIs, SlideIs DEF Room
<1>4. \A k \in 0 .. n : T(k) \in Nat
  BY SlidAll DEF Slid
<1>5. \A a \in InUse : data'[a] = Slide(order)[IndexOf(order, a) - 1].target
  BY <1>1, InUseFinite
<1>6. ASSUME heap_next' + MinFree <= HeapSize, died'
      PROVE  \E a \in InUse : frozen[a] /\ data'[a] # data[a]
  <2>1. heap_next' + MinFree > HeapSize \/ \E a \in InUse : frozen[a] /\ data'[a] # data[a]
    BY <1>1, <1>5, <1>6
  <2>2. ~(heap_next' + MinFree > HeapSize)
    BY <1>2, <1>4, <1>6, HeapAssumption
  <2>3. QED
    BY <2>1, <2>2
<1> HIDE DEF n, T
<1> DEFINE Bad == {k \in 0 .. n : ~(T(k) <= k * m)}
<1>7. Bad = {}
  <2> SUFFICES ASSUME Bad # {} PROVE FALSE
    OBVIOUS
  <2>1. Bad \in SUBSET Nat
    BY <1>2
  <2>2. PICK k \in Bad : \A i \in Bad : k <= i
    <3> HIDE DEF Bad
    <3> QED
      BY <2>1, LeastNatural
  <2>3. k # 0
    BY <1>2, <2>2
  <2>4. k \in 1 .. n /\ k - 1 \in 0 .. n /\ ~(k <= k - 1) /\ k \in Nat
    BY <1>2, <2>2, <2>3
  <2>5. T(k - 1) <= (k - 1) * m
    BY <2>2, <2>4
  <2>6. (k - 1) * m + m = k * m /\ (k - 1) * m \in Int /\ k * m \in Int
    BY <2>4
  <2>7. T(k) <= k * m
    <3>1. Room(order[k]) \in Nat /\ Room(order[k]) <= m /\ T(k) = T(k - 1) + Room(order[k])
      BY <1>3, <2>4
    <3>2. T(k) \in Nat /\ T(k - 1) \in Nat
      BY <1>4, <2>4
    <3> DEFINE x == (k - 1) * m
               y == k * m
    <3>3. x + m = y /\ x \in Int /\ y \in Int /\ T(k - 1) <= x
      BY <2>5, <2>6
    <3> HIDE DEF x, y
    <3>4. T(k) <= y
      BY <3>1, <3>2, <3>3
    <3>5. QED
      BY <3>4 DEF y
  <2>8. QED
    BY <2>2, <2>7
<1>8. T(n) \in Nat /\ T(n) <= n * m
  BY <1>2, <1>4, <1>7
<1>9. n * m <= Cardinality(Array) * m /\ n * m \in Int /\ Cardinality(Array) * m \in Int
  BY <1>2, ArrayCount
<1>10. ASSUME NEW i \in 1 .. n, Room(order[i]) = 0 PROVE T(n) + m <= n * m
  <2> DEFINE Worse == {k \in i .. n : ~(T(k) + m <= k * m)}
  <2> SUFFICES ASSUME Worse # {} PROVE FALSE
    BY <1>2
  <2>1. Worse \in SUBSET Nat
    BY <1>2
  <2>2. PICK k \in Worse : \A h \in Worse : k <= h
    <3> HIDE DEF Worse
    <3> QED
      BY <2>1, LeastNatural
  <2>3. k \in 1 .. n /\ k - 1 \in 0 .. n /\ k \in Nat /\ i <= k /\ ~(k <= k - 1)
    BY <1>2, <2>2
  <2> DEFINE x == (k - 1) * m
             y == k * m
  <2>4. x + m = y /\ x \in Int /\ y \in Int
    BY <2>3
  <2>5. /\ Room(order[k]) \in Nat /\ Room(order[k]) <= m /\ T(k) = T(k - 1) + Room(order[k])
        /\ T(k) \in Nat /\ T(k - 1) \in Nat /\ T(k - 1) <= x
    BY <1>3, <1>4, <1>7, <2>3
  <2>6. k # i => T(k - 1) + m <= x
    <3> SUFFICES ASSUME k # i PROVE T(k - 1) + m <= x
      OBVIOUS
    <3>1. k - 1 \in i .. n
      BY <1>2, <2>3
    <3>2. QED
      BY <2>2, <2>3, <3>1
  <2>7. ~(T(k) + m <= y)
    BY <2>2
  <2> HIDE DEF x, y, Worse
  <2>8. QED
    BY <1>10, <2>4, <2>5, <2>6, <2>7
<1>11. /\ heap_next' \in Nat /\ heap_next' <= Cardinality(Array) * m
       /\ (\E a \in InUse : Room(a) = 0) => heap_next' + m <= Cardinality(Array) * m
  <2> DEFINE x == n * m
             y == Cardinality(Array) * m
  <2>1. x <= y /\ x \in Int /\ y \in Int /\ T(n) <= x
    BY <1>8, <1>9
  <2>2. (\E a \in InUse : Room(a) = 0) => T(n) + m <= x
    <3> SUFFICES ASSUME NEW a \in InUse, Room(a) = 0 PROVE T(n) + m <= x
      OBVIOUS
    <3>1. IndexOf(order, a) \in 1 .. n /\ order[IndexOf(order, a)] = a
      BY OrderIs DEF n
    <3>2. QED
      BY <1>10, <3>1
  <2> HIDE DEF x, y
  <2>3. heap_next' \in Nat /\ heap_next' <= y
    BY <1>2, <1>8, <2>1
  <2>4. (\E a \in InUse : Room(a) = 0) => heap_next' + m <= y
    BY <1>2, <1>8, <2>1, <2>2
  <2>5. QED
    BY <2>3, <2>4 DEF y
<1>12. QED
  BY <1>6, <1>11

\* A collection leaves enough space, and moves no frozen array that holds a value
LEMMA CollectHasRoom ==
  ASSUME PromiseInv, NEW m \in Nat, Fits(m), Collect, \A a \in InUse : ~Writing(a)
  PROVE  /\ Roomy(m) \/ (\E a \in InUse : size[a] = 0) =>
              \A v \in Value : heap_next' + align_size(SizeOf[v]) <= HeapSize
         /\ died' => \E a \in InUse : frozen[a] /\ size[a] = 0 /\ data'[a] # data[a]
<1>1. HeapTypes /\ Packed
  BY Layout DEF PromiseInv
<1>2. \A a \in InUse : Room(a) \in Nat /\ Room(a) <= m
  BY RoomBound
<1>3. /\ heap_next' \in Nat /\ heap_next' <= Cardinality(Array) * m
      /\ (\E a \in InUse : Room(a) = 0) => heap_next' + m <= Cardinality(Array) * m
      /\ heap_next' + MinFree <= HeapSize =>
           (died' => \E a \in InUse : frozen[a] /\ data'[a] # data[a])
  BY <1>1, <1>2, EndBound
<1>4. PICK y \in Int, n \in Nat : y = Cardinality(Array) * m /\ n = heap_next'
  BY <1>3, ArrayCount
<1>5. n <= y /\ y + MinFree <= HeapSize
  BY <1>3, <1>4 DEF Fits
<1>6. (\E a \in InUse : size[a] = 0) => n + m <= y
  BY <1>3, <1>4, Aligned DEF Room
<1>7. HeapSize \in Nat /\ MinFree \in Nat
  BY HeapAssumption
<1>8. \A v \in Value : align_size(SizeOf[v]) \in Nat /\ align_size(SizeOf[v]) <= m
  BY HeapAssumption, Aligned DEF Fits
<1>9. Roomy(m) \/ (\E a \in InUse : size[a] = 0) =>
        \A v \in Value : n + align_size(SizeOf[v]) <= HeapSize
  <2> SUFFICES ASSUME Roomy(m) \/ (\E a \in InUse : size[a] = 0), NEW v \in Value
               PROVE  n + align_size(SizeOf[v]) <= HeapSize
    OBVIOUS
  <2>1. n + m <= HeapSize
    <3>1. CASE Roomy(m)
      <4>1. y + m <= HeapSize
        BY <1>4, <3>1 DEF Roomy
      <4>2. QED
        BY <1>5, <1>7, <4>1
    <3>2. CASE \E a \in InUse : size[a] = 0
      <4>1. n + m <= y
        BY <1>6, <3>2
      <4>2. QED
        BY <1>5, <1>7, <4>1
    <3>3. QED
      BY <3>1, <3>2
  <2>2. align_size(SizeOf[v]) \in Nat /\ align_size(SizeOf[v]) <= m
    BY <1>8
  <2>3. QED
    BY <1>7, <2>1, <2>2
<1>10. n + MinFree <= HeapSize
  BY <1>5, <1>7
<1>11. \A a \in InUse : Solid(a) => data'[a] = data[a]
  BY <1>1, SolidStays DEF PromiseInv, FrozenInv
<1>12. \A a \in InUse : size[a] \in Nat
  BY InUseFinite, HeapAssumption DEF PromiseInv, StoreInv, StoreTypeOK
<1>13. QED
  BY <1>3, <1>4, <1>9, <1>10, <1>11, <1>12 DEF Solid

\* A thread that collects needs the space, and has it afterwards
HeapInv ==
  \A t \in Thread : /\ op[t].pc = "grab" => Insufficient(t)
                    /\ op[t].pc = "release" => ~Insufficient(t)

LEMMA HeapKept ==
  ASSUME StoreInv, HeapInv, NEW t \in Thread, \A u \in Thread \ {t} : op'[u] = op[u],
         heap_next' = heap_next \/ heap_lock = t,
         op'[t].pc = "grab" => Insufficient(t)',
         op'[t].pc = "release" => ~Insufficient(t)'
  PROVE  HeapInv'
<1>1. ASSUME NEW u \in Thread \ {t}, op'[u].pc \in {"grab", "release"}
      PROVE  op'[u] = op[u] /\ (Insufficient(u)' <=> Insufficient(u))
  <2>1. op'[u] = op[u] /\ heap_lock = u
    BY <1>1 DEF StoreInv, LockInv, ThreadLocks
  <2>2. QED
    BY <1>1, <2>1 DEF Insufficient
<1>2. QED
  BY <1>1 DEF HeapInv

\* A step of set finds the space it needs; only a collection may die, for a frozen array that is empty
LEMMA StoreRoom ==
  ASSUME PromiseInv, HeapInv, NEW m \in Nat, Fits(m), NEW t \in Thread, Store(t),
         Roomy(m) \/ (op[t].pc = "grab" => size[op[t].array] = 0)
  PROVE  /\ HeapInv'
         /\ died' => CollectAll(t) /\ \E a \in InUse : frozen[a] /\ size[a] = 0 /\ data'[a] # data[a]
<1>1. /\ ~died /\ op[t].pc \notin {"idle", "read", "write"}
      /\ op'[t].value = op[t].value /\ \A u \in Thread \ {t} : op'[u] = op[u]
  <2>1. ~died
    BY DEF Store, SetInPlace, Deallocate, LockHeap, GrabArray, CollectAll, ReleaseArray, CheckSpace, Allocate, At
  <2>2. QED
    BY <2>1, StoreKeeps DEF PromiseInv
<1>2. op[t] \in Calls /\ StoreTypeOK
  BY <1>1, OpIs DEF PromiseInv, StoreInv
<1>3. \A pc \in PCs : Goto(t, pc) => op'[t].pc = pc
  BY <1>1, <1>2, Goes
<1>4. heap_next' = heap_next => (Insufficient(t)' <=> Insufficient(t))
  BY <1>1 DEF Insufficient
<1>5. StoreInv /\ (op[t].pc = "allocate" => heap_lock = t)
  BY DEF PromiseInv, StoreInv, LockInv, ThreadLocks
<1>6. CASE SetInPlace(t) \/ Deallocate(t)
  <2>1. ~died' /\ heap_next' = heap_next /\ op'[t].pc \in {"write", "heap"}
    BY <1>1, <1>3, <1>6 DEF SetInPlace, Deallocate, storage, PCs
  <2>2. QED
    BY <1>1, <1>5, <2>1, HeapKept
<1>7. CASE LockHeap(t)
  <2>1. ~died' /\ heap_next' = heap_next
    BY <1>1, <1>7 DEF LockHeap, storage
  <2>2. (Insufficient(t) /\ Goto(t, "grab")) \/ (~Insufficient(t) /\ Goto(t, "allocate"))
    BY <1>7 DEF LockHeap
  <2>3. (Insufficient(t) /\ op'[t].pc = "grab") \/ (~Insufficient(t) /\ op'[t].pc = "allocate")
    BY <1>3, <2>2 DEF PCs
  <2>4. QED
    BY <1>1, <1>4, <1>5, <2>1, <2>3, HeapKept
<1>8. CASE GrabArray(t) \/ ReleaseArray(t)
  <2>1. ~died' /\ heap_next' = heap_next /\ op' = op
    BY <1>1, <1>8 DEF GrabArray, ReleaseArray, storage
  <2>2. QED
    BY <1>1, <1>4, <1>5, <2>1, HeapKept DEF HeapInv
<1>9. CASE CollectAll(t)
  <2>1. Collect /\ Held(t) = InUse /\ op[t].pc = "grab" /\ op'[t].pc = "release"
    BY <1>3, <1>9 DEF CollectAll, At, PCs
  <2>2. \A b \in InUse : ~Writing(b)
    <3> SUFFICES ASSUME NEW b \in InUse, NEW u \in Thread, op[u].pc = "write", op[u].array = b PROVE FALSE
      BY DEF Writing
    <3>1. array_lock[b] = t /\ array_lock[b] = u
      BY <2>1 DEF Held, PromiseInv, StoreInv, LockInv, ThreadLocks
    <3>2. QED
      BY <2>1, <3>1
  <2>3. /\ \A v \in Value : heap_next' + align_size(SizeOf[v]) <= HeapSize
        /\ died' => \E a \in InUse : frozen[a] /\ size[a] = 0 /\ data'[a] # data[a]
    <3>1. op[t].array \in InUse
      BY <1>1 DEF PromiseInv, StoreInv, LockInv, ThreadLocks
    <3>2. QED
      BY <2>1, <2>2, <3>1, CollectHasRoom
  <2>4. ~Insufficient(t)'
    <3>1. PICK v \in Value : v = op[t].value
      BY <1>2 DEF Calls
    <3>2. Insufficient(t)' <=> heap_next' + align_size(SizeOf[v]) > HeapSize
      BY <1>1, <3>1 DEF Insufficient
    <3>3. heap_next' \in Int /\ align_size(SizeOf[v]) \in Int /\ HeapSize \in Int
      <4>1. heap_next' \in 0 .. HeapSize
        BY StoreKeeps DEF PromiseInv, StoreInv, StoreTypeOK
      <4>2. SizeOf[v] \in Nat
        BY HeapAssumption
      <4>3. QED
        BY <4>1, <4>2, Aligned, HeapAssumption
    <3>4. QED
      BY <2>3, <3>2, <3>3
  <2>5. heap_lock = t
    BY <2>1 DEF PromiseInv, StoreInv, LockInv, ThreadLocks
  <2>6. HeapInv'
    BY <1>1, <1>5, <2>1, <2>4, <2>5, HeapKept
  <2>7. QED
    BY <1>9, <2>3, <2>6
<1>10. CASE CheckSpace(t)
  <2>1. heap_next' = heap_next /\ op[t].pc = "release" /\ op'[t].pc = "allocate" /\ died' = Insufficient(t)
    BY <1>3, <1>10 DEF CheckSpace, At, storage, PCs
  <2>2. ~died'
    BY <2>1 DEF HeapInv
  <2>3. QED
    BY <1>1, <1>5, <2>1, <2>2, HeapKept
<1>11. CASE Allocate(t)
  <2>1. ~died' /\ op[t].pc = "allocate" /\ op'[t].pc = "write"
    BY <1>1, <1>3, <1>11 DEF Allocate, At, PCs
  <2>2. QED
    BY <1>1, <1>5, <2>1, HeapKept
<1>12. QED
  BY <1>6, <1>7, <1>8, <1>9, <1>10, <1>11 DEF Store

LEMMA FreezeRoom ==
  ASSUME PromiseInv, NEW m \in Nat, Fits(m), NEW g \in Group, Freeze(g)
  PROVE  died' => \E a \in InUse : frozen[a] /\ size[a] = 0 /\ data'[a] # data[a]
<1>1. Quiet /\ Collect
  BY DEF Freeze
<1>2. \A a \in InUse : ~Writing(a)
  BY <1>1, InUseFinite, QuietIs DEF PromiseInv
<1>3. QED
  BY <1>1, <1>2, CollectHasRoom

LEMMA QuietHeap ==
  ASSUME StoreInv, Quiet, op' = op
  PROVE  HeapInv'
BY QuietIs DEF HeapInv

\* The store dies only for a frozen array that is empty: the heap never runs out
HasRoom == died => \E a \in InUse : frozen[a] /\ size[a] = 0

LEMMA NextHasRoom ==
  ASSUME NEW m \in Nat, Roomy(m)
  PROVE  PromiseInv /\ HeapInv /\ HasRoom /\ [StoreNext]_storevars => HeapInv' /\ HasRoom'
<1> SUFFICES ASSUME PromiseInv, HeapInv, HasRoom, [StoreNext]_storevars PROVE HeapInv' /\ HasRoom'
  OBVIOUS
<1>1. ASSUME NEW t \in Thread, Store(t) PROVE HeapInv' /\ HasRoom'
  <2>1. /\ HeapInv'
        /\ died' => CollectAll(t) /\ \E a \in InUse : frozen[a] /\ size[a] = 0
    BY <1>1, StoreRoom DEF Roomy
  <2>2. CollectAll(t) => groups' = groups /\ frozen' = frozen /\ size' = size
    BY DEF CollectAll
  <2>3. QED
    BY <2>1, <2>2 DEF HasRoom, InUse, Members
<1>2. ASSUME NEW t \in Thread, End(t) PROVE HeapInv' /\ HasRoom'
  <2>1. /\ ~died' /\ heap_next' = heap_next /\ op' = [op EXCEPT ![t] = Idle]
    BY <1>2 DEF End, Write, At
  <2>2. op'[t].pc = "idle" /\ \A u \in Thread \ {t} : op'[u] = op[u]
    BY <2>1 DEF Idle, PromiseInv, StoreInv, StoreTypeOK
  <2>3. QED
    BY <2>1, <2>2, HeapKept DEF HasRoom, PromiseInv
<1>3. ASSUME NEW t \in Thread, NEW a \in InUse, NEW v \in Value, Begin(t, a, v) PROVE HeapInv' /\ HasRoom'
  <2> DEFINE call == [pc |-> "set", array |-> a, value |-> v]
  <2>1. /\ ~died' /\ heap_next' = heap_next /\ op' = [op EXCEPT ![t] = call]
    BY <1>3 DEF Begin, At, storage
  <2>2. call.pc = "set"
    OBVIOUS
  <2> HIDE DEF call
  <2>3. op'[t].pc = "set" /\ \A u \in Thread \ {t} : op'[u] = op[u]
    BY <2>1, <2>2 DEF PromiseInv, StoreInv, StoreTypeOK
  <2>4. QED
    BY <2>1, <2>3, HeapKept DEF HasRoom, PromiseInv
<1>4. ASSUME NEW g \in Group, AllocateGroup(g) \/ ClearGroup(g) PROVE HeapInv' /\ HasRoom'
  <2>1. ~died' /\ Quiet /\ op' = op
    BY <1>4 DEF AllocateGroup, ClearGroup, Quiet
  <2>2. QED
    BY <2>1, QuietHeap DEF HasRoom, PromiseInv
<1>5. ASSUME NEW g \in Group, Freeze(g) PROVE HeapInv' /\ HasRoom'
  <2>1. Quiet /\ op' = op /\ groups' = groups /\ size' = size /\ \A a \in Array : frozen[a] => frozen'[a]
    BY <1>5 DEF Freeze
  <2>2. died' => \E a \in InUse : frozen[a] /\ size[a] = 0
    BY <1>5, FreezeRoom DEF Roomy
  <2>3. InUse' = InUse
    BY <2>1 DEF InUse, Members
  <2>4. QED
    BY <2>1, <2>2, <2>3, InUseFinite, QuietHeap DEF HasRoom, PromiseInv
<1>6. CASE UNCHANGED storevars
  <2>1. UNCHANGED <<groups, size, frozen, heap_next, op, died>>
    BY <1>6 DEF storevars, storage
  <2>2. QED
    BY <2>1 DEF HeapInv, Insufficient, HasRoom, InUse, Members
<1>7. QED
  BY <1>1, <1>2, <1>3, <1>4, <1>5, <1>6 DEF StoreNext

\* With a heap that has room for every array and one more value, threads that set arrays at the same
\* time and collect the heap when it is full never find it full after a collection, and a collection
\* never has to move a frozen array that holds a value
THEOREM StoreHasRoom ==
  ASSUME NEW m \in Nat, Roomy(m)
  PROVE  StoreSpec => []HasRoom
<1> DEFINE Inv == PromiseInv /\ HeapInv /\ HasRoom
<1>1. StoreInit => Inv
  BY InitPromise DEF StoreInit, Idle, HeapInv, HasRoom
<1>2. Inv /\ [StoreNext]_storevars => Inv'
  BY NextPromises, NextHasRoom
<1>3. Inv => HasRoom
  OBVIOUS
<1> HIDE DEF Inv
<1>4. QED
  BY <1>1, <1>2, <1>3, PTL DEF StoreSpec

-----------------------------------------------------------------------------
(***************************************************************************)
(* With one array in each group, one that is frozen while empty lies at the*)
(* bottom of the heap, and no full array that starts there gets below it.  *)
(***************************************************************************)
Single == \A g \in Group : Count[g] <= 1

Live(b) == size[b] > 0 \/ \E t \in Thread : op[t].pc = "write" /\ op[t].array = b /\ SizeOf[op[t].value] > 0

LowInv(m) ==
  \A a \in InUse : frozen[a] /\ size[a] = 0 =>
    data[a] = 0 /\ \A b \in InUse : Live(b) /\ data[b] = 0 => heap_next <= m

LEMMA SingleIs ==
  ASSUME Single
  PROVE  /\ \A a, b \in Array : a[1] = b[1] => a = b
         /\ \A a, b, c \in Array : a = b \/ a = c \/ b = c
         /\ Array # {} => Cardinality(Array) >= 1
<1>1. \A a \in Array : a[1] \in Group /\ a = <<a[1], 1>>
  <2> TAKE a \in Array
  <2>1. PICK g \in Group : \E i \in 1 .. Count[g] : a = <<g, i>>
    BY ArraysFinite
  <2>2. PICK i \in 1 .. Count[g] : a = <<g, i>>
    BY <2>1
  <2>3. i = 1
    BY <2>2, HeapAssumption DEF Single
  <2>4. QED
    BY <2>2, <2>3
<1>2. \A a, b \in Array : a[1] = b[1] => a = b
  BY <1>1
<1>3. \A a, b, c \in Array : a = b \/ a = c \/ b = c
  BY <1>1, <1>2 DEF Group
<1>4. Array # {} => Cardinality(Array) >= 1
  <2>1. Cardinality(Array) = 0 <=> Array = {}
    BY ArraysFinite, FS_EmptySet
  <2>2. QED
    BY <2>1, ArrayCount
<1>5. QED
  BY <1>2, <1>3, <1>4

LEMMA LowCollect ==
  ASSUME PromiseInv, NEW m \in Nat, Roomy(m), Single, LowInv(m), Collect, \A b \in InUse : ~Writing(b),
         NEW a \in InUse, frozen[a], size[a] = 0, heap_next > m
  PROVE  /\ data[a] = 0 /\ data'[a] = 0
         /\ \A b \in InUse : size[b] > 0 /\ data'[b] = 0 => heap_next' <= m
<1>1. HeapTypes /\ Packed
  BY Layout DEF PromiseInv
<1>2. /\ data[a] = 0
      /\ \A b \in InUse : size[b] > 0 /\ data[b] = 0 => heap_next <= m
  BY DEF LowInv, Live
<1>3. heap_next \in Nat /\ \A b \in InUse : size[b] > 0 => data[b] \in Nat
  BY <1>1, HeapAssumption DEF HeapTypes, Packed
<1>4. data'[a] = 0
  <2> SUFFICES ASSUME data'[a] # 0 PROVE FALSE
    OBVIOUS
  <2>1. PICK b \in InUse : size[b] > 0 /\ data[b] <= data[a]
    BY <1>1, NoGaps
  <2>2. data[b] = 0
    BY <1>2, <1>3, <2>1
  <2>3. QED
    BY <1>2, <1>3, <2>1, <2>2
<1>5. ASSUME NEW b \in InUse, size[b] > 0, data'[b] = 0 PROVE heap_next' <= m
  <2>1. CASE heap_next' = 0
    BY <2>1
  <2>2. ASSUME NEW c \in InUse, size[c] > 0, data'[c] + Room(c) = heap_next' PROVE heap_next' <= m
    <3>1. c = b
      BY <1>5, <2>2, SingleIs, InUseFinite
    <3>2. Room(b) \in Nat /\ Room(b) <= m
      BY RoomBound DEF Roomy
    <3>3. QED
      BY <1>5, <2>2, <3>1, <3>2
  <2>3. QED
    BY <1>1, <2>1, <2>2, NoGaps
<1>6. QED
  BY <1>2, <1>4, <1>5

\* A thread's step: it writes no array that was empty, and gives memory to its own only
LEMMA LowKept ==
  ASSUME PromiseInv, NEW m \in Nat, LowInv(m), groups' = groups, frozen' = frozen,
         \A b \in InUse : frozen[b] => size'[b] = size[b] /\ data'[b] = data[b],
         \A b \in InUse : Live(b)' /\ data'[b] = 0 =>
           \/ Live(b) /\ data[b] = 0 /\ heap_next' = heap_next
           \/ heap_next' <= m
  PROVE  LowInv(m)'
<1>1. InUse' = InUse
  BY DEF InUse, Members
<1>2. ASSUME NEW a \in InUse, frozen[a], size'[a] = 0
      PROVE  data'[a] = 0 /\ \A b \in InUse : Live(b)' /\ data'[b] = 0 => heap_next' <= m
  <2>1. size[a] = 0 /\ data'[a] = 0 /\ \A b \in InUse : Live(b) /\ data[b] = 0 => heap_next <= m
    BY <1>2 DEF LowInv
  <2>2. QED
    BY <2>1
<1>3. QED
  BY <1>1, <1>2 DEF LowInv

LEMMA StoreLow ==
  ASSUME PromiseInv, HeapInv, NEW m \in Nat, Roomy(m), Single, LowInv(m), NEW t \in Thread, Store(t)
  PROVE  LowInv(m)' /\ ~died'
<1> USE DEF PromiseInv
<1>1. /\ op[t].pc \notin {"idle", "read", "write"}
      /\ op'[t].array = op[t].array /\ op'[t].value = op[t].value
      /\ \A u \in Thread \ {t} : op'[u] = op[u]
      /\ groups' = groups /\ frozen' = frozen /\ InUse' = InUse
  BY StoreKeeps
<1>2. op[t] \in Calls
  BY <1>1, OpIs DEF StoreInv
<1>3. PICK c \in InUse : c = op[t].array /\ ~frozen[c]
  BY <1>1, <1>2 DEF BusyInv, StoreInv, LockInv, ThreadLocks
<1>4. PICK v \in Value : v = op[t].value
  BY <1>2 DEF Calls
<1>5. /\ size \in [Array -> 0 .. HeapSize] /\ data \in [Array -> Null .. HeapSize] /\ heap_next \in Nat
      /\ c \in Array /\ InUse \subseteq Array /\ HeapSize \in Nat
  BY InUseFinite, HeapAssumption DEF StoreInv, StoreTypeOK
<1>6. SizeOf[v] \in Nat /\ align_size(SizeOf[v]) \in Nat /\ align_size(SizeOf[v]) >= SizeOf[v] /\ align_size(SizeOf[v]) <= m
  <2>1. SizeOf[v] \in Nat
    BY HeapAssumption
  <2>2. QED
    BY <2>1, Aligned DEF Roomy, Fits
<1>7. ~died' \/ CollectAll(t)
  BY StoreRoom DEF Roomy
<1>8. ASSUME NEW b \in InUse, size'[b] = size[b], op'[t].pc = "write" => b # c, Live(b)' PROVE Live(b)
  <2>1. CASE size'[b] > 0
    BY <1>8, <2>1 DEF Live
  <2>2. ASSUME NEW u \in Thread, op'[u].pc = "write", op'[u].array = b, SizeOf[op'[u].value] > 0 PROVE Live(b)
    <3>1. u # t
      BY <1>1, <1>3, <1>8, <2>2
    <3>2. op'[u] = op[u]
      BY <1>1, <3>1
    <3>3. QED
      BY <2>2, <3>2 DEF Live
  <2>3. QED
    BY <1>8, <2>1, <2>2 DEF Live
<1>9. \A pc \in PCs : Goto(t, pc) => op'[t].pc = pc
  <2>1. StoreTypeOK
    BY DEF StoreInv
  <2>2. QED
    BY <1>1, <2>1, Goes
<1>10. CASE SetInPlace(t)
  <2>1. size' = size /\ data' = data /\ heap_next' = heap_next /\ align_size(SizeOf[v]) <= size[c]
    BY <1>3, <1>4, <1>10 DEF SetInPlace, storage
  <2>2. ASSUME NEW b \in InUse, Live(b)' PROVE Live(b)
    <3>1. CASE b # c
      BY <1>8, <2>1, <2>2, <3>1
    <3>2. CASE b = c
      <4>1. CASE size[b] > 0
        BY <4>1 DEF Live
      <4>2. CASE SizeOf[v] > 0
        <5>1. size[c] > 0
          BY <1>5, <1>6, <2>1, <4>2
        <5>2. QED
          BY <3>2, <5>1 DEF Live
      <4>3. ASSUME NEW u \in Thread \ {t}, op'[u].pc = "write", op'[u].array = b, SizeOf[op'[u].value] > 0
            PROVE  Live(b)
        <5>1. op'[u] = op[u]
          BY <1>1
        <5>2. QED
          BY <4>3, <5>1 DEF Live
      <4>4. QED
        BY <1>1, <1>4, <2>1, <2>2, <4>1, <4>2, <4>3 DEF Live
    <3>3. QED
      BY <3>1, <3>2
  <2>3. LowInv(m)'
    BY <1>1, <2>1, <2>2, LowKept
  <2>4. QED
    BY <1>10, <2>3 DEF SetInPlace, At
<1>11. CASE Deallocate(t)
  <2>1. /\ size' = [size EXCEPT ![c] = 0] /\ data' = [data EXCEPT ![c] = Null] /\ heap_next' = heap_next
        /\ op'[t].pc = "heap" /\ died' = died /\ ~died
    BY <1>3, <1>9, <1>11 DEF Deallocate, At, PCs
  <2>2. /\ \A b \in InUse \ {c} : size'[b] = size[b] /\ data'[b] = data[b]
        /\ data'[c] # 0
    BY <1>5, <2>1 DEF Null
  <2>3. ASSUME NEW b \in InUse, Live(b)', data'[b] = 0 PROVE Live(b) /\ data[b] = 0
    BY <1>8, <2>1, <2>2, <2>3
  <2>4. LowInv(m)'
    BY <1>1, <1>3, <2>1, <2>2, <2>3, LowKept
  <2>5. QED
    BY <2>1, <2>4
<1>12. CASE LockHeap(t) \/ GrabArray(t) \/ ReleaseArray(t) \/ CheckSpace(t)
  <2>1. size' = size /\ data' = data /\ heap_next' = heap_next
    BY <1>12 DEF LockHeap, GrabArray, ReleaseArray, CheckSpace, storage
  <2>2. op'[t].pc # "write"
    <3>1. Goto(t, "grab") \/ Goto(t, "allocate") \/ op' = op
      BY <1>12 DEF LockHeap, GrabArray, ReleaseArray, CheckSpace
    <3>2. QED
      BY <1>1, <1>9, <3>1 DEF PCs
  <2>3. LowInv(m)'
    BY <1>1, <1>8, <2>1, <2>2, LowKept
  <2>4. ~CollectAll(t)
    <3>1. CollectAll(t) => op[t].pc = "grab" /\ Held(t) = InUse /\ op'[t].pc = "release"
      BY <1>9 DEF CollectAll, At, PCs
    <3>2. LockHeap(t) => op[t].pc = "heap"
      BY DEF LockHeap, At
    <3>3. GrabArray(t) => Held(t) # InUse
      BY DEF GrabArray
    <3>4. ReleaseArray(t) \/ CheckSpace(t) => op[t].pc = "release"
      BY DEF ReleaseArray, CheckSpace, At
    <3>5. QED
      BY <1>12, <3>1, <3>2, <3>3, <3>4
  <2>5. QED
    BY <1>7, <2>3, <2>4
<1>13. CASE CollectAll(t)
  <2>1. /\ Collect /\ size' = size /\ Held(t) = InUse /\ op[t].pc = "grab" /\ op'[t].pc = "release"
    BY <1>9, <1>13 DEF CollectAll, At, PCs
  <2>2. \A b \in InUse : ~Writing(b)
    <3> SUFFICES ASSUME NEW b \in InUse, NEW u \in Thread, op[u].pc = "write", op[u].array = b PROVE FALSE
      BY DEF Writing
    <3>1. array_lock[b] = t /\ array_lock[b] = u
      BY <2>1 DEF Held, StoreInv, LockInv, ThreadLocks
    <3>2. QED
      BY <2>1, <3>1
  <2>3. heap_next > m
    <3>1. heap_next + align_size(SizeOf[v]) > HeapSize
      BY <1>4, <2>1 DEF HeapInv, Insufficient
    <3> DEFINE k == Cardinality(Array)
    <3>2. k \in Nat /\ k >= 1
      BY <1>5, SingleIs, ArrayCount
    <3> HIDE DEF k
    <3>3. k * m >= m /\ k * m \in Int
      BY <3>2
    <3>4. k * m + m <= HeapSize
      BY DEF k, Roomy
    <3> DEFINE y == k * m
    <3>5. y \in Int /\ y >= m /\ y + m <= HeapSize
      BY <3>3, <3>4
    <3> HIDE DEF y
    <3>6. QED
      BY <1>5, <1>6, <3>1, <3>5
  <2>4. ASSUME NEW a \in InUse, frozen[a], size[a] = 0
        PROVE  /\ data[a] = 0 /\ data'[a] = 0
               /\ \A b \in InUse : size[b] > 0 /\ data'[b] = 0 => heap_next' <= m
    BY <2>1, <2>2, <2>3, <2>4, LowCollect
  <2>5. ~died'
    BY <2>4, StoreRoom DEF Roomy
  <2>6. \A b \in InUse : Live(b)' => size[b] > 0
    <3> SUFFICES ASSUME NEW b \in InUse, NEW u \in Thread, op'[u].pc = "write", op'[u].array = b PROVE FALSE
      BY <2>1 DEF Live
    <3>1. op'[u] = op[u]
      BY <1>1, <2>1
    <3>2. QED
      BY <2>2, <3>1 DEF Writing
  <2>7. LowInv(m)'
    BY <1>1, <2>1, <2>4, <2>6 DEF LowInv
  <2>8. QED
    BY <2>5, <2>7
<1>14. CASE Allocate(t)
  <2>1. /\ data' = [data EXCEPT ![c] = heap_next] /\ size' = size /\ heap_next' = heap_next + align_size(SizeOf[v])
        /\ died' = died /\ ~died
    BY <1>3, <1>4, <1>14 DEF Allocate, At
  <2>2. data'[c] = heap_next /\ \A b \in InUse \ {c} : data'[b] = data[b]
    BY <1>5, <2>1
  <2>3. data'[c] = 0 => heap_next' <= m
    BY <1>6, <2>1, <2>2
  <2>4. ASSUME NEW a \in InUse, frozen[a], size[a] = 0
        PROVE  data'[a] = 0 /\ \A b \in InUse : Live(b)' /\ data'[b] = 0 => heap_next' <= m
    <3>1. a # c /\ data'[a] = 0
      BY <1>3, <2>2, <2>4 DEF LowInv
    <3>2. ASSUME NEW b \in InUse, Live(b)', data'[b] = 0 PROVE heap_next' <= m
      <4>1. b # a
        <5> SUFFICES ASSUME b = a PROVE FALSE
          OBVIOUS
        <5>1. ~Live(a)
          <6>1. \A u \in Thread : op[u].pc = "write" => op[u].array # a
            BY <2>4 DEF BusyInv
          <6>2. QED
            BY <2>4, <6>1 DEF Live
        <5>2. QED
          BY <1>8, <2>1, <3>1, <3>2, <5>1
      <4>2. b = c
        BY <1>5, <3>1, <4>1, SingleIs
      <4>3. QED
        BY <2>3, <3>2, <4>2
    <3>3. QED
      BY <3>1, <3>2
  <2>5. LowInv(m)'
    BY <1>1, <2>1, <2>4 DEF LowInv
  <2>6. QED
    BY <2>1, <2>5
<1>15. QED
  BY <1>10, <1>11, <1>12, <1>13, <1>14 DEF Store

LEMMA NextLow ==
  ASSUME NEW m \in Nat, Roomy(m), Single
  PROVE  PromiseInv /\ HeapInv /\ LowInv(m) /\ ~died /\ [StoreNext]_storevars => LowInv(m)' /\ ~died'
<1> SUFFICES ASSUME PromiseInv, HeapInv, LowInv(m), ~died, [StoreNext]_storevars PROVE LowInv(m)' /\ ~died'
  OBVIOUS
<1> USE DEF PromiseInv
<1>1. ASSUME NEW t \in Thread, Store(t) PROVE LowInv(m)' /\ ~died'
  BY <1>1, StoreLow
<1>2. ASSUME NEW t \in Thread, End(t) PROVE LowInv(m)' /\ ~died'
  <2>1. /\ ~died' /\ heap_next' = heap_next /\ op' = [op EXCEPT ![t] = Idle] /\ op[t].pc = "write"
        /\ groups' = groups /\ frozen' = frozen /\ data' = data
        /\ size' = [size EXCEPT ![op[t].array] = SizeOf[op[t].value]]
    BY <1>2 DEF End, Write, At
  <2>2. op[t].pc # "idle" /\ Idle.pc = "idle"
    BY <2>1 DEF Idle
  <2>3. op'[t].pc = "idle" /\ \A u \in Thread \ {t} : op'[u] = op[u]
    BY <2>1, <2>2 DEF StoreInv, StoreTypeOK
  <2>4. PICK c \in Array : c = op[t].array /\ ~frozen[c]
    <3>1. op[t] \in Calls
      BY <2>2, OpIs DEF StoreInv
    <3>2. QED
      BY <2>2, <3>1 DEF Calls, BusyInv
  <2>5. size'[c] = SizeOf[op[t].value] /\ \A b \in Array \ {c} : size'[b] = size[b]
    BY <2>1, <2>4 DEF StoreInv, StoreTypeOK
  <2>6. ASSUME NEW b \in InUse, Live(b)' PROVE Live(b)
    <3>1. CASE size'[b] > 0
      <4>1. CASE b = c
        BY <2>1, <2>4, <2>5, <3>1, <4>1 DEF Live
      <4>2. CASE b # c
        BY <2>5, <3>1, <4>2, InUseFinite DEF Live
      <4>3. QED
        BY <4>1, <4>2
    <3>2. ASSUME NEW u \in Thread, op'[u].pc = "write", op'[u].array = b, SizeOf[op'[u].value] > 0 PROVE Live(b)
      <4>1. op'[u] = op[u]
        BY <2>3, <3>2
      <4>2. QED
        BY <3>2, <4>1 DEF Live
    <3>3. QED
      BY <2>6, <3>1, <3>2 DEF Live
  <2>7. LowInv(m)'
    BY <2>1, <2>4, <2>5, <2>6, InUseFinite, LowKept
  <2>8. QED
    BY <2>1, <2>7
<1>3. ASSUME NEW t \in Thread, NEW a \in InUse, NEW v \in Value, Begin(t, a, v) PROVE LowInv(m)' /\ ~died'
  <2> DEFINE call == [pc |-> "set", array |-> a, value |-> v]
  <2>1. /\ ~died' /\ heap_next' = heap_next /\ op' = [op EXCEPT ![t] = call]
        /\ groups' = groups /\ frozen' = frozen /\ data' = data /\ size' = size
    BY <1>3 DEF Begin, At, storage
  <2>2. call.pc = "set"
    OBVIOUS
  <2> HIDE DEF call
  <2>3. op'[t].pc = "set" /\ \A u \in Thread \ {t} : op'[u] = op[u]
    BY <2>1, <2>2 DEF StoreInv, StoreTypeOK
  <2>4. ASSUME NEW b \in InUse, Live(b)' PROVE Live(b)
    <3>1. ASSUME NEW u \in Thread, op'[u].pc = "write", op'[u].array = b, SizeOf[op'[u].value] > 0 PROVE Live(b)
      <4>1. op'[u] = op[u]
        BY <2>3, <3>1
      <4>2. QED
        BY <3>1, <4>1 DEF Live
    <3>2. QED
      BY <2>1, <2>4, <3>1 DEF Live
  <2>5. LowInv(m)'
    BY <2>1, <2>4, LowKept
  <2>6. QED
    BY <2>1, <2>5
<1>4. ASSUME Quiet, op' = op, NEW b, size'[b] = 0 \/ size'[b] = size[b] PROVE Live(b)' => Live(b) /\ size'[b] > 0
  <2>1. \A u \in Thread : op'[u].pc = "idle"
    BY <1>4, QuietIs
  <2>2. ~(0 > 0)
    OBVIOUS
  <2>3. QED
    BY <1>4, <2>1, <2>2 DEF Live
<1>5. ASSUME NEW g \in Group, AllocateGroup(g) PROVE LowInv(m)' /\ ~died'
  <2>1. /\ Quiet /\ op' = op /\ ~died' /\ heap_next' = heap_next /\ g \notin groups /\ groups' = groups \cup {g}
        /\ size' = [a \in Array |-> IF a[1] = g THEN 0 ELSE size[a]]
        /\ data' = [a \in Array |-> IF a[1] = g THEN Null ELSE data[a]]
        /\ frozen' = [a \in Array |-> frozen[a] /\ a[1] # g]
    BY <1>5 DEF AllocateGroup, Quiet
  <2>2. \A a \in InUse' : a \in Array /\ (a[1] # g => a \in InUse)
    BY <2>1 DEF InUse, Members
  <2>3. \A a \in Array : IF a[1] = g THEN size'[a] = 0 /\ ~frozen'[a]
                         ELSE size'[a] = size[a] /\ data'[a] = data[a] /\ (frozen'[a] => frozen[a])
    BY <2>1
  <2>4. ASSUME NEW a \in InUse', frozen'[a], size'[a] = 0 PROVE data'[a] = 0 /\ a \in InUse /\ frozen[a] /\ size[a] = 0
    BY <2>2, <2>3, <2>4 DEF LowInv
  <2>5. ASSUME NEW b \in InUse', Live(b)' PROVE Live(b) /\ b \in InUse /\ data'[b] = data[b]
    <3>1. size'[b] = 0 \/ size'[b] = size[b]
      BY <2>2, <2>3
    <3>2. Live(b) /\ size'[b] > 0
      BY <1>4, <2>1, <2>5, <3>1
    <3>3. b[1] # g
      BY <2>2, <2>3, <3>2
    <3>4. QED
      BY <2>2, <2>3, <3>2, <3>3
  <2>6. LowInv(m)'
    BY <2>1, <2>4, <2>5 DEF LowInv
  <2>7. QED
    BY <2>1, <2>6
<1>6. ASSUME NEW g \in Group, ClearGroup(g) PROVE LowInv(m)' /\ ~died'
  <2>1. /\ Quiet /\ op' = op /\ ~died' /\ heap_next' = heap_next /\ groups' = groups \ {g}
        /\ size' = size /\ data' = data /\ frozen' = frozen
    BY <1>6 DEF ClearGroup, Quiet
  <2>2. InUse' \subseteq InUse
    BY <2>1 DEF InUse, Members
  <2>3. \A b \in InUse' : Live(b)' => Live(b)
    BY <1>4, <2>1
  <2>4. LowInv(m)'
    BY <2>1, <2>2, <2>3 DEF LowInv
  <2>5. QED
    BY <2>1, <2>4
<1>7. ASSUME NEW g \in Group, Freeze(g) PROVE LowInv(m)' /\ ~died'
  <2>1. Quiet /\ Collect /\ op' = op /\ groups = {g} /\ groups' = groups /\ size' = size
    BY <1>7 DEF Freeze
  <2>2. InUse' = InUse
    BY <2>1 DEF InUse, Members
  <2>3. \A a, b \in InUse : a = b
    <3>1. \A a \in InUse : a \in Array /\ a[1] = g
      BY <2>1 DEF InUse, Members
    <3>2. QED
      BY <3>1, SingleIs
  <2>4. ASSUME NEW a \in InUse, size[a] = 0 PROVE data'[a] = 0
    <3>1. \A a1 \in InUse : ~Writing(a1)
      BY <2>1, InUseFinite, QuietIs
    <3>2. HeapTypes /\ Packed
      BY <3>1, Layout
    <3>3. \A b \in InUse : ~(size[b] > 0)
      BY <2>3, <2>4
    <3>4. QED
      BY <2>1, <3>2, <3>3, NoGaps
  <2>5. ASSUME NEW a \in InUse, size[a] = 0, NEW b \in InUse PROVE ~Live(b)'
    <3>1. b = a /\ size'[b] = 0
      BY <2>1, <2>3, <2>5
    <3>2. QED
      BY <1>4, <2>1, <3>1
  <2>6. LowInv(m)'
    BY <2>1, <2>2, <2>4, <2>5 DEF LowInv
  <2>7. ~died'
    <3>1. died' => \E a \in InUse : frozen[a] /\ size[a] = 0 /\ data'[a] # data[a]
      BY <1>7, FreezeRoom DEF Roomy
    <3>2. QED
      BY <2>4, <3>1 DEF LowInv
  <2>8. QED
    BY <2>6, <2>7
<1>8. CASE UNCHANGED storevars
  <2>1. UNCHANGED <<groups, size, data, frozen, heap_next, op, died>>
    BY <1>8 DEF storevars, storage
  <2>2. QED
    BY <2>1 DEF LowInv, Live, InUse, Members
<1>9. QED
  BY <1>1, <1>2, <1>3, <1>5, <1>6, <1>7, <1>8 DEF StoreNext

\* With one array in each group, and room in the heap for both and one more value, the store does not
\* die: it neither runs out of memory nor has to move a frozen array, empty or not
THEOREM StoreNeverDies ==
  ASSUME NEW m \in Nat, Roomy(m), Single
  PROVE  StoreSpec => []NeverDies
<1> DEFINE Inv == PromiseInv /\ HeapInv /\ HasRoom /\ LowInv(m) /\ ~died
<1>1. StoreInit => Inv
  <2> SUFFICES ASSUME StoreInit PROVE Inv
    OBVIOUS
  <2>1. HeapInv /\ HasRoom /\ ~died
    BY DEF StoreInit, Idle, HeapInv, HasRoom
  <2>2. LowInv(m)
    BY InitStoreInv DEF LowInv
  <2>3. QED
    BY <2>1, <2>2, InitPromise
<1>2. Inv /\ [StoreNext]_storevars => Inv'
  BY NextPromises, NextHasRoom, NextLow
<1>3. Inv => NeverDies
  BY DEF NeverDies
<1> HIDE DEF Inv
<1>4. QED
  BY <1>1, <1>2, <1>3, PTL DEF StoreSpec

-----------------------------------------------------------------------------
(***************************************************************************)
(* The blocks of a slice, for every number of blocks, dimensions, threads  *)
(* and slices, and for heaps that are too small as well: no contribution is*)
(* lost or doubled, what is frozen is complete, and wins are counted once. *)
(* In a heap with memory for every block, the store never dies.            *)
(***************************************************************************)

\* A thread that accumulates into a block of the slice being computed holds its info.lock.  It
\* brings one missing dimension, and from Combine on it carries everything that has come
ThreadJob(t) ==
  op[t].pc # "idle" =>
    /\ phase = "compute" /\ op[t].array \in Members(current)
    /\ info_lock[op[t].array] = t
    /\ op[t].pc = "read" =>
         \E d \in missing[op[t].array] : op[t].value = {d} /\ <<op[t].array, d>> \notin jobs
    /\ op[t].pc # "read" => op[t].value = Dim \ missing[op[t].array]

InfoLock(a) == info_lock[a] # None => op[info_lock[a]].pc # "idle" /\ op[info_lock[a]].array = a

JobInv == (\A t \in Thread : ThreadJob(t)) /\ (\A a \in Array : InfoLock(a))

\* A dimension is missing as long as its job has not started or has not been combined
Bringing(a, d) == \E t \in Thread : op[t].pc = "read" /\ op[t].array = a /\ op[t].value = {d}

MissingInv ==
  /\ \A a \in Array, d \in Dim : <<a, d>> \in jobs =>
       phase = "compute" /\ a \in Members(current) /\ d \in missing[a]
  /\ \A a \in InUse, d \in Dim : d \in missing[a] => <<a, d>> \in jobs \/ Bringing(a, d)

\* Every group but the one being computed is frozen
Open(a) == a \in Members(current) /\ phase \in {"compute", "freeze"}

SliceInv ==
  /\ phase = "allocate" => groups \in {{}, {current}}
  /\ phase = "compute" => current \in groups
  /\ phase = "freeze" => groups = {current}
  /\ phase # "allocate" => slice <= MaxSlices
  /\ \A a \in InUse : frozen[a] <=> ~Open(a)

\* A block holds what has come, until the next job has combined it with more
Untouched(a) == info_lock[a] = None \/ op[info_lock[a]].pc = "read"

Content(a) == Untouched(a) => IF missing[a] = Dim THEN size[a] = 0 ELSE Holds(a, Dim \ missing[a])

ContentInv == \A a \in InUse : Content(a)

CountInv == \A a \in Members(current) : section_counts[a] = IF missing[a] = {} THEN <<Dim>> ELSE <<>>

BlockTypes ==
  /\ slice \in 1 .. MaxSlices + 1
  /\ phase \in {"allocate", "compute", "freeze"}
  /\ current \in Group
  /\ jobs \subseteq Array \X Dim
  /\ info_lock \in [Array -> Thread \cup {None}]
  /\ missing \in [Array -> SUBSET Dim]
  /\ section_counts \in [Array -> Seq(Value)]

BlockInv == StoreInv /\ BlockTypes /\ JobInv /\ MissingInv /\ SliceInv /\ ContentInv /\ CountInv

-----------------------------------------------------------------------------
LEMMA CallOf ==
  ASSUME StoreInv, NEW t \in Thread, op[t].pc # "idle"
  PROVE  op[t].pc \in PCs /\ op[t].array \in Array /\ op[t].value \in Value
BY OpIs DEF StoreInv, Calls

LEMMA MembersInUse ==
  ASSUME BlockTypes
  PROVE  Members(current) \subseteq InUse /\ InUse \subseteq Array
<1>1. current = 0 \/ current = 1
  BY DEF BlockTypes, Group
<1>2. QED
  BY <1>1, InUseFinite DEF InUse

\* The bytes of an array are those of one value
LEMMA HoldsOne ==
  ASSUME StoreTypeOK, NEW a \in Array, NEW v \in Value, NEW w \in Value, Holds(a, v), Holds(a, w)
  PROVE  v = w
<1>1. SizeOf[v] \in Nat /\ SizeOf[v] > 0 /\ size[a] = SizeOf[v] /\ SizeOf[w] = SizeOf[v]
  BY HeapAssumption, ValueAssumption DEF Holds
<1>2. 0 \in 0 .. size[a] - 1
  BY <1>1
<1>3. Bytes(v)[0] = <<v, 0>> /\ Bytes(w)[0] = <<w, 0>>
  BY <1>1, <1>2 DEF Bytes
<1>4. heap[data[a] + 0] = Bytes(v)[0] /\ heap[data[a] + 0] = Bytes(w)[0]
  BY <1>2 DEF Holds
<1>5. QED
  BY <1>3, <1>4

\* Two threads never work on the same block
LEMMA OneEach ==
  ASSUME JobInv, NEW t \in Thread, NEW u \in Thread, op[t].pc # "idle", op[u].pc # "idle",
         op[u].array = op[t].array
  PROVE  u = t
BY DEF JobInv, ThreadJob

LEMMA UntouchedNotWriting ==
  ASSUME JobInv, NEW a \in Array, Untouched(a)
  PROVE  ~Writing(a)
<1> SUFFICES ASSUME NEW t \in Thread, op[t].pc = "write", op[t].array = a PROVE FALSE
  BY DEF Writing
<1>1. info_lock[a] = t
  BY DEF JobInv, ThreadJob
<1>2. QED
  BY <1>1, HeapAssumption DEF Untouched

\* A block that is left alone keeps what it holds
LEMMA ContentKept ==
  ASSUME BlockTypes, JobInv, ContentInv, NEW b \in InUse, Untouched(b), Keeps(b),
         missing'[b] = missing[b]
  PROVE  Content(b)'
<1>1. b \in Array /\ missing[b] \in SUBSET Dim
  BY MembersInUse DEF BlockTypes
<1>2. IF missing[b] = Dim THEN size[b] = 0 ELSE Holds(b, Dim \ missing[b])
  BY DEF ContentInv, Content
<1>3. size'[b] = size[b] /\ \A v \in Value : Holds(b, v) => Holds(b, v)'
  BY <1>1, UntouchedNotWriting DEF Keeps
<1>4. CASE missing[b] = Dim
  BY <1>2, <1>3, <1>4 DEF Content
<1>5. CASE missing[b] # Dim
  <2>1. Dim \ missing[b] \in Value
    BY <1>1, <1>5, ValueAssumption
  <2>2. PICK v \in Value : v = Dim \ missing[b]
    BY <2>1
  <2>3. Holds(b, v)'
    BY <1>2, <1>3, <1>5, <2>2
  <2>4. missing'[b] # Dim /\ Dim \ missing'[b] = v
    BY <1>5, <2>2
  <2>5. QED
    BY <2>3, <2>4 DEF Content
<1>6. QED
  BY <1>4, <1>5

\* The slice and its groups, through a step of a thread
Within == UNCHANGED <<groups, frozen, slice, phase, current>>

LEMMA WithinSlice ==
  ASSUME BlockTypes, SliceInv, Within
  PROVE  SliceInv' /\ Members(current)' = Members(current) /\ InUse' = InUse
<1>1. Members(current)' = Members(current) /\ InUse' = InUse /\ \A a \in InUse : Open(a)' <=> Open(a)
  BY DEF Within, InUse, Members, Open
<1>2. QED
  BY <1>1 DEF SliceInv, Within

-----------------------------------------------------------------------------
(***************************************************************************)
(* The steps of a job.                                                     *)
(***************************************************************************)
LEMMA LockInfoKeeps ==
  ASSUME BlockInv, NEW t \in Thread, NEW a \in Array, NEW d \in Dim, LockInfo(t, a, d)
  PROVE  BlockInv'
<1> DEFINE call == [pc |-> "read", array |-> a, value |-> {d}]
<1> USE DEF BlockInv
<1>1. /\ op[t].pc = "idle" /\ ~died /\ <<a, d>> \in jobs /\ info_lock[a] = None
      /\ jobs' = jobs \ {<<a, d>>} /\ info_lock' = [info_lock EXCEPT ![a] = t]
      /\ op' = [op EXCEPT ![t] = call]
      /\ UNCHANGED <<groups, size, data, frozen, heap_next, heap, locks, storage, died>>
      /\ UNCHANGED <<slice, phase, current, missing, section_counts>>
  BY DEF LockInfo, At, storage
<1>2. /\ op'[t] = call /\ call.pc = "read" /\ call.array = a /\ call.value = {d}
      /\ \A u \in Thread \ {t} : op'[u] = op[u]
  BY <1>1 DEF StoreInv, StoreTypeOK
<1>3. phase = "compute" /\ a \in Members(current) /\ a \in InUse /\ d \in missing[a]
  BY <1>1, MembersInUse DEF MissingInv
<1>4. /\ info_lock' \in [Array -> Thread \cup {None}] /\ info_lock'[a] = t
      /\ \A b \in Array \ {a} : info_lock'[b] = info_lock[b]
  BY <1>1 DEF BlockTypes
<1>5. {d} \in Value
  BY ValueAssumption
<1>6. StoreInv' /\ \A b \in Array : Keeps(b)
  BY <1>1, <1>3, <1>5, ReadKeeps DEF At
<1>7. BlockTypes'
  BY <1>1, <1>4 DEF BlockTypes
<1>8. SliceInv' /\ Members(current)' = Members(current) /\ InUse' = InUse
  BY <1>1, WithinSlice DEF Within
<1> HIDE DEF call
<1>9. JobInv'
  <2>1. ThreadJob(t)'
    BY <1>1, <1>2, <1>3, <1>4, <1>8 DEF ThreadJob
  <2>2. ASSUME NEW u \in Thread \ {t} PROVE ThreadJob(u)'
    <3>1. ThreadJob(u) /\ op'[u] = op[u]
      BY <1>2 DEF JobInv
    <3>2. op[u].pc # "idle" => op[u].array # a /\ op[u].array \in Array
      BY <1>1, <3>1, CallOf, HeapAssumption DEF ThreadJob
    <3>3. QED
      BY <1>1, <1>4, <1>8, <3>1, <3>2 DEF ThreadJob
  <2>3. ASSUME NEW b \in Array PROVE InfoLock(b)'
    <3>1. CASE b = a
      BY <1>2, <1>4, <3>1 DEF InfoLock
    <3>2. CASE b # a
      <4>1. InfoLock(b) /\ info_lock'[b] = info_lock[b]
        BY <1>4, <3>2 DEF JobInv
      <4>2. info_lock[b] # None => info_lock[b] \in Thread \ {t}
        BY <1>1, <4>1 DEF InfoLock, BlockTypes
      <4>3. QED
        BY <1>2, <4>1, <4>2 DEF InfoLock
    <3>3. QED
      BY <3>1, <3>2
  <2>4. QED
    BY <2>1, <2>2, <2>3 DEF JobInv
<1>10. MissingInv'
  <2>1. ASSUME NEW b \in InUse, NEW e \in Dim, Bringing(b, e) PROVE Bringing(b, e)'
    <3>1. PICK u \in Thread : op[u].pc = "read" /\ op[u].array = b /\ op[u].value = {e}
      BY <2>1 DEF Bringing
    <3>2. op'[u] = op[u]
      BY <1>1, <1>2, <3>1
    <3>3. QED
      BY <3>1, <3>2 DEF Bringing
  <2>2. Bringing(a, d)'
    BY <1>2 DEF Bringing
  <2>3. QED
    BY <1>1, <1>8, <2>1, <2>2 DEF MissingInv
<1>11. ContentInv'
  <2> SUFFICES ASSUME NEW b \in InUse, Untouched(b)' PROVE (IF missing[b] = Dim THEN size[b] = 0 ELSE Holds(b, Dim \ missing[b]))'
    BY <1>8 DEF ContentInv, Content
  <2>1. b \in Array
    BY MembersInUse
  <2>2. Untouched(b)
    <3>1. CASE b = a
      BY <1>1, <3>1 DEF Untouched
    <3>2. CASE b # a
      <4>1. info_lock'[b] = info_lock[b]
        BY <1>4, <2>1, <3>2
      <4>2. info_lock[b] # None => info_lock[b] \in Thread \ {t}
        BY <1>1, <2>1 DEF InfoLock, JobInv, BlockTypes
      <4>3. QED
        BY <1>2, <4>1, <4>2 DEF Untouched
    <3>3. QED
      BY <3>1, <3>2
  <2>3. QED
    BY <1>1, <2>2 DEF ContentInv, Content, Holds
<1>12. CountInv'
  BY <1>1, <1>8 DEF CountInv
<1>13. QED
  BY <1>6, <1>7, <1>8, <1>9, <1>10, <1>11, <1>12

\* What is combined is everything that has come, and the new dimension
LEMMA CombineIs ==
  ASSUME BlockInv, NEW t \in Thread, Combine(t)
  PROVE  \E d \in Dim, a \in Array, new \in Value :
           /\ op[t].pc = "read" /\ op[t].array = a /\ op[t].value = {d}
           /\ a \in Members(current) /\ phase = "compute" /\ info_lock[a] = t
           /\ d \in missing[a] /\ <<a, d>> \notin jobs
           /\ new = Dim \ (missing[a] \ {d})
           /\ Lock(t, a) /\ op' = [op EXCEPT ![t] = [pc |-> "set", array |-> a, value |-> new]]
           /\ missing' = [missing EXCEPT ![a] = missing[a] \ {d}]
           /\ section_counts' = Counted(a, missing[a] \ {d}, new)
           /\ ~died /\ died' = FALSE
           /\ UNCHANGED <<storage, heap_lock, slice, phase, current, jobs, info_lock>>
<1> USE DEF BlockInv
<1>1. op[t].pc = "read" /\ ~died
  BY DEF Combine, At
<1>2. ThreadJob(t) /\ op[t] \in Calls
  BY <1>1, OpIs DEF JobInv, StoreInv
<1>3. PICK d \in missing[op[t].array] : op[t].value = {d} /\ <<op[t].array, d>> \notin jobs
  BY <1>1, <1>2 DEF ThreadJob
<1>4. PICK a : a = op[t].array
  OBVIOUS
<1>5. a \in Array /\ a \in Members(current) /\ a \in InUse /\ phase = "compute" /\ info_lock[a] = t
  BY <1>1, <1>2, <1>4, MembersInUse DEF ThreadJob
<1>6. d \in missing[a] /\ missing[a] \subseteq Dim /\ d \in Dim
  BY <1>3, <1>4, <1>5 DEF BlockTypes
<1>7. (CHOOSE e \in op[t].value : TRUE) = d
  BY <1>3
<1>8. Old(a) = Dim \ missing[a]
  <2>1. IF missing[a] = Dim THEN size[a] = 0 ELSE Holds(a, Dim \ missing[a])
    BY <1>1, <1>5 DEF ContentInv, Content, Untouched
  <2>2. CASE missing[a] = Dim
    BY <2>1, <2>2 DEF Old
  <2>3. CASE missing[a] # Dim
    <3> DEFINE v == Dim \ missing[a]
    <3>0. v \in SUBSET Dim /\ v # {}
      BY <1>6, <2>3
    <3>1. v \in Value /\ Holds(a, v)
      BY <2>1, <2>3, <3>0, ValueAssumption
    <3>2. size[a] # 0
      <4> HIDE DEF v
      <4>1. SizeOf[v] \in Nat /\ SizeOf[v] > 0
        BY <3>1, ValueAssumption, HeapAssumption
      <4>2. QED
        BY <3>1, <4>1 DEF Holds
    <3>3. \A w \in Value : Holds(a, w) => w = v
      BY <1>5, <3>1, HoldsOne DEF StoreInv
    <3> HIDE DEF v
    <3>4. (CHOOSE w \in Value : Holds(a, w)) = v
      BY <3>1, <3>3
    <3>5. QED
      BY <3>2, <3>4 DEF Old, v
  <2>4. QED
    BY <2>2, <2>3
<1> DEFINE new == op[t].value \cup Old(a)
<1>9. new = Dim \ (missing[a] \ {d}) /\ new \in Value
  BY <1>3, <1>6, <1>8, ValueAssumption
<1>10. /\ Lock(t, a)
       /\ op' = [op EXCEPT ![t].pc = "set", ![t].value = new]
       /\ missing' = [missing EXCEPT ![a] = missing[a] \ {d}]
       /\ section_counts' = Counted(a, missing[a] \ {d}, new)
       /\ died' = (d \notin missing[a])
       /\ UNCHANGED <<storage, heap_lock, slice, phase, current, jobs, info_lock>>
  BY <1>4, <1>7 DEF Combine
<1> HIDE DEF new
<1>11. op' = [op EXCEPT ![t] = [pc |-> "set", array |-> a, value |-> new]]
  <2>1. op \in [Thread -> {Idle} \cup Calls]
    BY DEF StoreInv, StoreTypeOK, Calls, PCs
  <2>2. op' = [op EXCEPT ![t] = [op[t] EXCEPT !.pc = "set", !.value = new]]
    BY <1>10, <2>1
  <2>3. [op[t] EXCEPT !.pc = "set", !.value = new] = [pc |-> "set", array |-> a, value |-> new]
    <3>1. op[t] = [pc |-> op[t].pc, array |-> a, value |-> op[t].value]
      BY <1>2, <1>4 DEF Calls
    <3> DEFINE set == [pc |-> "set", array |-> a, value |-> op[t].value]
    <3>2. [op[t] EXCEPT !.pc = "set"] = set
      BY <3>1
    <3>3. [set EXCEPT !.value = new] = [pc |-> "set", array |-> a, value |-> new]
      OBVIOUS
    <3> HIDE DEF set
    <3>4. [op[t] EXCEPT !.pc = "set", !.value = new] = [set EXCEPT !.value = new]
      BY <3>2
    <3>5. QED
      BY <3>3, <3>4
  <2>4. QED
    BY <2>2, <2>3
<1>12. QED
  BY <1>1, <1>3, <1>4, <1>5, <1>6, <1>9, <1>10, <1>11

LEMMA CombineKeeps ==
  ASSUME BlockInv, NEW t \in Thread, Combine(t)
  PROVE  BlockInv'
<1> USE DEF BlockInv
<1>1. PICK d \in Dim, a \in Array, new \in Value :
           /\ op[t].pc = "read" /\ op[t].array = a /\ op[t].value = {d}
           /\ a \in Members(current) /\ phase = "compute" /\ info_lock[a] = t
           /\ d \in missing[a] /\ <<a, d>> \notin jobs
           /\ new = Dim \ (missing[a] \ {d})
           /\ Lock(t, a) /\ op' = [op EXCEPT ![t] = [pc |-> "set", array |-> a, value |-> new]]
           /\ missing' = [missing EXCEPT ![a] = missing[a] \ {d}]
           /\ section_counts' = Counted(a, missing[a] \ {d}, new)
           /\ ~died /\ died' = FALSE
           /\ UNCHANGED <<storage, heap_lock, slice, phase, current, jobs, info_lock>>
  BY CombineIs
<1> DEFINE call == [pc |-> "set", array |-> a, value |-> new]
<1>2. /\ op'[t] = call /\ call.pc = "set" /\ call.array = a /\ call.value = new
      /\ \A u \in Thread \ {t} : op'[u] = op[u]
  BY <1>1 DEF StoreInv, StoreTypeOK
<1>3. /\ missing' \in [Array -> SUBSET Dim] /\ missing'[a] = missing[a] \ {d}
      /\ \A b \in Array \ {a} : missing'[b] = missing[b]
  <2>1. missing \in [Array -> SUBSET Dim]
    BY DEF BlockTypes
  <2>2. missing' = [missing EXCEPT ![a] = missing[a] \ {d}]
    BY <1>1
  <2>3. missing[a] \ {d} \in SUBSET Dim
    BY <2>1
  <2>4. QED
    BY <2>1, <2>2, <2>3
<1>4. /\ section_counts' \in [Array -> Seq(Value)]
      /\ \A b \in Array \ {a} : section_counts'[b] = section_counts[b]
      /\ section_counts'[a] = IF missing'[a] = {} THEN <<Dim>> ELSE <<>>
  <2>1. section_counts \in [Array -> Seq(Value)] /\ section_counts[a] = <<>>
    BY <1>1 DEF BlockTypes, CountInv
  <2>2. CASE missing'[a] = {}
    <3>1. section_counts' = [section_counts EXCEPT ![a] = Append(section_counts[a], new)] /\ new = Dim
      BY <1>1, <1>3, <2>2 DEF Counted
    <3>2. Append(section_counts[a], new) = <<Dim>> /\ <<Dim>> \in Seq(Value)
      BY <2>1, <3>1
    <3>3. QED
      BY <2>1, <2>2, <3>1, <3>2
  <2>3. CASE missing'[a] # {}
    <3>1. section_counts' = section_counts
      BY <1>1, <1>3, <2>3 DEF Counted
    <3>2. QED
      BY <2>1, <2>3, <3>1
  <2>4. QED
    BY <2>2, <2>3
<1>5. StoreInv' /\ InUse' = InUse /\ \A b \in Array : Keeps(b)
  BY <1>1, LockKeeps
<1> HIDE DEF call
<1>6. BlockTypes'
  BY <1>1, <1>3, <1>4 DEF BlockTypes
<1>7. SliceInv' /\ Members(current)' = Members(current)
  BY <1>1, WithinSlice DEF Within, storage
<1>8. JobInv'
  <2>1. ThreadJob(t)'
    BY <1>1, <1>2, <1>3, <1>7 DEF ThreadJob
  <2>2. ASSUME NEW u \in Thread \ {t} PROVE ThreadJob(u)'
    <3>1. ThreadJob(u) /\ op'[u] = op[u]
      BY <1>2 DEF JobInv
    <3>2. op[u].pc # "idle" => op[u].array # a /\ op[u].array \in Array
      BY <1>1, <3>1, CallOf DEF ThreadJob
    <3>3. op[u].pc # "idle" => missing'[op[u].array] = missing[op[u].array]
      BY <1>3, <3>2
    <3>4. UNCHANGED <<phase, info_lock, jobs>>
      BY <1>1
    <3>5. QED
      BY <1>7, <3>1, <3>3, <3>4 DEF ThreadJob
  <2>3. ASSUME NEW b \in Array PROVE InfoLock(b)'
    <3>1. InfoLock(b) /\ info_lock'[b] = info_lock[b] /\ info_lock[b] \in Thread \cup {None}
      BY <1>1 DEF JobInv, BlockTypes
    <3>2. CASE info_lock[b] = t
      BY <1>1, <1>2, <3>1, <3>2 DEF InfoLock
    <3>3. CASE info_lock[b] # t
      BY <1>2, <3>1, <3>3 DEF InfoLock
    <3>4. QED
      BY <3>2, <3>3
  <2>4. QED
    BY <2>1, <2>2, <2>3 DEF JobInv
<1>9. MissingInv'
  <2>1. ASSUME NEW b \in InUse, NEW e \in Dim, Bringing(b, e), b # a \/ e # d PROVE Bringing(b, e)'
    <3>1. PICK u \in Thread : op[u].pc = "read" /\ op[u].array = b /\ op[u].value = {e}
      BY <2>1 DEF Bringing
    <3>2. op'[u] = op[u]
      BY <1>1, <1>2, <2>1, <3>1
    <3>3. QED
      BY <3>1, <3>2 DEF Bringing
  <2>2. \A b \in Array, e \in Dim : e \in missing'[b] <=> e \in missing[b] /\ (b # a \/ e # d)
    BY <1>3
  <2>3. QED
    BY <1>1, <1>5, <1>7, <2>1, <2>2, MembersInUse DEF MissingInv
<1>10. ContentInv'
  <2> SUFFICES ASSUME NEW b \in InUse, Untouched(b)' PROVE (IF missing[b] = Dim THEN size[b] = 0 ELSE Holds(b, Dim \ missing[b]))'
    BY <1>5 DEF ContentInv, Content
  <2>1. b \in Array /\ info_lock'[b] = info_lock[b]
    BY <1>1, MembersInUse
  <2>2. b # a
    BY <1>1, <1>2, HeapAssumption DEF Untouched
  <2>3. Untouched(b)
    <3>1. info_lock[b] # None => info_lock[b] \in Thread
      BY <2>1 DEF BlockTypes
    <3>2. info_lock[b] # t
      BY <1>1, <2>1, <2>2, HeapAssumption DEF JobInv, InfoLock, BlockTypes
    <3>3. QED
      BY <1>2, <2>1, <3>1, <3>2 DEF Untouched
  <2>4. UNCHANGED <<size, data, heap>> /\ missing'[b] = missing[b]
    BY <1>1, <1>3, <2>1, <2>2 DEF storage
  <2>5. IF missing[b] = Dim THEN size[b] = 0 ELSE Holds(b, Dim \ missing[b])
    BY <2>3 DEF ContentInv, Content
  <2>6. QED
    BY <2>4, <2>5 DEF Holds
<1>11. CountInv'
  BY <1>3, <1>4, <1>7, MembersInUse DEF CountInv
<1>12. QED
  BY <1>5, <1>6, <1>7, <1>8, <1>9, <1>10, <1>11

LEMMA StoreStepKeeps ==
  ASSUME BlockInv, NEW t \in Thread, Store(t), UNCHANGED blockvars
  PROVE  BlockInv'
<1> USE DEF BlockInv
<1>1. /\ StoreInv' /\ InUse' = InUse /\ UNCHANGED <<groups, frozen>>
      /\ op[t].pc \notin {"idle", "read", "write"} /\ op'[t].pc \notin {"idle", "read"}
      /\ op'[t].array = op[t].array /\ op'[t].value = op[t].value
      /\ \A u \in Thread \ {t} : op'[u] = op[u]
      /\ \A b \in InUse \ {op[t].array} : Keeps(b)
  BY StoreKeeps
<1>2. UNCHANGED <<slice, phase, current, jobs, info_lock, missing, section_counts>>
  BY DEF blockvars
<1>3. BlockTypes'
  BY <1>2 DEF BlockTypes
<1>4. SliceInv' /\ Members(current)' = Members(current)
  BY <1>1, <1>2, WithinSlice DEF Within
<1>5. JobInv'
  <2>1. ASSUME NEW u \in Thread
        PROVE  /\ op'[u].pc = "idle" <=> op[u].pc = "idle"
               /\ op'[u].pc = "read" <=> op[u].pc = "read"
               /\ op'[u].array = op[u].array /\ op'[u].value = op[u].value
    BY <1>1
  <2>2. ASSUME NEW u \in Thread PROVE ThreadJob(u)'
    <3>1. ThreadJob(u)
      BY DEF JobInv
    <3>2. QED
      BY <1>2, <1>4, <2>1, <3>1 DEF ThreadJob
  <2>3. ASSUME NEW b \in Array PROVE InfoLock(b)'
    <3>1. InfoLock(b) /\ info_lock[b] \in Thread \cup {None}
      BY DEF JobInv, BlockTypes
    <3>2. QED
      BY <1>2, <2>1, <3>1 DEF InfoLock
  <2>4. QED
    BY <2>2, <2>3 DEF JobInv
<1>6. MissingInv'
  <2>1. ASSUME NEW b \in InUse, NEW e \in Dim, Bringing(b, e) PROVE Bringing(b, e)'
    <3>1. PICK u \in Thread : op[u].pc = "read" /\ op[u].array = b /\ op[u].value = {e}
      BY <2>1 DEF Bringing
    <3>2. op'[u] = op[u]
      BY <1>1, <3>1
    <3>3. QED
      BY <3>1, <3>2 DEF Bringing
  <2>2. QED
    BY <1>1, <1>2, <1>4, <2>1 DEF MissingInv
<1>7. ContentInv'
  <2> SUFFICES ASSUME NEW b \in InUse, Untouched(b)' PROVE Content(b)'
    BY <1>1 DEF ContentInv, Content
  <2>1. b \in Array /\ info_lock[b] \in Thread \cup {None} /\ missing[b] \in SUBSET Dim
    BY MembersInUse DEF BlockTypes
  <2>2. b # op[t].array
    <3>1. b = op[t].array => info_lock[b] = t
      BY <1>1 DEF JobInv, ThreadJob
    <3>2. info_lock'[b] # t
      BY <1>1, HeapAssumption DEF Untouched
    <3>3. QED
      BY <1>2, <3>1, <3>2
  <2>3. Untouched(b)
    BY <1>1, <1>2, <2>1 DEF Untouched
  <2>4. Keeps(b)
    BY <1>1, <2>2
  <2>5. QED
    BY <1>2, <2>3, <2>4, ContentKept
<1>8. CountInv'
  BY <1>2, <1>4 DEF CountInv
<1>9. QED
  BY <1>1, <1>3, <1>4, <1>5, <1>6, <1>7, <1>8

LEMMA FinishKeeps ==
  ASSUME BlockInv, NEW t \in Thread, Finish(t)
  PROVE  BlockInv'
<1> USE DEF BlockInv
<1>1. op[t].pc = "write" /\ op[t].pc # "idle" /\ ThreadJob(t) /\ Idle.pc = "idle"
  BY DEF Finish, End, Write, At, JobInv, Idle
<1>2. PICK a, v : a = op[t].array /\ v = op[t].value
  OBVIOUS
<1>3. /\ a \in Array /\ a \in Members(current) /\ phase = "compute" /\ info_lock[a] = t
      /\ v = Dim \ missing[a]
  BY <1>1, <1>2, CallOf DEF ThreadJob
<1>4. /\ Write(t) /\ info_lock' = [info_lock EXCEPT ![a] = None]
      /\ op' = [op EXCEPT ![t] = Idle]
      /\ UNCHANGED <<slice, phase, current, jobs, missing, section_counts>>
      /\ UNCHANGED <<groups, frozen>>
  BY <1>2 DEF Finish, End, Write
<1>5. /\ StoreInv' /\ InUse' = InUse
      /\ \A b \in InUse \ {a} : Keeps(b)
      /\ a \in InUse /\ v \in Value /\ Holds(a, v)'
  BY <1>2, <1>4, WriteKeeps
<1>6. op'[t] = Idle /\ \A u \in Thread \ {t} : op'[u] = op[u]
  BY <1>4 DEF StoreInv, StoreTypeOK
<1>7. /\ info_lock' \in [Array -> Thread \cup {None}] /\ info_lock'[a] = None
      /\ \A b \in Array \ {a} : info_lock'[b] = info_lock[b]
  BY <1>3, <1>4 DEF BlockTypes
<1>8. BlockTypes'
  BY <1>4, <1>7 DEF BlockTypes
<1>9. SliceInv' /\ Members(current)' = Members(current)
  BY <1>4, WithinSlice DEF Within
<1>10. JobInv'
  <2>1. ThreadJob(t)'
    BY <1>1, <1>6 DEF ThreadJob
  <2>2. ASSUME NEW u \in Thread \ {t} PROVE ThreadJob(u)'
    <3>1. ThreadJob(u) /\ op'[u] = op[u]
      BY <1>6 DEF JobInv
    <3>2. op[u].pc # "idle" => op[u].array # a /\ op[u].array \in Array
      BY <1>3, <3>1, CallOf DEF ThreadJob
    <3>3. op[u].pc # "idle" => info_lock'[op[u].array] = info_lock[op[u].array]
      BY <1>7, <3>2
    <3>4. QED
      BY <1>4, <1>9, <3>1, <3>3 DEF ThreadJob
  <2>3. ASSUME NEW b \in Array PROVE InfoLock(b)'
    <3>1. CASE b = a
      BY <1>7, <3>1 DEF InfoLock
    <3>2. CASE b # a
      <4>1. InfoLock(b) /\ info_lock'[b] = info_lock[b] /\ info_lock[b] \in Thread \cup {None}
        BY <1>7, <3>2 DEF JobInv, BlockTypes
      <4>2. info_lock[b] # t
        BY <1>2, <3>2, <4>1, HeapAssumption DEF InfoLock
      <4>3. QED
        BY <1>6, <4>1, <4>2 DEF InfoLock
    <3>3. QED
      BY <3>1, <3>2
  <2>4. QED
    BY <2>1, <2>2, <2>3 DEF JobInv
<1>11. MissingInv'
  <2>1. ASSUME NEW b \in InUse, NEW e \in Dim, Bringing(b, e) PROVE Bringing(b, e)'
    <3>1. PICK u \in Thread : op[u].pc = "read" /\ op[u].array = b /\ op[u].value = {e}
      BY <2>1 DEF Bringing
    <3>2. op'[u] = op[u]
      BY <1>1, <1>6, <3>1
    <3>3. QED
      BY <3>1, <3>2 DEF Bringing
  <2>2. QED
    BY <1>4, <1>5, <1>9, <2>1 DEF MissingInv
<1>12. ContentInv'
  <2>1. Content(a)'
    <3>1. missing'[a] # Dim /\ Dim \ missing'[a] = v
      BY <1>3, <1>4, <1>5, ValueAssumption
    <3>2. QED
      BY <1>5, <3>1 DEF Content
  <2>2. ASSUME NEW b \in InUse \ {a}, Untouched(b)' PROVE Content(b)'
    <3>1. b \in Array /\ info_lock[b] \in Thread \cup {None} /\ InfoLock(b)
      BY MembersInUse DEF BlockTypes, JobInv
    <3>2. info_lock'[b] = info_lock[b] /\ info_lock[b] # t
      BY <1>2, <1>7, <2>2, <3>1, HeapAssumption DEF InfoLock
    <3>3. Untouched(b)
      BY <1>6, <2>2, <3>1, <3>2 DEF Untouched
    <3>4. QED
      BY <1>4, <1>5, <3>3, ContentKept
  <2>3. QED
    BY <1>5, <2>1, <2>2 DEF ContentInv, Content
<1>13. CountInv'
  BY <1>4, <1>9 DEF CountInv
<1>14. QED
  BY <1>5, <1>8, <1>9, <1>10, <1>11, <1>12, <1>13

-----------------------------------------------------------------------------
(***************************************************************************)
(* The steps of the slice loop, which find every thread idle.              *)
(***************************************************************************)
LEMMA NobodyWorks ==
  ASSUME BlockInv, \A t \in Thread : op[t].pc = "idle"
  PROVE  /\ \A a \in Array : info_lock[a] = None
         /\ \A a \in InUse, d \in Dim : d \in missing[a] => <<a, d>> \in jobs
         /\ UNCHANGED <<op, info_lock>> => JobInv'
<1> USE DEF BlockInv
<1>1. ASSUME NEW a \in Array PROVE info_lock[a] = None
  BY DEF JobInv, InfoLock, BlockTypes
<1>2. \A a \in InUse, d \in Dim : ~Bringing(a, d)
  BY DEF Bringing
<1>3. \A a \in InUse, d \in Dim : d \in missing[a] => <<a, d>> \in jobs
  BY <1>2 DEF MissingInv
<1>4. UNCHANGED <<op, info_lock>> => JobInv'
  BY <1>1 DEF JobInv, ThreadJob, InfoLock
<1>5. QED
  BY <1>1, <1>3, <1>4

LEMMA NewSliceKeeps ==
  ASSUME BlockInv, NEW g \in Group, NewSlice(g)
  PROVE  BlockInv'
<1> USE DEF BlockInv
<1>1. /\ phase = "allocate" /\ slice <= MaxSlices /\ AllocateGroup(g)
      /\ phase' = "compute" /\ current' = g /\ slice' = slice
      /\ jobs' = Members(g)' \X Dim
      /\ missing' = [a \in Array |-> IF a[1] = g THEN Dim ELSE missing[a]]
      /\ info_lock' = [a \in Array |-> IF a[1] = g THEN None ELSE info_lock[a]]
      /\ section_counts' = [a \in Array |-> <<>>]
  BY DEF NewSlice
<1>2. /\ Quiet /\ g \notin groups /\ groups' = groups \cup {g} /\ op' = op
      /\ frozen' = [a \in Array |-> frozen[a] /\ a[1] # g]
  BY <1>1 DEF AllocateGroup
<1>3. /\ StoreInv' /\ \A b \in InUse : b \in InUse' /\ Keeps(b)
      /\ \A b \in InUse' \ InUse : b[1] = g /\ size'[b] = 0
  BY <1>1, AllocateGroupKeeps
<1>4. \A t \in Thread : op[t].pc = "idle"
  BY <1>2, QuietIs
<1>5. /\ \A a \in Array : info_lock[a] = None
      /\ \A a \in InUse, d \in Dim : d \in missing[a] => <<a, d>> \in jobs
  BY <1>4, NobodyWorks
<1>6. \A a \in Array : a \in Members(current)' <=> a[1] = g
  BY <1>1, <1>2 DEF Members
<1>7. /\ \A a \in InUse' : a \in Array /\ (a \in InUse <=> a[1] # g)
      /\ \A a \in InUse : a \in Array /\ a \in InUse' /\ a[1] # g
      /\ Members(current)' \subseteq Array
  BY <1>1, <1>2, InUseFinite DEF InUse, Members
<1>8. BlockTypes'
  <2>1. jobs' \subseteq Array \X Dim
    BY <1>1, <1>7
  <2>2. missing' \in [Array -> SUBSET Dim] /\ info_lock' \in [Array -> Thread \cup {None}]
    BY <1>1 DEF BlockTypes
  <2>3. <<>> \in Seq(Value)
    OBVIOUS
  <2>4. section_counts' \in [Array -> Seq(Value)]
    BY <1>1, <2>3
  <2>5. QED
    BY <1>1, <2>1, <2>2, <2>4 DEF BlockTypes
<1>9. JobInv'
  <2>1. \A a \in Array : info_lock'[a] = None
    BY <1>1, <1>5
  <2>2. QED
    BY <1>2, <1>4, <2>1 DEF JobInv, ThreadJob, InfoLock
<1>10. \A a \in InUse : missing[a] = {}
  <2>1. jobs = {}
    BY <1>1 DEF MissingInv, BlockTypes
  <2>2. QED
    BY <1>5, <1>7, <2>1 DEF BlockTypes
<1>11. \A a \in Array : missing'[a] = IF a[1] = g THEN Dim ELSE missing[a]
  BY <1>1
<1>12. MissingInv'
  <2>1. ASSUME NEW a \in Array, NEW d \in Dim, <<a, d>> \in jobs' PROVE a \in Members(current)' /\ d \in missing'[a]
    BY <1>1, <1>6, <1>11, <2>1
  <2>2. ASSUME NEW a \in InUse', NEW d \in Dim, d \in missing'[a] PROVE <<a, d>> \in jobs'
    <3>1. a[1] = g /\ a \in Array
      BY <1>7, <1>10, <1>11, <2>2
    <3>2. QED
      BY <1>1, <1>6, <3>1
  <2>3. QED
    BY <1>1, <2>1, <2>2 DEF MissingInv
<1>13. SliceInv'
  <2>1. ASSUME NEW a \in InUse' PROVE frozen'[a] <=> ~Open(a)'
    <3>1. a \in Array /\ (frozen'[a] <=> frozen[a] /\ a[1] # g)
      BY <1>2, <1>7
    <3>2. Open(a)' <=> a[1] = g
      BY <1>1, <1>6, <3>1 DEF Open
    <3>3. a[1] # g => frozen[a]
      BY <1>1, <1>7 DEF SliceInv, Open
    <3>4. QED
      BY <3>1, <3>2, <3>3
  <2>2. QED
    BY <1>1, <1>2, <2>1 DEF SliceInv
<1>14. ContentInv'
  <2> SUFFICES ASSUME NEW b \in InUse' PROVE Content(b)'
    BY DEF ContentInv
  <2>1. CASE b \in InUse
    <3>1. Untouched(b) /\ missing'[b] = missing[b]
      BY <1>5, <1>7, <1>11, <2>1 DEF Untouched
    <3>2. QED
      BY <1>3, <2>1, <3>1, ContentKept
  <2>2. CASE b \notin InUse
    <3>1. size'[b] = 0 /\ missing'[b] = Dim
      BY <1>3, <1>7, <1>11, <2>2
    <3>2. QED
      BY <3>1 DEF Content
  <2>3. QED
    BY <2>1, <2>2
<1>15. CountInv'
  <2> SUFFICES ASSUME NEW a \in Members(current)' PROVE section_counts'[a] = <<>> /\ missing'[a] # {}
    BY DEF CountInv
  <2>1. a \in Array /\ missing'[a] = Dim
    BY <1>6, <1>7, <1>11
  <2>2. QED
    BY <1>1, <2>1, ValueAssumption
<1>16. QED
  BY <1>3, <1>8, <1>9, <1>12, <1>13, <1>14, <1>15

LEMMA DropPreviousKeeps ==
  ASSUME BlockInv, DropPrevious
  PROVE  BlockInv'
<1> USE DEF BlockInv
<1>1. /\ phase = "compute" /\ Quiet /\ jobs = {} /\ phase' = "freeze" /\ current \in Group
      /\ IF groups = {current} THEN UNCHANGED storevars ELSE ClearGroup(1 - current)
      /\ UNCHANGED <<slice, current, jobs, info_lock, missing, section_counts>>
  BY DEF DropPrevious, BlockTypes
<1>2. groups \subseteq Group /\ current \in groups
  BY <1>1 DEF SliceInv, StoreInv, StoreTypeOK
<1>3. /\ groups' = {current} /\ UNCHANGED <<op, frozen>>
      /\ StoreInv' /\ \A b \in InUse : Keeps(b)
  <2>1. CASE groups = {current}
    <3>1. /\ UNCHANGED storevars
          /\ UNCHANGED <<groups, size, data, frozen, heap_next, heap, array_lock, heap_lock, op, died>>
      BY <1>1, <2>1 DEF storevars, storage, locks
    <3>2. StoreInv'
      BY <3>1 DEF StoreInv, StoreTypeOK, LockInv, ThreadLocks, ArrayLock, SpaceInv, Insufficient,
                  LayoutInv, Extent, Writing, Room, Apart, InUse, Members
    <3>3. \A b \in InUse : Keeps(b)
      BY <3>1 DEF Keeps, Writing, Holds
    <3>4. QED
      BY <2>1, <3>1, <3>2, <3>3
  <2>2. CASE groups # {current}
    <3>1. ClearGroup(1 - current) /\ 1 - current \in Group
      BY <1>1, <2>2 DEF Group
    <3>2. groups' = groups \ {1 - current} /\ UNCHANGED <<op, frozen>>
      BY <3>1 DEF ClearGroup
    <3>3. groups' = {current}
      <4>1. \A g \in Group : g # 1 - current <=> g = current
        BY <1>1 DEF Group
      <4>2. \A g : g \in groups' <=> g = current
        BY <1>2, <3>2, <4>1
      <4>3. QED
        BY <4>2
    <3>4. StoreInv' /\ \A b \in InUse : Keeps(b)
      BY <3>1, ClearGroupKeeps
    <3>5. QED
      BY <3>2, <3>3, <3>4
  <2>3. QED
    BY <2>1, <2>2
<1>4. /\ \A a \in Array : info_lock[a] = None
      /\ UNCHANGED <<op, info_lock>> => JobInv'
  BY <1>1, NobodyWorks, QuietIs
<1>5. BlockTypes'
  BY <1>1 DEF BlockTypes
<1>6. InUse' \subseteq InUse /\ Members(current)' = Members(current) /\ InUse \subseteq Array
      /\ \A a \in InUse' : a \in Members(current)
  BY <1>1, <1>2, <1>3, InUseFinite DEF InUse, Members, Group
<1>7. MissingInv'
  <2>1. \A a \in InUse, d \in Dim : d \in missing[a] => <<a, d>> \in jobs
    BY <1>1, NobodyWorks, QuietIs
  <2>2. QED
    BY <1>1, <1>6, <2>1 DEF MissingInv
<1>8. SliceInv'
  <2>1. \A a \in InUse' : frozen'[a] <=> ~Open(a)'
    BY <1>1, <1>3, <1>6 DEF SliceInv, Open
  <2>2. QED
    BY <1>1, <1>3, <2>1 DEF SliceInv
<1>9. ContentInv'
  <2> SUFFICES ASSUME NEW b \in InUse' PROVE Content(b)'
    BY DEF ContentInv
  <2>1. b \in InUse /\ Keeps(b) /\ Untouched(b) /\ missing'[b] = missing[b]
    BY <1>1, <1>3, <1>4, <1>6 DEF Untouched
  <2>2. QED
    BY <2>1, ContentKept
<1>10. CountInv'
  BY <1>1, <1>6 DEF CountInv
<1>11. QED
  BY <1>1, <1>3, <1>4, <1>5, <1>7, <1>8, <1>9, <1>10

LEMMA FreezeSliceKeeps ==
  ASSUME BlockInv, FreezeSlice
  PROVE  BlockInv'
<1> USE DEF BlockInv
<1>1. /\ phase = "freeze" /\ Freeze(current) /\ phase' = "allocate" /\ slice' = slice + 1
      /\ current \in Group
      /\ UNCHANGED <<current, jobs, info_lock, missing, section_counts>>
  BY DEF FreezeSlice, BlockTypes
<1>2. /\ Quiet /\ groups = {current} /\ UNCHANGED <<groups, op>>
      /\ frozen' = [a \in Array |-> frozen[a] \/ a[1] = current]
  BY <1>1 DEF Freeze
<1>3. StoreInv' /\ InUse' = InUse /\ \A b \in InUse : Keeps(b)
  BY <1>1, FreezeKeeps
<1>4. /\ \A a \in Array : info_lock[a] = None
      /\ \A a \in InUse, d \in Dim : d \in missing[a] => <<a, d>> \in jobs
      /\ UNCHANGED <<op, info_lock>> => JobInv'
  BY <1>2, NobodyWorks, QuietIs
<1>5. BlockTypes'
  <2>1. slice \in 1 .. MaxSlices + 1 /\ slice <= MaxSlices
    BY <1>1 DEF SliceInv, BlockTypes
  <2>2. slice' \in 1 .. MaxSlices + 1
    BY <1>1, <2>1, ValueAssumption
  <2>3. QED
    BY <1>1, <2>2 DEF BlockTypes
<1>6. Members(current)' = Members(current) /\ InUse \subseteq Array
      /\ \A a \in InUse : a[1] = current
  BY <1>1, <1>2, InUseFinite DEF InUse, Members
<1>7. MissingInv'
  <2>1. \A a \in Array, d \in Dim : <<a, d>> \notin jobs
    BY <1>1 DEF MissingInv
  <2>2. QED
    BY <1>1, <1>3, <1>4, <2>1 DEF MissingInv
<1>8. SliceInv'
  <2>1. \A a \in InUse' : frozen'[a] <=> ~Open(a)'
    BY <1>1, <1>2, <1>3, <1>6 DEF Open
  <2>2. QED
    BY <1>1, <1>2, <2>1 DEF SliceInv
<1>9. ContentInv'
  <2> SUFFICES ASSUME NEW b \in InUse PROVE Content(b)'
    BY <1>3 DEF ContentInv
  <2>1. Untouched(b) /\ missing'[b] = missing[b]
    BY <1>1, <1>4, <1>6 DEF Untouched
  <2>2. QED
    BY <1>3, <2>1, ContentKept
<1>10. CountInv'
  BY <1>1, <1>6 DEF CountInv
<1>11. QED
  BY <1>1, <1>2, <1>3, <1>4, <1>5, <1>7, <1>8, <1>9, <1>10

-----------------------------------------------------------------------------
(***************************************************************************)
(* The theorems.                                                           *)
(***************************************************************************)
LEMMA InitBlockInv == Init => BlockInv
<1> SUFFICES ASSUME Init PROVE BlockInv
  OBVIOUS
<1>1. StoreInv /\ InUse = {} /\ groups = {}
  BY InitStoreInv DEF Init, StoreInit
<1>2. /\ slice = 1 /\ phase = "allocate" /\ current = 0 /\ jobs = {}
      /\ info_lock = [a \in Array |-> None] /\ missing = [a \in Array |-> {}]
      /\ section_counts = [a \in Array |-> <<>>]
  BY DEF Init
<1>3. BlockTypes
  <2>1. slice \in 1 .. MaxSlices + 1 /\ current \in Group
    BY <1>2, ValueAssumption DEF Group
  <2>2. <<>> \in Seq(Value)
    OBVIOUS
  <2>3. section_counts \in [Array -> Seq(Value)]
    BY <1>2, <2>2
  <2>4. QED
    BY <1>2, <2>1, <2>3 DEF BlockTypes
<1>4. JobInv
  <2>1. \A t \in Thread : op[t].pc = "idle"
    BY DEF Init, StoreInit, Idle
  <2>2. QED
    BY <1>2, <2>1 DEF JobInv, ThreadJob, InfoLock
<1>5. Members(current) = {}
  BY <1>1 DEF Members
<1>6. QED
  BY <1>1, <1>2, <1>3, <1>4, <1>5 DEF BlockInv, MissingInv, SliceInv, ContentInv, CountInv

LEMMA NextBlockInv == BlockInv /\ [Next]_vars => BlockInv'
<1> SUFFICES ASSUME BlockInv, [Next]_vars PROVE BlockInv'
  OBVIOUS
<1>1. ASSUME NEW t \in Thread, Work(t) PROVE BlockInv'
  <2>1. ASSUME NEW a \in Array, NEW d \in Dim, LockInfo(t, a, d) PROVE BlockInv'
    BY <2>1, LockInfoKeeps
  <2>2. CASE Combine(t)
    BY <2>2, CombineKeeps
  <2>3. CASE Store(t) /\ UNCHANGED blockvars
    BY <2>3, StoreStepKeeps
  <2>4. CASE Finish(t)
    BY <2>4, FinishKeeps
  <2>5. QED
    BY <1>1, <2>1, <2>2, <2>3, <2>4 DEF Work
<1>2. ASSUME NEW g \in Group, NewSlice(g) PROVE BlockInv'
  BY <1>2, NewSliceKeeps
<1>3. CASE DropPrevious
  BY <1>3, DropPreviousKeeps
<1>4. CASE FreezeSlice
  BY <1>4, FreezeSliceKeeps
<1>5. CASE UNCHANGED vars
  <2>1. UNCHANGED <<groups, size, data, frozen, heap_next, heap, array_lock, heap_lock, op, died>>
    BY <1>5 DEF vars, storevars, storage, locks
  <2>2. UNCHANGED <<slice, phase, current, jobs, info_lock, missing, section_counts>>
    BY <1>5 DEF vars, blockvars
  <2>3. StoreInv'
    BY <2>1 DEF BlockInv, StoreInv, StoreTypeOK, LockInv, ThreadLocks, ArrayLock, SpaceInv,
                Insufficient, LayoutInv, Extent, Writing, Room, Apart, InUse, Members
  <2>4. BlockTypes' /\ JobInv' /\ CountInv'
    BY <2>1, <2>2 DEF BlockInv, BlockTypes, JobInv, ThreadJob, InfoLock, CountInv, Members
  <2>5. SliceInv' /\ Members(current)' = Members(current) /\ InUse' = InUse
    BY <2>1, <2>2, WithinSlice DEF BlockInv, Within
  <2>6. ContentInv'
    BY <2>1, <2>2 DEF BlockInv, ContentInv, Content, Untouched, Holds, InUse, Members
  <2>7. MissingInv'
    BY <2>1, <2>2, <2>5 DEF BlockInv, MissingInv, Bringing
  <2>8. QED
    BY <2>3, <2>4, <2>5, <2>6, <2>7 DEF BlockInv
<1>6. QED
  BY <1>1, <1>2, <1>3, <1>4, <1>5 DEF Next, Advance

\* Whatever the threads do, their locks, the layout of the heap, the jobs and the blocks agree
THEOREM BlocksInvariance == Spec => []BlockInv
BY InitBlockInv, NextBlockInv, PTL DEF Spec

\* The types of the variables of the store and of the slice loop
THEOREM BlocksTypeCorrect == Spec => []TypeOK
<1>1. BlockInv => TypeOK
  BY DEF BlockInv, StoreInv, BlockTypes, TypeOK
<1>2. QED
  BY <1>1, BlocksInvariance, PTL

\* No contribution to a block is lost or doubled (accumulate), and a frozen block, which other
\* ranks may be sent, is complete
THEOREM BlocksHoldContributions == Spec => []HoldsContributions
<1>1. ASSUME BlockInv PROVE HoldsContributions
  <2> USE <1>1 DEF BlockInv
  <2> SUFFICES ASSUME NEW a \in InUse
               PROVE  /\ info_lock[a] = None => ValueOf(a) = IF missing[a] = Dim THEN NoValue ELSE Dim \ missing[a]
                      /\ frozen[a] => missing[a] = {} /\ ValueOf(a) = Dim
    BY DEF HoldsContributions
  <2>1. a \in Array /\ a[1] \in groups /\ missing[a] \in SUBSET Dim
    BY MembersInUse DEF BlockTypes, InUse, Members
  <2>2. info_lock[a] = None => ValueOf(a) = IF missing[a] = Dim THEN NoValue ELSE Dim \ missing[a]
    <3> SUFFICES ASSUME info_lock[a] = None
                 PROVE  ValueOf(a) = IF missing[a] = Dim THEN NoValue ELSE Dim \ missing[a]
      OBVIOUS
    <3>1. IF missing[a] = Dim THEN size[a] = 0 ELSE Holds(a, Dim \ missing[a])
      BY DEF ContentInv, Content, Untouched
    <3>2. ~Writing(a)
      BY <2>1, UntouchedNotWriting DEF Untouched
    <3>3. CASE missing[a] = Dim
      BY <2>1, <3>1, <3>3, ValueIs
    <3>4. CASE missing[a] # Dim
      <4>1. Dim \ missing[a] \in SUBSET Dim /\ Dim \ missing[a] # {}
        BY <2>1, <3>4
      <4>2. PICK v \in Value : v = Dim \ missing[a]
        BY <4>1, ValueAssumption
      <4>3. Holds(a, v)
        BY <3>1, <3>4, <4>2
      <4>4. size[a] \in Nat \ {0}
        BY <4>3, ValueAssumption, HeapAssumption DEF Holds
      <4>5. ValueOf(a) = v
        BY <2>1, <3>2, <4>3, <4>4, ValueIs
      <4>6. QED
        BY <3>4, <4>2, <4>5
    <3>5. QED
      BY <3>3, <3>4
  <2>3. frozen[a] => missing[a] = {} /\ info_lock[a] = None
    <3> SUFFICES ASSUME ~Open(a) PROVE missing[a] = {} /\ info_lock[a] = None
      BY DEF SliceInv
    <3>1. ASSUME NEW t \in Thread, op[t].pc # "idle" PROVE op[t].array # a
      BY <3>1 DEF JobInv, ThreadJob, Open
    <3>2. info_lock[a] = None
      BY <2>1, <3>1 DEF JobInv, InfoLock, BlockTypes
    <3>3. ASSUME NEW d \in missing[a] PROVE FALSE
      <4>1. <<a, d>> \notin jobs
        BY <2>1 DEF MissingInv, Open
      <4>2. ~Bringing(a, d)
        BY <3>1 DEF Bringing
      <4>3. QED
        BY <2>1, <4>1, <4>2 DEF MissingInv
    <3>4. QED
      BY <3>2, <3>3
  <2>4. QED
    BY <2>2, <2>3, ValueAssumption
<1>2. QED
  BY <1>1, BlocksInvariance, PTL

\* The wins of a block are counted when its last contribution has come, and never again
THEOREM BlocksCountedOnceComplete == Spec => []CountedOnceComplete
<1>1. BlockInv => CountedOnceComplete
  BY DEF BlockInv, CountInv, CountedOnceComplete
<1>2. QED
  BY <1>1, BlocksInvariance, PTL

-----------------------------------------------------------------------------
(***************************************************************************)
(* The store the blocks are in: what it promises, and room for the blocks. *)
(***************************************************************************)
\* Nobody works on a frozen block, and it is complete
LEMMA FrozenComplete ==
  ASSUME BlockInv, NEW a \in InUse, frozen[a]
  PROVE  /\ \A t \in Thread : op[t].pc # "idle" => op[t].array # a
         /\ missing[a] = {} /\ info_lock[a] = None /\ size[a] > 0
<1> USE DEF BlockInv
<1>1. ~Open(a) /\ a \in Array /\ missing[a] \in SUBSET Dim
  BY MembersInUse DEF SliceInv, BlockTypes
<1>2. \A t \in Thread : op[t].pc # "idle" => op[t].array # a
  BY <1>1 DEF JobInv, ThreadJob, Open
<1>3. info_lock[a] = None
  BY <1>1, <1>2 DEF JobInv, InfoLock, BlockTypes
<1>4. missing[a] = {}
  <2> SUFFICES ASSUME NEW d \in missing[a] PROVE FALSE
    OBVIOUS
  <2>1. <<a, d>> \notin jobs
    BY <1>1 DEF MissingInv, Open
  <2>2. ~Bringing(a, d)
    BY <1>2 DEF Bringing
  <2>3. QED
    BY <1>1, <2>1, <2>2 DEF MissingInv
<1>5. Holds(a, Dim)
  <2>1. Dim # {} /\ Dim \ {} = Dim
    BY ValueAssumption
  <2>2. QED
    BY <1>3, <1>4, <2>1 DEF ContentInv, Content, Untouched
<1>6. size[a] > 0
  BY <1>5, ValueAssumption DEF Holds
<1>7. QED
  BY <1>2, <1>3, <1>4, <1>6

LEMMA OneWorker ==
  ASSUME BlockInv, NEW t \in Thread, NEW u \in Thread,
         op[t].pc # "idle", op[u].pc # "idle", op[t].array = op[u].array
  PROVE  t = u
BY DEF BlockInv, JobInv, ThreadJob

\* To lock a block, or its lock in the store, changes nothing that the store shows
LEMMA LockPromises ==
  ASSUME PromiseInv, StoreInv', NEW t \in Thread, NEW a \in InUse, ~frozen[a],
         storage' = storage, op[t].pc # "write", op'[t].array = a,
         \A u \in Thread \ {t} : op'[u] = op[u],
         \A b \in InUse : Keeps(b)
  PROVE  PromiseInv' /\ Promises
<1>1. groups' = groups /\ frozen' = frozen /\ size' = size /\ data' = data
  BY DEF storage
<1>2. InUse' = InUse /\ size[a] \in Nat
  BY <1>1, InUseFinite, HeapAssumption DEF InUse, Members, PromiseInv, StoreInv, StoreTypeOK
<1>3. Valued(a)'
  <2>1. Writing(a) => Writing(a)'
    <3> SUFFICES ASSUME NEW u \in Thread, op[u].pc = "write", op[u].array = a PROVE Writing(a)'
      BY DEF Writing
    <3>1. op'[u] = op[u]
      OBVIOUS
    <3>2. QED
      BY <3>1 DEF Writing
  <2>2. Valued(a) /\ Keeps(a) /\ a \in InUse'
    BY <1>2 DEF PromiseInv, ValuesInv
  <2>3. QED
    BY <1>2, <2>1, <2>2, ValueKept
<1>4. QED
  BY <1>1, <1>2, <1>3, ThreadPromises

LEMMA LockInfoPromises ==
  ASSUME BlockInv, PromiseInv, NEW t \in Thread, NEW a \in Array, NEW d \in Dim, LockInfo(t, a, d)
  PROVE  PromiseInv' /\ Promises
<1> DEFINE call == [pc |-> "read", array |-> a, value |-> {d}]
<1>1. /\ At(t, "idle") /\ op[t].pc = "idle" /\ <<a, d>> \in jobs /\ op' = [op EXCEPT ![t] = call]
      /\ UNCHANGED <<storage, locks, died>>
  BY DEF LockInfo, At
<1>2. call.array = a
  OBVIOUS
<1>3. a \in InUse /\ Open(a) /\ ~frozen[a] /\ {d} \in Value
  <2>1. a \in Members(current) /\ phase = "compute"
    BY <1>1 DEF BlockInv, MissingInv
  <2>2. a \in InUse
    BY <2>1, MembersInUse DEF BlockInv
  <2>3. QED
    BY <2>1, <2>2, ValueAssumption DEF BlockInv, SliceInv, Open
<1>4. StoreInv' /\ \A b \in InUse : Keeps(b)
  BY <1>1, <1>3, InUseFinite, ReadKeeps DEF PromiseInv
<1> HIDE DEF call
<1>5. op'[t].array = a /\ \A u \in Thread \ {t} : op'[u] = op[u]
  BY <1>1, <1>2 DEF PromiseInv, StoreInv, StoreTypeOK
<1>6. QED
  BY <1>1, <1>3, <1>4, <1>5, LockPromises

LEMMA CombinePromises ==
  ASSUME BlockInv, PromiseInv, NEW t \in Thread, Combine(t)
  PROVE  PromiseInv' /\ Promises /\ ~died'
<1>1. PICK a \in Array, new \in Value :
        /\ op[t].pc = "read" /\ op[t].array = a
        /\ a \in Members(current) /\ phase = "compute"
        /\ Lock(t, a) /\ op' = [op EXCEPT ![t] = [pc |-> "set", array |-> a, value |-> new]]
        /\ ~died /\ died' = FALSE
        /\ UNCHANGED <<storage, heap_lock>>
  <2>1. PICK d \in Dim, a \in Array, new \in Value :
           /\ op[t].pc = "read" /\ op[t].array = a /\ op[t].value = {d}
           /\ a \in Members(current) /\ phase = "compute" /\ info_lock[a] = t
           /\ d \in missing[a] /\ <<a, d>> \notin jobs
           /\ new = Dim \ (missing[a] \ {d})
           /\ Lock(t, a) /\ op' = [op EXCEPT ![t] = [pc |-> "set", array |-> a, value |-> new]]
           /\ missing' = [missing EXCEPT ![a] = missing[a] \ {d}]
           /\ section_counts' = Counted(a, missing[a] \ {d}, new)
           /\ ~died /\ died' = FALSE
           /\ UNCHANGED <<storage, heap_lock, slice, phase, current, jobs, info_lock>>
    BY CombineIs
  <2>2. QED
    BY <2>1
<1> DEFINE call == [pc |-> "set", array |-> a, value |-> new]
<1>2. call.array = a
  OBVIOUS
<1>3. a \in InUse /\ ~frozen[a]
  <2>1. a \in InUse
    BY <1>1, MembersInUse DEF BlockInv
  <2>2. QED
    BY <1>1, <2>1 DEF BlockInv, SliceInv, Open
<1>4. StoreInv' /\ \A b \in InUse : Keeps(b)
  BY <1>1, InUseFinite, LockKeeps DEF PromiseInv
<1> HIDE DEF call
<1>5. op'[t].array = a /\ \A u \in Thread \ {t} : op'[u] = op[u]
  BY <1>1, <1>2 DEF PromiseInv, StoreInv, StoreTypeOK, call
<1>6. QED
  BY <1>1, <1>3, <1>4, <1>5, LockPromises

\* Every step of the block store is a step of ArrayStore, or one it does not see
LEMMA NextBlockPromises == BlockInv /\ PromiseInv /\ [Next]_vars => PromiseInv' /\ Promises
<1> SUFFICES ASSUME BlockInv, PromiseInv, [Next]_vars PROVE PromiseInv' /\ Promises
  OBVIOUS
<1>1. ASSUME NEW t \in Thread, Work(t) PROVE PromiseInv' /\ Promises
  <2>1. ASSUME NEW a \in Array, NEW d \in Dim, LockInfo(t, a, d) PROVE PromiseInv' /\ Promises
    BY <2>1, LockInfoPromises
  <2>2. CASE Combine(t)
    BY <2>2, CombinePromises
  <2>3. CASE Store(t)
    BY <2>3, StorePromises
  <2>4. CASE Finish(t)
    BY <2>4, EndPromises DEF Finish
  <2>5. QED
    BY <1>1, <2>1, <2>2, <2>3, <2>4 DEF Work
<1>2. ASSUME NEW g \in Group, NewSlice(g) PROVE PromiseInv' /\ Promises
  BY <1>2, AllocateGroupPromises DEF NewSlice
<1>3. CASE UNCHANGED storevars
  BY <1>3, NextPromises
<1>4. CASE DropPrevious
  <2>1. 1 - current \in Group
    BY DEF BlockInv, BlockTypes, Group
  <2>2. CASE ClearGroup(1 - current)
    BY <2>1, <2>2, ClearGroupPromises
  <2>3. QED
    BY <1>3, <1>4, <2>2 DEF DropPrevious
<1>5. CASE FreezeSlice
  BY <1>5, FreezePromises DEF FreezeSlice, BlockInv, BlockTypes
<1>6. QED
  BY <1>1, <1>2, <1>3, <1>4, <1>5 DEF Next, Advance, vars

\* The blocks of the solve are in a store that keeps its promise: while contributions are combined, a
\* collection moves no block of the previous slice, which lines and other ranks still read
THEOREM BlocksKeepValues == Spec => KeepsValues
<1>1. Init => PromiseInv /\ Promise!Init
  BY InitPromise DEF Init
<1>2. BlockInv /\ PromiseInv /\ [Next]_vars => PromiseInv'
  BY NextBlockPromises
<1>3. BlockInv /\ PromiseInv /\ [Next]_vars => [Promise!Next]_Promise!vars
  BY NextBlockPromises DEF Promises
<1>4. QED
  BY <1>1, <1>2, <1>3, BlocksInvariance, PTL DEF Spec, KeepsValues, Promise!Spec

-----------------------------------------------------------------------------
(***************************************************************************)
(* info.lock keeps two threads from setting the same block, so that one    *)
(* that collects has itself left an array empty: the heap needs no room for*)
(* one more value.  Frozen blocks are complete, and none of them is empty. *)
(***************************************************************************)
Deallocated == \A t \in Thread : op[t].pc \in {"heap", "grab"} => size[op[t].array] = 0

RoomInv == HeapInv /\ Deallocated /\ ~died

\* A thread's step that leaves the heap and the arrays alone
LEMMA RoomKept ==
  ASSUME StoreInv, RoomInv, NEW t \in Thread, \A u \in Thread \ {t} : op'[u] = op[u],
         op'[t].pc \notin {"heap", "grab", "release"}, storage' = storage, ~died'
  PROVE  RoomInv'
<1>1. size' = size /\ heap_next' = heap_next
  BY DEF storage
<1>2. HeapInv'
  BY <1>1, HeapKept DEF RoomInv
<1>3. Deallocated'
  <2>1. ASSUME NEW u \in Thread, op'[u].pc \in {"heap", "grab"} PROVE size'[op'[u].array] = 0
    <3>1. op'[u] = op[u]
      BY <2>1
    <3>2. QED
      BY <1>1, <2>1, <3>1 DEF RoomInv, Deallocated
  <2>2. QED
    BY <2>1 DEF Deallocated
<1>4. QED
  BY <1>2, <1>3 DEF RoomInv

LEMMA StoreNeverFull ==
  ASSUME BlockInv, PromiseInv, RoomInv, NEW m \in Nat, Fits(m), NEW t \in Thread, Store(t)
  PROVE  RoomInv'
<1>1. /\ InUse' = InUse /\ op[t].pc \notin {"idle", "read", "write"}
      /\ op'[t].array = op[t].array
      /\ \A u \in Thread \ {t} : op'[u] = op[u]
      /\ \A b \in InUse \ {op[t].array} : Keeps(b)
  BY StoreKeeps DEF BlockInv
<1>2. HeapInv' /\ (died' => \E a \in InUse : frozen[a] /\ size[a] = 0)
  BY StoreRoom DEF RoomInv, Deallocated
<1>3. ~died'
  BY <1>2, FrozenComplete
<1>4. ASSUME NEW u \in Thread \ {t}, op'[u].pc \in {"heap", "grab"} PROVE size'[op'[u].array] = 0
  <2>1. op'[u] = op[u] /\ op[u].pc \in {"heap", "grab"}
    BY <1>1, <1>4
  <2>2. PICK b : b = op[u].array
    OBVIOUS
  <2>3. b \in InUse /\ b # op[t].array
    BY <1>1, <2>1, <2>2, OneWorker DEF BlockInv, StoreInv, LockInv, ThreadLocks
  <2>4. ~Writing(b)
    <3> SUFFICES ASSUME NEW w \in Thread, op[w].pc = "write", op[w].array = b PROVE FALSE
      BY DEF Writing
    <3>1. w = u
      BY <2>1, <2>2, OneWorker
    <3>2. QED
      BY <2>1, <3>1
  <2>5. size'[b] = size[b]
    BY <1>1, <2>3, <2>4 DEF Keeps
  <2>6. QED
    BY <2>1, <2>2, <2>5 DEF RoomInv, Deallocated
<1>5. ASSUME op'[t].pc \in {"heap", "grab"} PROVE size'[op[t].array] = 0
  <2>1. op[t].array \in Array /\ size \in [Array -> 0 .. HeapSize]
    BY <1>1, InUseFinite DEF BlockInv, StoreInv, LockInv, ThreadLocks, StoreTypeOK
  <2>2. \A pc \in PCs : Goto(t, pc) => op'[t].pc = pc
    BY <1>1, Goes DEF BlockInv, StoreInv
  <2>3. CASE Deallocate(t)
    BY <2>1, <2>3 DEF Deallocate
  <2>4. CASE LockHeap(t) \/ GrabArray(t)
    <3>1. size' = size /\ op[t].pc \in {"heap", "grab"}
      BY <2>4 DEF LockHeap, GrabArray, At, storage
    <3>2. QED
      BY <3>1 DEF RoomInv, Deallocated
  <2>5. CASE SetInPlace(t) \/ CollectAll(t) \/ CheckSpace(t) \/ Allocate(t)
    <3>1. op'[t].pc \in {"write", "release", "allocate"}
      BY <2>2, <2>5 DEF SetInPlace, CollectAll, CheckSpace, Allocate, PCs
    <3>2. QED
      BY <1>5, <3>1
  <2>6. CASE ReleaseArray(t)
    <3>1. op'[t].pc = "release"
      BY <2>6 DEF ReleaseArray, At
    <3>2. QED
      BY <1>5, <3>1
  <2>7. QED
    BY <2>3, <2>4, <2>5, <2>6 DEF Store
<1>6. Deallocated'
  BY <1>1, <1>4, <1>5 DEF Deallocated
<1>7. QED
  BY <1>2, <1>3, <1>6 DEF RoomInv

LEMMA FinishNeverFull ==
  ASSUME BlockInv, RoomInv, NEW t \in Thread, Finish(t)
  PROVE  RoomInv'
<1>1. /\ op[t].pc = "write" /\ ~died' /\ heap_next' = heap_next
      /\ op' = [op EXCEPT ![t] = Idle]
      /\ size' = [size EXCEPT ![op[t].array] = SizeOf[op[t].value]]
  BY DEF Finish, End, Write, At
<1>2. op'[t].pc = "idle" /\ \A u \in Thread \ {t} : op'[u] = op[u]
  BY <1>1 DEF Idle, BlockInv, StoreInv, StoreTypeOK
<1>3. HeapInv'
  BY <1>1, <1>2, HeapKept DEF BlockInv, RoomInv
<1>4. ASSUME NEW u \in Thread, op'[u].pc \in {"heap", "grab"} PROVE size'[op'[u].array] = 0
  <2>1. u # t /\ op'[u] = op[u]
    BY <1>2, <1>4
  <2>2. op[u].array # op[t].array
    BY <1>1, <1>4, <2>1, OneWorker
  <2>3. op[u].array \in Array
    BY <1>4, <2>1, InUseFinite DEF BlockInv, StoreInv, LockInv, ThreadLocks
  <2>4. QED
    BY <1>1, <1>4, <2>1, <2>2, <2>3 DEF RoomInv, Deallocated, BlockInv, StoreInv, StoreTypeOK
<1>5. QED
  BY <1>1, <1>3, <1>4 DEF RoomInv, Deallocated

\* Between calls nobody waits for memory
LEMMA QuietNeverFull ==
  ASSUME BlockInv, Quiet, op' = op, ~died'
  PROVE  RoomInv'
BY QuietIs, QuietHeap DEF BlockInv, RoomInv, Deallocated

LEMMA NextNeverFull ==
  ASSUME BlockInv, PromiseInv, RoomInv, NEW m \in Nat, Fits(m), [Next]_vars
  PROVE  RoomInv'
<1>1. ASSUME NEW t \in Thread, Work(t) PROVE RoomInv'
  <2>1. ASSUME NEW a \in Array, NEW d \in Dim, LockInfo(t, a, d) PROVE RoomInv'
    <3> DEFINE call == [pc |-> "read", array |-> a, value |-> {d}]
    <3>1. op' = [op EXCEPT ![t] = call] /\ storage' = storage /\ died' = died
      BY <2>1 DEF LockInfo
    <3>2. call.pc = "read"
      OBVIOUS
    <3> HIDE DEF call
    <3>3. op'[t].pc = "read" /\ \A u \in Thread \ {t} : op'[u] = op[u]
      BY <3>1, <3>2 DEF BlockInv, StoreInv, StoreTypeOK
    <3>4. QED
      BY <3>1, <3>3, RoomKept DEF BlockInv, RoomInv
  <2>2. CASE Combine(t)
    <3>1. ~died'
      BY <2>2, CombinePromises
    <3>2. PICK new : op' = [op EXCEPT ![t].pc = "set", ![t].value = new]
      BY <2>2 DEF Combine
    <3>3. storage' = storage /\ op[t].pc = "read"
      BY <2>2 DEF Combine, At
    <3>4. op[t] \in Calls
      BY <3>3, OpIs DEF BlockInv, StoreInv
    <3>5. op'[t].pc = "set" /\ \A u \in Thread \ {t} : op'[u] = op[u]
      BY <3>2, <3>4 DEF BlockInv, StoreInv, StoreTypeOK, Calls
    <3>6. QED
      BY <3>1, <3>3, <3>5, RoomKept DEF BlockInv
  <2>3. CASE Store(t)
    BY <2>3, StoreNeverFull
  <2>4. CASE Finish(t)
    BY <2>4, FinishNeverFull
  <2>5. QED
    BY <1>1, <2>1, <2>2, <2>3, <2>4 DEF Work
<1>2. ASSUME NEW g \in Group, NewSlice(g) PROVE RoomInv'
  BY <1>2, QuietNeverFull DEF NewSlice, AllocateGroup, Quiet
<1>3. CASE DropPrevious
  <2>1. Quiet /\ (UNCHANGED storevars \/ ClearGroup(1 - current))
    BY <1>3 DEF DropPrevious
  <2>2. op' = op /\ ~died'
    BY <2>1 DEF Quiet, ClearGroup, storevars
  <2>3. QED
    BY <2>1, <2>2, QuietNeverFull
<1>4. CASE FreezeSlice
  <2>1. Freeze(current) /\ current \in Group
    BY <1>4 DEF FreezeSlice, BlockInv, BlockTypes
  <2>2. ~died'
    BY <2>1, FreezeRoom, FrozenComplete
  <2>3. QED
    BY <2>1, <2>2, QuietNeverFull DEF Freeze
<1>5. CASE UNCHANGED vars
  <2>1. UNCHANGED <<size, heap_next, op, died>>
    BY <1>5 DEF vars, storevars, storage
  <2>2. QED
    BY <2>1 DEF RoomInv, HeapInv, Insufficient, Deallocated
<1>6. QED
  BY <1>1, <1>2, <1>3, <1>4, <1>5 DEF Next, Advance

\* With memory for a value in every array and for what a collection must leave free, the solve never
\* dies: no contribution comes twice, no collection moves a frozen block, and none is left without space
THEOREM BlocksNeverDie ==
  ASSUME NEW m \in Nat, Fits(m)
  PROVE  Spec => []NeverDies
<1>1. Init => PromiseInv /\ RoomInv
  <2> SUFFICES ASSUME Init PROVE PromiseInv /\ RoomInv
    OBVIOUS
  <2>1. StoreInit /\ PromiseInv
    BY InitPromise DEF Init
  <2>2. QED
    BY <2>1 DEF StoreInit, Idle, RoomInv, HeapInv, Deallocated
<1>2. BlockInv /\ PromiseInv /\ [Next]_vars => PromiseInv'
  BY NextBlockPromises
<1>3. BlockInv /\ PromiseInv /\ RoomInv /\ [Next]_vars => RoomInv'
  BY NextNeverFull
<1>4. RoomInv => NeverDies
  BY DEF RoomInv, NeverDies
<1>5. QED
  BY <1>1, <1>2, <1>3, <1>4, BlocksInvariance, PTL DEF Spec
=============================================================================
