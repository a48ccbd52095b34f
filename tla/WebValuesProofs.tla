--------------------------- MODULE WebValuesProofs ---------------------------
(***************************************************************************)
(* Machine-checked proofs about the lookups of the web server, for any     *)
(* requests, any finite set of blocks, and any sizes of blocks and cache.  *)
(***************************************************************************)
EXTENDS WebValues, FiniteSetTheorems, SequenceTheorems, WellFoundedInduction, TLAPS

-----------------------------------------------------------------------------
(***************************************************************************)
(* The inductive invariant.                                                *)
(***************************************************************************)
Queued(what, l) == Task(what, l) \in Range(tasks)
Alone(what, l) == Range(tasks) = {Task(what, l)}

\* What each task may rely on when its turn comes: nothing evicts a block between the end
\* of its computation and the reads that follow
QueueInv ==
  /\ IsInjective(tasks)
  /\ \A l \in Lookup :
       /\ Queued("ask", l) => result[l] = "none"
       /\ Queued("resume", l) => /\ result[l] # "none" /\ waits[l] \in Lookup
                                 /\ promise[waits[l]] = "rejected" \/ contains(BlockOf(l))
       /\ Queued("delete", l) => promise[l] = "resolved" /\ pending[BlockOf(l)] = l
       /\ Queued("store", l) => Alone("store", l) /\ promise[l] = "decode" /\ ~contains(BlockOf(l))
       /\ Queued("return", l) => Alone("return", l) /\ promise[l] = "decode" /\ contains(BlockOf(l))

\* A lookup waits for one promise, of its own block
WaitersInv ==
  \A p \in Lookup :
    /\ result[p] = "none" => promise[p] = "none"
    /\ IsInjective(waiters[p])
    /\ \A l \in Range(waiters[p]) : waits[l] = p /\ BlockOf(l) = BlockOf(p) /\ result[l] # "none"

\* A promise that is pending although it is resolved is about to be forgotten
PendingInv ==
  \A b \in Block : \A p \in Lookup : pending[b] = p =>
    /\ BlockOf(p) = b /\ promise[p] # "none"
    /\ promise[p] = "resolved" => Queued("delete", p) /\ contains(b)

\* A block that is being fetched is found pending, and is stored last
FetchInv ==
  \A p \in Lookup : Fetching(p) => /\ pending[BlockOf(p)] = p
                                   /\ contains(BlockOf(p)) => Queued("return", p)

LookupInv == TypeOK /\ QueueInv /\ WaitersInv /\ PendingInv /\ FetchInv /\ NeverMissing

-----------------------------------------------------------------------------
(***************************************************************************)
(* Sequences without duplicates.                                           *)
(***************************************************************************)
LEMMA RangeIs == \A s, x : x \in Range(s) <=> \E i \in DOMAIN s : x = s[i]
BY DEF Range

LEMMA Appended ==
  ASSUME NEW S, NEW s \in Seq(S), NEW l \in S
  PROVE  /\ Append(s, l) \in Seq(S)
         /\ Range(Append(s, l)) = Range(s) \cup {l}
         /\ IsInjective(s) /\ l \notin Range(s) => IsInjective(Append(s, l))
<1> DEFINE t == Append(s, l)
           n == Len(s)
<1>1. n \in Nat /\ DOMAIN s = 1 .. n
  OBVIOUS
<1>2. t \in Seq(S) /\ Len(t) = n + 1 /\ DOMAIN t = 1 .. n + 1
  OBVIOUS
<1>3. t[n + 1] = l /\ \A i \in 1 .. n : t[i] = s[i]
  OBVIOUS
<1> HIDE DEF t, n
<1>4. Range(t) = Range(s) \cup {l}
  <2>1. ASSUME NEW i \in 1 .. n + 1 PROVE t[i] \in Range(s) \cup {l}
    <3>1. i = n + 1 \/ i \in 1 .. n
      BY <1>1
    <3>2. QED
      BY <1>1, <1>3, <3>1, RangeIs
  <2>2. \A i \in 1 .. n : i \in 1 .. n + 1 /\ s[i] \in Range(t)
    BY <1>1, <1>2, <1>3, RangeIs
  <2>3. n + 1 \in 1 .. n + 1 /\ l \in Range(t)
    BY <1>1, <1>2, <1>3, RangeIs
  <2>4. QED
    BY <1>1, <1>2, <2>1, <2>2, <2>3, RangeIs
<1>5. ASSUME IsInjective(s), l \notin Range(s) PROVE IsInjective(t)
  <2> SUFFICES ASSUME NEW a \in 1 .. n + 1, NEW b \in 1 .. n + 1, a < b PROVE t[a] # t[b]
    BY <1>1, <1>2 DEF IsInjective
  <2>1. a \in 1 .. n /\ t[a] = s[a] /\ s[a] \in Range(s)
    BY <1>1, <1>3, RangeIs
  <2>2. CASE b = n + 1
    BY <1>3, <1>5, <2>1, <2>2
  <2>3. CASE b # n + 1
    <3>1. b \in 1 .. n /\ t[b] = s[b] /\ a # b
      BY <1>1, <1>3, <2>3
    <3>2. QED
      BY <1>1, <1>5, <2>1, <3>1 DEF IsInjective
  <2>4. QED
    BY <2>2, <2>3
<1>6. QED
  BY <1>2, <1>4, <1>5 DEF t

LEMMA Joins ==
  ASSUME NEW S, NEW s \in Seq(S), NEW t \in Seq(S)
  PROVE  /\ s \o t \in Seq(S)
         /\ Range(s \o t) = Range(s) \cup Range(t)
         /\ IsInjective(s) /\ IsInjective(t) /\ Range(s) \cap Range(t) = {} => IsInjective(s \o t)
<1> DEFINE u == s \o t
           n == Len(s)
           m == Len(t)
<1>1. n \in Nat /\ DOMAIN s = 1 .. n /\ m \in Nat /\ DOMAIN t = 1 .. m
  OBVIOUS
<1>2. u \in Seq(S) /\ Len(u) = n + m /\ DOMAIN u = 1 .. n + m
  OBVIOUS
<1>3. /\ \A i \in 1 .. n : u[i] = s[i]
      /\ \A i \in 1 .. n + m : i > n => u[i] = t[i - n] /\ i - n \in 1 .. m
  OBVIOUS
<1>4. \A i \in 1 .. m : n + i \in 1 .. n + m /\ u[n + i] = t[i]
  <2> TAKE i \in 1 .. m
  <2>1. n + i \in 1 .. n + m /\ n + i > n /\ n + i - n = i
    BY <1>1
  <2>2. QED
    BY <1>3, <2>1
<1> HIDE DEF u, n, m
<1>5. Range(u) = Range(s) \cup Range(t)
  <2>1. ASSUME NEW i \in 1 .. n + m PROVE u[i] \in Range(s) \cup Range(t)
    <3>1. i \in 1 .. n \/ i > n
      BY <1>1
    <3>2. QED
      BY <1>1, <1>3, <3>1, RangeIs
  <2>2. \A i \in 1 .. n : i \in 1 .. n + m /\ s[i] \in Range(u)
    BY <1>1, <1>2, <1>3, RangeIs
  <2>3. \A i \in 1 .. m : t[i] \in Range(u)
    BY <1>1, <1>2, <1>4, RangeIs
  <2>4. QED
    BY <1>1, <1>2, <2>1, <2>2, <2>3, RangeIs
<1>6. ASSUME IsInjective(s), IsInjective(t), Range(s) \cap Range(t) = {} PROVE IsInjective(u)
  <2> SUFFICES ASSUME NEW a \in 1 .. n + m, NEW b \in 1 .. n + m, a < b PROVE u[a] # u[b]
    BY <1>1, <1>2 DEF IsInjective
  <2>1. CASE b \in 1 .. n
    <3>1. a \in 1 .. n /\ a # b /\ u[a] = s[a] /\ u[b] = s[b]
      BY <1>1, <1>3, <2>1
    <3>2. QED
      BY <1>1, <1>6, <2>1, <3>1 DEF IsInjective
  <2>2. CASE a \in 1 .. n /\ b > n
    <3>1. u[a] \in Range(s) /\ u[b] \in Range(t)
      BY <1>1, <1>3, <2>2, RangeIs
    <3>2. QED
      BY <1>6, <3>1
  <2>3. CASE a > n
    <3>1. b > n
      BY <1>1, <2>3
    <3>2. /\ a - n \in 1 .. m /\ u[a] = t[a - n]
          /\ b - n \in 1 .. m /\ u[b] = t[b - n]
      BY <1>3, <2>3, <3>1
    <3>3. a - n # b - n
      BY <1>1
    <3>4. QED
      BY <1>1, <1>6, <3>2, <3>3 DEF IsInjective
  <2>4. QED
    BY <1>1, <2>1, <2>2, <2>3
<1>7. QED
  BY <1>2, <1>5, <1>6 DEF u, n

\* The first n of a sequence, and the rest
LEMMA Splits ==
  ASSUME NEW S, NEW s \in Seq(S), NEW n \in 0 .. Len(s), IsInjective(s)
  PROVE  LET t == SubSeq(s, 1, n)
             u == SubSeq(s, n + 1, Len(s))
         IN /\ t \in Seq(S) /\ u \in Seq(S)
            /\ Len(t) = n /\ Len(u) = Len(s) - n
            /\ IsInjective(t) /\ IsInjective(u)
            /\ Range(s) = Range(t) \cup Range(u)
            /\ Range(t) \cap Range(u) = {}
<1> DEFINE m == Len(s)
           t == SubSeq(s, 1, n)
           u == SubSeq(s, n + 1, m)
<1>1. m \in Nat /\ n \in Nat /\ n <= m /\ DOMAIN s = 1 .. m /\ \A i \in 1 .. m : s[i] \in S
  OBVIOUS
<1>2. t \in Seq(S) /\ Len(t) = n /\ \A i \in 1 .. n : t[i] = s[i]
  BY SubSeqProperties
<1>3. u \in Seq(S) /\ Len(u) = m - n /\ \A i \in 1 .. m - n : u[i] = s[n + i]
  <2>1. n + 1 \in Int /\ m \in Int /\ \A i \in n + 1 .. m : s[i] \in S
    BY <1>1
  <2>2. /\ u \in Seq(S)
        /\ Len(u) = IF n + 1 <= m THEN m - (n + 1) + 1 ELSE 0
        /\ \A i \in 1 .. m - (n + 1) + 1 : u[i] = s[n + 1 + i - 1]
    <3> HIDE DEF m
    <3> QED
      BY <2>1, SubSeqProperties
  <2> HIDE DEF u, m
  <2>3. m - (n + 1) + 1 = m - n
    BY <1>1
  <2>4. \A i \in 1 .. m - n : n + 1 + i - 1 = n + i
    BY <1>1
  <2>5. Len(u) = m - n
    BY <1>1, <2>2
  <2>6. QED
    BY <2>2, <2>3, <2>4, <2>5
<1>4. DOMAIN t = 1 .. n /\ DOMAIN u = 1 .. m - n
  BY <1>2, <1>3
<1> HIDE DEF t, u, m
<1>5. \A i \in 1 .. n : i \in 1 .. m
  BY <1>1
<1>6. \A i \in 1 .. m - n : n + i \in 1 .. m
  BY <1>1
<1>7. \A i \in 1 .. m : i \in 1 .. n \/ (i - n \in 1 .. m - n /\ n + (i - n) = i)
  BY <1>1
<1>8. IsInjective(t)
  BY <1>1, <1>2, <1>4, <1>5 DEF IsInjective
<1>9. IsInjective(u)
  <2> SUFFICES ASSUME NEW i \in 1 .. m - n, NEW j \in 1 .. m - n, u[i] = u[j] PROVE i = j
    BY <1>4 DEF IsInjective
  <2>1. n + i \in 1 .. m /\ n + j \in 1 .. m /\ s[n + i] = s[n + j]
    BY <1>3, <1>6
  <2>2. n + i = n + j
    BY <1>1, <2>1 DEF IsInjective
  <2>3. QED
    BY <1>1, <2>2
<1>10. Range(t) \subseteq Range(s) /\ Range(u) \subseteq Range(s)
  BY <1>1, <1>2, <1>3, <1>4, <1>5, <1>6, RangeIs
<1>11. Range(s) \subseteq Range(t) \cup Range(u)
  <2> SUFFICES ASSUME NEW i \in 1 .. m PROVE s[i] \in Range(t) \cup Range(u)
    BY <1>1, RangeIs
  <2>1. CASE i \in 1 .. n
    BY <1>2, <1>4, <2>1, RangeIs
  <2>2. CASE i - n \in 1 .. m - n /\ n + (i - n) = i
    <3>1. u[i - n] = s[i]
      BY <1>3, <2>2
    <3>2. QED
      BY <1>4, <2>2, <3>1, RangeIs
  <2>3. QED
    BY <1>7, <2>1, <2>2
<1>12. Range(t) \cap Range(u) = {}
  <2> SUFFICES ASSUME NEW x, x \in Range(t), x \in Range(u) PROVE FALSE
    OBVIOUS
  <2> PICK i \in 1 .. n : x = t[i]
    BY <1>4, RangeIs
  <2> PICK j \in 1 .. m - n : x = u[j]
    BY <1>4, RangeIs
  <2>1. i # n + j
    BY <1>1
  <2>2. i \in 1 .. m /\ n + j \in 1 .. m
    BY <1>5, <1>6
  <2>3. s[i] # s[n + j]
    BY <1>1, <2>1, <2>2 DEF IsInjective
  <2>4. t[i] = s[i] /\ u[j] = s[n + j]
    BY <1>2, <1>3
  <2>5. QED
    BY <2>3, <2>4
<1>13. QED
  BY <1>2, <1>3, <1>8, <1>9, <1>10, <1>11, <1>12 DEF t, u, m

\* All but the i-th
LEMMA Removed ==
  ASSUME NEW S, NEW s \in Seq(S), NEW i \in 1 .. Len(s), IsInjective(s)
  PROVE  /\ RemoveAt(s, i) \in Seq(S)
         /\ IsInjective(RemoveAt(s, i))
         /\ Range(RemoveAt(s, i)) = Range(s) \ {s[i]}
<1> DEFINE m == Len(s)
           t == SubSeq(s, 1, i - 1)
           w == SubSeq(s, (i - 1) + 1, m)
           v == SubSeq(s, 1, i)
           u == SubSeq(s, i + 1, m)
<1>1. m \in Nat /\ i - 1 \in 0 .. m /\ i \in 0 .. m /\ (i - 1) + 1 = i /\ DOMAIN s = 1 .. m
  OBVIOUS
<1>2. /\ t \in Seq(S) /\ IsInjective(t) /\ Range(s) = Range(t) \cup Range(w) /\ Range(t) \cap Range(w) = {}
  BY <1>1, Splits
<1>3. /\ u \in Seq(S) /\ IsInjective(u) /\ Range(s) = Range(v) \cup Range(u) /\ Range(v) \cap Range(u) = {}
  BY <1>1, Splits
<1>4. v \in Seq(S) /\ Len(v) = i /\ \A k \in 1 .. i : v[k] = s[k]
  <2>1. 1 \in Int /\ i \in Int /\ 1 <= i /\ i - 1 + 1 = i /\ (\A k \in 1 .. i : s[k] \in S /\ 1 + k - 1 = k)
    BY <1>1
  <2>2. QED
    BY <2>1, SubSeqProperties
<1>5. t \in Seq(S) /\ Len(t) = i - 1 /\ \A k \in 1 .. i - 1 : t[k] = s[k]
  <2>1. 1 \in Int /\ i - 1 \in Int /\ (\A k \in 1 .. i - 1 : s[k] \in S /\ 1 + k - 1 = k)
    BY <1>1
  <2>2. /\ Len(t) = IF 1 <= i - 1 THEN i - 1 - 1 + 1 ELSE 0
        /\ \A k \in 1 .. i - 1 - 1 + 1 : t[k] = s[1 + k - 1]
    BY <2>1, SubSeqProperties
  <2>3. i - 1 - 1 + 1 = i - 1 /\ (~(1 <= i - 1) => i - 1 = 0)
    BY <1>1
  <2>4. QED
    BY <1>2, <2>1, <2>2, <2>3
<1>6. DOMAIN v = 1 .. i /\ DOMAIN t = 1 .. i - 1
  BY <1>4, <1>5
<1> HIDE DEF t, w, v, u, m
<1>7. \A k \in 1 .. i : k = i \/ k \in 1 .. i - 1
  BY <1>1
<1>8. \A k \in 1 .. i - 1 : k \in 1 .. i /\ k \in 1 .. m /\ k # i
  BY <1>1
<1>9. i \in 1 .. i /\ i \in 1 .. m
  BY <1>1
<1>10. Range(v) = Range(t) \cup {s[i]}
  BY <1>4, <1>5, <1>6, <1>7, <1>8, <1>9, RangeIs
<1>11. s[i] \notin Range(t)
  BY <1>1, <1>5, <1>6, <1>8, <1>9, RangeIs DEF IsInjective
<1>12. Range(t) \cap Range(u) = {} /\ Range(t) \cup Range(u) = Range(s) \ {s[i]}
  BY <1>3, <1>10, <1>11
<1>13. RemoveAt(s, i) = t \o u
  BY DEF RemoveAt, t, u, m
<1>14. QED
  BY <1>2, <1>3, <1>12, <1>13, Joins

\* The rest of a queue, with what the task adds to it
LEMMA Dequeued ==
  ASSUME NEW S, NEW s \in Seq(S), s # <<>>, IsInjective(s),
         NEW t \in Seq(S), IsInjective(t), Range(t) \cap (Range(s) \ {Head(s)}) = {}
  PROVE  /\ Tail(s) \o t \in Seq(S)
         /\ IsInjective(Tail(s) \o t)
         /\ Range(Tail(s) \o t) = (Range(s) \ {Head(s)}) \cup Range(t)
<1> DEFINE m == Len(s)
           u == Tail(s)
<1>1. m \in Nat /\ m >= 1 /\ DOMAIN s = 1 .. m /\ Head(s) = s[1]
  OBVIOUS
<1>2. u \in Seq(S) /\ Len(u) = m - 1 /\ \A k \in 1 .. m - 1 : u[k] = s[k + 1]
  BY HeadTailProperties
<1>3. DOMAIN u = 1 .. m - 1
  BY <1>2
<1> HIDE DEF u, m
<1>4. \A k \in 1 .. m - 1 : k + 1 \in 1 .. m /\ k + 1 # 1
  BY <1>1
<1>5. \A k \in 1 .. m : k = 1 \/ (k - 1 \in 1 .. m - 1 /\ (k - 1) + 1 = k)
  BY <1>1
<1>6. 1 \in 1 .. m
  BY <1>1
<1>7. IsInjective(u)
  <2> SUFFICES ASSUME NEW a \in 1 .. m - 1, NEW b \in 1 .. m - 1, u[a] = u[b] PROVE a = b
    BY <1>3 DEF IsInjective
  <2>1. a + 1 \in 1 .. m /\ b + 1 \in 1 .. m /\ s[a + 1] = s[b + 1]
    BY <1>2, <1>4
  <2>2. a + 1 = b + 1
    BY <1>1, <2>1 DEF IsInjective
  <2>3. QED
    BY <1>1, <2>2
<1>8. Range(u) = Range(s) \ {s[1]}
  <2>1. ASSUME NEW k \in 1 .. m - 1 PROVE u[k] \in Range(s) /\ u[k] # s[1]
    <3>1. u[k] = s[k + 1] /\ k + 1 \in 1 .. m /\ k + 1 # 1
      BY <1>2, <1>4
    <3>2. s[k + 1] \in Range(s)
      BY <1>1, <3>1, RangeIs
    <3>3. s[k + 1] # s[1]
      BY <1>1, <1>6, <3>1 DEF IsInjective
    <3>4. QED
      BY <3>1, <3>2, <3>3
  <2>2. \A k \in 1 .. m : k # 1 => s[k] \in Range(u)
    <3> SUFFICES ASSUME NEW k \in 1 .. m, k # 1 PROVE s[k] \in Range(u)
      OBVIOUS
    <3>1. k - 1 \in 1 .. m - 1 /\ u[k - 1] = s[k]
      BY <1>2, <1>5
    <3>2. QED
      BY <1>3, <3>1, RangeIs
  <2>3. QED
    BY <1>1, <1>3, <2>1, <2>2, RangeIs
<1>9. Range(u) \cap Range(t) = {}
  BY <1>1, <1>8
<1>10. u \o t \in Seq(S) /\ IsInjective(u \o t) /\ Range(u \o t) = Range(u) \cup Range(t)
  BY <1>2, <1>7, <1>9, Joins
<1>11. QED
  BY <1>1, <1>8, <1>10 DEF u

\* A nonempty set of naturals has a least element
LEMMA LeastOf ==
  ASSUME NEW S \in SUBSET Nat, S # {}
  PROVE  \E m \in S : \A k \in S : m <= k
<1> DEFINE Less == {ss \in Nat \X Nat : ss[1] < ss[2]}
<1>1. IsWellFoundedOn(Less, Nat)
  BY NatLessThanWellFounded DEF OpToRel
<1> HIDE DEF Less
<1>2. PICK m \in S : \A k \in S : ~(<<k, m>> \in Less)
  BY <1>1, WFMin
<1>3. \A k \in S : ~(k < m)
  BY <1>2 DEF Less
<1>4. QED
  BY <1>3

\* A bounded one has a greatest
LEMMA GreatestOf ==
  ASSUME NEW n \in Nat, NEW S \in SUBSET (0 .. n), S # {}
  PROVE  Max(S) \in S /\ \A k \in S : Max(S) >= k
<1> DEFINE D == {n - k : k \in S}
<1>1. D \in SUBSET Nat /\ D # {}
  <2>1. \A k \in S : n - k \in Nat
    OBVIOUS
  <2>2. QED
    BY <2>1
<1>2. PICK d \in D : \A e \in D : d <= e
  BY <1>1, LeastOf
<1>3. PICK k \in S : d = n - k
  BY <1>2
<1>4. \A j \in S : n - j \in D
  OBVIOUS
<1>5. \A j \in S : k >= j
  BY <1>2, <1>3, <1>4
<1>6. QED
  BY <1>5 DEF Max

-----------------------------------------------------------------------------
(***************************************************************************)
(* The cache.                                                              *)
(***************************************************************************)
LEMMA BlocksFinite ==
  ASSUME NEW S \in SUBSET Block
  PROVE  /\ IsFiniteSet(S) /\ Cardinality(S) \in Nat
         /\ \A x \in S : S \ {x} \in SUBSET Block /\ Cardinality(S \ {x}) = Cardinality(S) - 1
         /\ S # {} => Cardinality(S) > 0
<1>1. IsFiniteSet(S)
  BY FS_Subset, SizeAssumption
<1>2. Cardinality(S) \in Nat
  BY <1>1, FS_CardinalityType
<1>3. \A x \in S : S \ {x} \in SUBSET Block /\ Cardinality(S \ {x}) = Cardinality(S) - 1
  BY <1>1, FS_RemoveElement
<1>4. S # {} => Cardinality(S) > 0
  BY <1>1, <1>2, FS_EmptySet
<1>5. QED
  BY <1>1, <1>2, <1>3, <1>4

LEMMA TotalOfEach ==
  \A S \in SUBSET Block :
    Total[S] = IF S = {} THEN 0
                  ELSE LET b == CHOOSE b \in S : TRUE IN LengthOf(b) + Total[S \ {b}]
<1> DEFINE Pick(S) == CHOOSE b \in S : TRUE
           Small(n) == {S \in SUBSET Block : Cardinality(S) <= n}
           Sum(f, S) == IF S = {} THEN 0 ELSE LengthOf(Pick(S)) + f[S \ {Pick(S)}]
           Sums(f, n) == f = [S \in Small(n) |-> Sum(f, S)]
<1>1. \A S \in SUBSET Block : S # {} => Pick(S) \in S
  OBVIOUS
<1> HIDE DEF Pick
<1>2. \A n \in Nat : \E f : Sums(f, n)
  <2> DEFINE Bad == {n \in Nat : ~ \E f : Sums(f, n)}
  <2> SUFFICES ASSUME Bad # {} PROVE FALSE
    OBVIOUS
  <2>1. PICK n \in Bad : \A k \in Bad : n <= k
    <3> HIDE DEF Sums
    <3> QED
      BY LeastOf
  <2>2. n # 0
    <3> SUFFICES ASSUME n = 0 PROVE FALSE
      OBVIOUS
    <3>1. \A S \in Small(0) : S = {}
      BY BlocksFinite
    <3>2. Sums([S \in Small(0) |-> 0], 0)
      BY <3>1
    <3>3. QED
      BY <3>2
  <2>3. n \in Nat /\ n - 1 \in Nat /\ ~(n <= n - 1)
    <3> HIDE DEF Sums
    <3> QED
      BY <2>1, <2>2
  <2>4. PICK f : Sums(f, n - 1)
    <3> HIDE DEF Sums
    <3> QED
      BY <2>1, <2>3
  <2> DEFINE g == [S \in Small(n) |-> Sum(f, S)]
  <2>5. Small(n - 1) \subseteq Small(n)
    BY BlocksFinite, <2>1, <2>3
  <2>6. \A S \in Small(n - 1) : g[S] = f[S]
    BY <2>4, <2>5
  <2>7. \A S \in Small(n) : S # {} => S \ {Pick(S)} \in Small(n - 1)
    BY <1>1, <2>1, BlocksFinite
  <2>8. \A S \in Small(n) : Sum(f, S) = Sum(g, S)
    <3> HIDE DEF g, Small
    <3> QED
      BY <2>6, <2>7
  <2>9. Sums(g, n)
    <3> HIDE DEF Sum, Small
    <3> QED
      BY <2>8
  <2>10. QED
    BY <2>9
<1>3. Small(Cardinality(Block)) = SUBSET Block /\ Cardinality(Block) \in Nat
  BY FS_Subset, BlocksFinite, SizeAssumption
<1>4. \E f : f = [S \in SUBSET Block |-> Sum(f, S)]
  <2> HIDE DEF Sum, Small
  <2>1. PICK f : Sums(f, Cardinality(Block))
    <3> HIDE DEF Sums
    <3> QED
      BY <1>2, <1>3
  <2>2. f = [S \in SUBSET Block |-> Sum(f, S)]
    BY <1>3, <2>1
  <2>3. QED
    BY <2>2
<1>5. Total = CHOOSE f : f = [S \in SUBSET Block |-> Sum(f, S)]
  BY DEF Total, Pick
<1>6. Total = [S \in SUBSET Block |-> Sum(Total, S)]
  <2> HIDE DEF Sum
  <2> QED
    BY <1>4, <1>5
<1>7. QED
  BY <1>6 DEF Pick

LEMMA TotalOfOne == /\ Total[{}] = 0
                    /\ \A b \in Block : Total[{b}] = SizeOf[b] /\ SizeOf[b] \in Nat /\ SizeOf[b] <= Limit
<1>1. Total[{}] = 0
  BY TotalOfEach
<1>2. ASSUME NEW b \in Block PROVE Total[{b}] = SizeOf[b] /\ SizeOf[b] \in Nat /\ SizeOf[b] <= Limit
  <2>1. {b} \in SUBSET Block /\ (CHOOSE c \in {b} : TRUE) = b /\ {b} \ {b} = {}
    OBVIOUS
  <2>2. Total[{b}] = LengthOf(b) + Total[{}]
    BY <2>1, TotalOfEach
  <2>3. SizeOf[b] \in Nat /\ SizeOf[b] <= Limit
    BY SizeAssumption
  <2>4. QED
    BY <1>1, <2>2, <2>3 DEF LengthOf
<1>3. QED
  BY <1>1, <1>2

\* Trimming keeps within the limit, and keeps the block used last
LEMMA Trimmed ==
  ASSUME NEW s \in Seq(Block), IsInjective(s), Len(s) > 0
  PROVE  /\ Trim(s) \in Seq(Block)
         /\ IsInjective(Trim(s))
         /\ Range(Trim(s)) \subseteq Range(s)
         /\ s[1] \in Range(Trim(s))
         /\ Total[Range(Trim(s))] <= Limit
<1> DEFINE m == Len(s)
           Fits(n) == Total[Range(SubSeq(s, 1, n))] <= Limit
           N == {n \in 0 .. m : Fits(n)}
           k == Max(N)
           t == SubSeq(s, 1, k)
<1>1. m \in Nat /\ m >= 1 /\ 1 \in 0 .. m /\ s[1] \in Block
  OBVIOUS
<1>2. Range(SubSeq(s, 1, 1)) = {s[1]}
  <2> DEFINE p == SubSeq(s, 1, 1)
  <2>1. p \in Seq(Block) /\ Len(p) = 1 /\ p[1] = s[1]
    BY <1>1
  <2>2. DOMAIN p = {1}
    BY <2>1
  <2> HIDE DEF p
  <2>3. Range(p) = {s[1]}
    BY <2>1, <2>2, RangeIs
  <2>4. QED
    BY <2>3 DEF p
<1>3. 1 \in N
  BY <1>1, <1>2, TotalOfOne
<1> HIDE DEF Fits
<1>4. k \in N /\ k >= 1
  <2>1. N \in SUBSET (0 .. m) /\ N # {}
    BY <1>3
  <2>2. k \in N /\ \A y \in N : k >= y
    <3> HIDE DEF N, m
    <3> QED
      BY <1>1, <2>1, GreatestOf
  <2>3. QED
    BY <1>3, <2>2
<1>5. Trim(s) = t
  BY DEF Trim, Fits
<1>6. k \in 0 .. m /\ k \in Nat /\ Fits(k)
  BY <1>4
<1> HIDE DEF N, k, m
<1>7. t \in Seq(Block) /\ IsInjective(t) /\ Len(t) = k /\ Range(t) \subseteq Range(s)
  BY <1>6, Splits DEF m
<1>8. s[1] \in Range(t)
  <2>1. 1 \in DOMAIN t
    BY <1>4, <1>6, <1>7
  <2>2. t[1] = s[1]
    BY <1>1, <1>4, <1>6 DEF m
  <2>3. QED
    BY <2>1, <2>2, RangeIs
<1>9. QED
  BY <1>5, <1>6, <1>7, <1>8 DEF Fits

\* The block used last comes first
LEMMA MovedToFront ==
  ASSUME lru \in Seq(Block), IsInjective(lru), NEW b \in Block
  PROVE  /\ ToFront(b) \in Seq(Block)
         /\ IsInjective(ToFront(b))
         /\ Range(ToFront(b)) = Range(lru) \cup {b}
         /\ Len(ToFront(b)) > 0 /\ ToFront(b)[1] = b
<1> DEFINE i == CHOOSE i \in DOMAIN lru : lru[i] = b
           t == IF contains(b) THEN RemoveAt(lru, i) ELSE lru
<1>1. t \in Seq(Block) /\ IsInjective(t) /\ Range(t) = Range(lru) \ {b}
  <2>1. CASE contains(b)
    <3>1. i \in 1 .. Len(lru) /\ lru[i] = b
      BY <2>1, RangeIs DEF contains
    <3> HIDE DEF i
    <3>2. QED
      BY <2>1, <3>1, Removed
  <2>2. CASE ~contains(b)
    BY <2>2 DEF contains
  <2>3. QED
    BY <2>1, <2>2
<1> DEFINE p == <<b>>
<1>2. p \in Seq(Block) /\ IsInjective(p) /\ Range(p) = {b} /\ Len(p) = 1 /\ p[1] = b
  BY DEF IsInjective, Range
<1>3. ToFront(b) = p \o t
  BY DEF ToFront
<1> HIDE DEF t, p
<1>4. Range(p) \cap Range(t) = {}
  BY <1>1, <1>2
<1>5. p \o t \in Seq(Block) /\ IsInjective(p \o t) /\ Range(p \o t) = {b} \cup Range(t)
  BY <1>1, <1>2, <1>4, Joins
<1>6. Len(p \o t) > 0 /\ (p \o t)[1] = b
  <2>1. Len(t) \in Nat /\ 1 \in 1 .. 1 + Len(t)
    BY <1>1
  <2>2. /\ Len(p \o t) = Len(p) + Len(t)
        /\ \A j \in 1 .. Len(p) + Len(t) : (p \o t)[j] = IF j <= Len(p) THEN p[j] ELSE t[j - Len(p)]
    BY <1>1, <1>2, ConcatProperties
  <2>3. Len(p \o t) > 0
    BY <1>2, <2>1, <2>2
  <2>4. (p \o t)[1] = p[1]
    BY <1>2, <2>1, <2>2
  <2>5. QED
    BY <1>2, <2>3, <2>4
<1>7. QED
  BY <1>1, <1>3, <1>5, <1>6

-----------------------------------------------------------------------------
(***************************************************************************)
(* Tasks and lookups.                                                      *)
(***************************************************************************)
What == {"ask", "delete", "resume", "store", "return"}
Tasks == [what : What, of : Lookup]

LEMMA TaskIs ==
  /\ \A w \in What : \A l \in Lookup : Task(w, l) \in Tasks
  /\ \A w, v \in What : \A l, k \in Lookup : Task(w, l) = Task(v, k) <=> w = v /\ l = k
BY DEF Task, Tasks

LEMMA LookupIs == \A l \in Lookup : BlockOf(l) \in Block
<1> SUFFICES ASSUME NEW l \in Lookup PROVE BlockOf(l) \in Block
  OBVIOUS
<1> PICK r \in Request : l \in {r} \X (1 .. Len(Asks[r]))
  BY DEF Lookup
<1> PICK i \in 1 .. Len(Asks[r]) : l = <<r, i>>
  OBVIOUS
<1>1. Asks[r] \in Seq(Block)
  BY AskAssumption
<1>2. QED
  BY <1>1 DEF BlockOf

LEMMA AskIs == \A r \in Request : \A i \in 1 .. Len(Asks[r]) : <<r, i>> \in Lookup
BY DEF Lookup

\* The task that runs is in the queue, and in a queue of one task nothing else runs
LEMMA RunningIs ==
  ASSUME tasks \in Seq(Tasks), NEW w \in What, NEW l \in Lookup, Runs(w, l)
  PROVE  /\ tasks # <<>> /\ Head(tasks) = Task(w, l)
         /\ Queued(w, l)
<1>1. tasks # <<>> /\ Head(tasks) = Task(w, l)
  BY DEF Runs
<1>2. 1 \in DOMAIN tasks /\ tasks[1] = Head(tasks)
  BY <1>1
<1>3. QED
  BY <1>1, <1>2, RangeIs DEF Queued

LEMMA LastRuns ==
  ASSUME tasks \in Seq(Tasks), NEW w \in What, NEW l \in Lookup, Alone(w, l)
  PROVE  Runs(w, l)
<1>1. tasks # <<>>
  BY DEF Alone, Range
<1>2. Head(tasks) \in Range(tasks)
  BY <1>1, RangeIs
<1>3. QED
  BY <1>1, <1>2 DEF Alone, Runs

\* A task runs and adds those of t to the queue
LEMMA TaskRan ==
  ASSUME tasks \in Seq(Tasks), IsInjective(tasks), NEW w \in What, NEW l \in Lookup, Runs(w, l),
         NEW t \in Seq(Tasks), IsInjective(t), Then(t),
         Range(t) \cap (Range(tasks) \ {Task(w, l)}) = {}
  PROVE  /\ tasks' \in Seq(Tasks)
         /\ IsInjective(tasks')
         /\ Range(tasks') = (Range(tasks) \ {Task(w, l)}) \cup Range(t)
<1>1. tasks # <<>> /\ Head(tasks) = Task(w, l)
  BY RunningIs
<1>2. Range(t) \cap (Range(tasks) \ {Head(tasks)}) = {}
  BY <1>1
<1> DEFINE u == Tail(tasks) \o t
<1>3. u \in Seq(Tasks) /\ IsInjective(u) /\ Range(u) = (Range(tasks) \ {Head(tasks)}) \cup Range(t)
  BY <1>1, <1>2, Dequeued
<1>4. tasks' = u
  BY DEF Then
<1> HIDE DEF u
<1>5. QED
  BY <1>1, <1>3, <1>4

LEMMA Few ==
  /\ <<>> \in Seq(Tasks) /\ IsInjective(<<>>) /\ Range(<<>>) = {}
  /\ \A x \in Tasks : <<x>> \in Seq(Tasks) /\ IsInjective(<<x>>) /\ Range(<<x>>) = {x}
  /\ \A x, y \in Tasks : x # y => /\ <<x, y>> \in Seq(Tasks) /\ IsInjective(<<x, y>>)
                                  /\ Range(<<x, y>>) = {x, y}
BY DEF IsInjective, Range

\* The lookups that wait for a promise resume, each once
LEMMA Resuming ==
  ASSUME NEW s \in Seq(Lookup), IsInjective(s)
  PROVE  /\ Resumes(s) \in Seq(Tasks)
         /\ IsInjective(Resumes(s))
         /\ Range(Resumes(s)) = {Task("resume", l) : l \in Range(s)}
<1> DEFINE m == Len(s)
           t == Resumes(s)
<1>1. m \in Nat /\ DOMAIN s = 1 .. m /\ \A i \in 1 .. m : s[i] \in Lookup
  OBVIOUS
<1>2. t = [i \in 1 .. m |-> Task("resume", s[i])]
  BY <1>1 DEF Resumes
<1>3. \A i \in 1 .. m : Task("resume", s[i]) \in Tasks
  BY <1>1, TaskIs DEF What
<1>4. t \in Seq(Tasks)
  <2> HIDE DEF m
  <2>1. QED
    BY <1>1, <1>2, <1>3
<1>5. DOMAIN t = 1 .. m /\ \A i \in 1 .. m : t[i] = Task("resume", s[i])
  BY <1>2
<1> HIDE DEF t, m
<1>6. IsInjective(t)
  <2> SUFFICES ASSUME NEW a \in 1 .. m, NEW b \in 1 .. m, t[a] = t[b] PROVE a = b
    BY <1>5 DEF IsInjective
  <2>1. s[a] = s[b]
    BY <1>1, <1>5, TaskIs DEF What
  <2>2. QED
    BY <1>1, <2>1 DEF IsInjective
<1>7. Range(t) = {Task("resume", l) : l \in Range(s)}
  <2>1. \A i \in 1 .. m : s[i] \in Range(s)
    BY <1>1, RangeIs
  <2>2. \A l \in Range(s) : \E i \in 1 .. m : l = s[i]
    BY <1>1, RangeIs
  <2>3. \A i \in 1 .. m : t[i] = Task("resume", s[i]) /\ t[i] \in Range(t)
    BY <1>5, RangeIs
  <2>4. \A x \in Range(t) : \E i \in 1 .. m : x = t[i]
    BY <1>5, Zenon DEF Range
  <2>5. \A x \in Range(t) : \E l \in Range(s) : x = Task("resume", l)
    BY <2>1, <2>3, <2>4
  <2>6. \A l \in Range(s) : Task("resume", l) \in Range(t)
    BY <2>2, <2>3
  <2>7. QED
    BY <2>5, <2>6
<1>8. QED
  BY <1>4, <1>6, <1>7 DEF t

LEMMA QueueTypes == ASSUME LookupInv PROVE tasks \in Seq(Tasks) /\ IsInjective(tasks)
BY DEF LookupInv, TypeOK, QueueInv, Tasks, What

\* A task runs and adds those of t, which are new
LEMMA Ran ==
  ASSUME LookupInv, NEW w \in What, NEW l \in Lookup, Runs(w, l),
         NEW t \in Seq(Tasks), IsInjective(t), Then(t),
         \A x \in Range(t) : x \notin Range(tasks)
  PROVE  /\ tasks' \in Seq(Tasks) /\ IsInjective(tasks')
         /\ Range(tasks') = (Range(tasks) \ {Task(w, l)}) \cup Range(t)
         /\ Queued(w, l)
         /\ \A v \in What : \A k \in Lookup :
              Queued(v, k)' <=> (Queued(v, k) /\ ~(v = w /\ k = l)) \/ Task(v, k) \in Range(t)
<1>1. tasks \in Seq(Tasks) /\ IsInjective(tasks)
  BY QueueTypes
<1>2. Range(t) \cap (Range(tasks) \ {Task(w, l)}) = {}
  OBVIOUS
<1>3. /\ tasks' \in Seq(Tasks) /\ IsInjective(tasks')
      /\ Range(tasks') = (Range(tasks) \ {Task(w, l)}) \cup Range(t)
  BY <1>1, <1>2, TaskRan
<1>4. Queued(w, l)
  BY <1>1, RunningIs
<1>5. \A v \in What : \A k \in Lookup : Task(v, k) = Task(w, l) <=> v = w /\ k = l
  BY TaskIs
<1>6. QED
  BY <1>3, <1>4, <1>5 DEF Queued

\* Nothing else is queued when a block is stored or its computation returns
LEMMA Others ==
  ASSUME LookupInv, NEW w \in What, NEW l \in Lookup, Queued(w, l)
  PROVE  /\ w \in {"store", "return"} =>
              \A v \in What : \A k \in Lookup : Queued(v, k) => v = w /\ k = l
         /\ w \notin {"store", "return"} =>
              \A k \in Lookup : ~Queued("store", k) /\ ~Queued("return", k)
<1>1. {"store", "return"} \subseteq What
  BY DEF What
<1>2. ASSUME NEW v \in {"store", "return"}, NEW k \in Lookup, Queued(v, k) PROVE Range(tasks) = {Task(v, k)}
  BY <1>2 DEF LookupInv, QueueInv, Alone
<1>3. ASSUME w \in {"store", "return"}, NEW v \in What, NEW k \in Lookup, Queued(v, k) PROVE v = w /\ k = l
  BY <1>1, <1>2, <1>3, TaskIs DEF Queued
<1>4. ASSUME w \notin {"store", "return"}, NEW v \in {"store", "return"}, NEW k \in Lookup, Queued(v, k) PROVE FALSE
  BY <1>1, <1>2, <1>4, TaskIs DEF Queued
<1>5. QED
  BY <1>3, <1>4

LEMMA EmptyQueue == ASSUME Turn PROVE \A v, k : ~Queued(v, k)
BY DEF Turn, Queued, Range

\* A lookup that asks has done nothing before
LEMMA Fresh ==
  ASSUME LookupInv, NEW l \in Lookup, Runs("ask", l)
  PROVE  /\ Queued("ask", l) /\ result[l] = "none" /\ promise[l] = "none"
         /\ \A v \in What : Queued(v, l) => v = "ask"
         /\ \A p \in Lookup : l \notin Range(waiters[p])
         /\ \A b \in Block : pending[b] # l
<1>1. Queued("ask", l)
  BY QueueTypes, RunningIs DEF What
<1>2. result[l] = "none"
  BY <1>1 DEF LookupInv, QueueInv
<1>3. promise[l] = "none"
  BY <1>2 DEF LookupInv, WaitersInv
<1>4. \A v \in What : Queued(v, l) => v = "ask"
  BY <1>2, <1>3 DEF LookupInv, QueueInv, What
<1>5. \A p \in Lookup : l \notin Range(waiters[p])
  BY <1>2 DEF LookupInv, WaitersInv
<1>6. \A b \in Block : pending[b] # l
  BY <1>3, AskAssumption DEF LookupInv, PendingInv
<1>7. QED
  BY <1>1, <1>2, <1>3, <1>4, <1>5, <1>6
-----------------------------------------------------------------------------
(***************************************************************************)
(* Each step preserves the invariant.                                      *)
(***************************************************************************)
LEMMA Initially == Init => LookupInv
<1> SUFFICES ASSUME Init PROVE LookupInv
  OBVIOUS
<1>1. Range(<<>>) = {} /\ IsInjective(<<>>)
  BY Few
<1>2. TypeOK
  <2>1. lru \in Seq(Block) /\ IsInjective(lru) /\ Total[Range(lru)] <= Limit
    <3>1. Limit \in Nat /\ lru = <<>>
      BY SizeAssumption DEF Init
    <3>2. lru \in Seq(Block)
      BY <3>1
    <3>3. IsInjective(lru) /\ Range(lru) = {}
      BY <1>1, <3>1
    <3>4. Total[Range(lru)] = 0
      BY <3>3, TotalOfOne
    <3>5. QED
      BY <3>1, <3>2, <3>3, <3>4
  <2>2. QED
    BY <2>1 DEF Init, TypeOK
<1>3. QueueInv
  BY <1>1 DEF Init, QueueInv, Queued
<1>4. WaitersInv
  BY <1>1 DEF Init, WaitersInv
<1>5. PendingInv /\ FetchInv /\ NeverMissing
  BY AskAssumption DEF Init, PendingInv, FetchInv, Fetching, NeverMissing
<1>6. QED
  BY <1>2, <1>3, <1>4, <1>5 DEF LookupInv

LEMMA JoinKeeps ==
  ASSUME LookupInv, NEW l \in Lookup, Join(l)
  PROVE  LookupInv'
<1> DEFINE b == BlockOf(l)
           p == pending[b]
<1>1. Runs("ask", l) /\ p # None
  BY DEF Join
<1>2. b \in Block /\ p \in Lookup /\ TypeOK
  BY <1>1, LookupIs DEF LookupInv, TypeOK
<1>3. /\ waits' = [waits EXCEPT ![l] = p] /\ result' = [result EXCEPT ![l] = "waiting"]
      /\ lru' = lru /\ pending' = pending /\ promise' = promise
  BY DEF Join, Await
<1>4. BlockOf(p) = b /\ promise[p] # "none" /\ (promise[p] = "resolved" => contains(b))
  BY <1>1, <1>2 DEF LookupInv, PendingInv
<1>5. /\ Queued("ask", l) /\ result[l] = "none" /\ promise[l] = "none"
      /\ \A v \in What : Queued(v, l) => v = "ask"
      /\ \A q \in Lookup : l \notin Range(waiters[q])
  BY <1>1, Fresh
<1>6. PICK t \in {<<>>, <<Task("resume", l)>>} :
        /\ Then(t)
        /\ t = <<>> => waiters' = [waiters EXCEPT ![p] = Append(@, l)]
        /\ t # <<>> => waiters' = waiters /\ Settled(p)
  BY DEF Join
<1> HIDE DEF b, p
<1>7. /\ t \in Seq(Tasks) /\ IsInjective(t) /\ \A x \in Range(t) : x \notin Range(tasks)
      /\ \A v \in What : \A k \in Lookup : Task(v, k) \in Range(t) => v = "resume" /\ k = l /\ Settled(p)
  <2>1. "resume" \in What /\ Task("resume", l) \in Tasks
    BY TaskIs DEF What
  <2>2. /\ t \in Seq(Tasks) /\ IsInjective(t) /\ Range(t) \subseteq {Task("resume", l)}
        /\ t = <<>> => Range(t) = {}
    BY <2>1, Few
  <2>3. Task("resume", l) \notin Range(tasks)
    BY <1>5, <2>1 DEF Queued
  <2>4. QED
    BY <1>6, <2>1, <2>2, <2>3, TaskIs
<1>8. /\ tasks' \in Seq(Tasks) /\ IsInjective(tasks')
      /\ \A v \in What : \A k \in Lookup :
           Queued(v, k)' <=> (Queued(v, k) /\ ~(v = "ask" /\ k = l)) \/ Task(v, k) \in Range(t)
  BY <1>1, <1>6, <1>7, Ran DEF What
<1>9. \A k \in Lookup : ~Queued("store", k) /\ ~Queued("return", k)
  BY <1>5, Others DEF What
<1>10. /\ waiters' \in [Lookup -> Seq(Lookup)]
       /\ \A q \in Lookup : /\ IsInjective(waiters'[q])
                            /\ Range(waiters'[q]) \subseteq Range(waiters[q]) \cup {l}
                            /\ l \in Range(waiters'[q]) => q = p
  <2>1. CASE t # <<>>
    BY <1>2, <1>5, <1>6, <2>1 DEF TypeOK, LookupInv, WaitersInv
  <2>2. CASE t = <<>>
    <3>1. waiters[p] \in Seq(Lookup) /\ IsInjective(waiters[p])
      BY <1>2 DEF TypeOK, LookupInv, WaitersInv
    <3>2. /\ Append(waiters[p], l) \in Seq(Lookup) /\ IsInjective(Append(waiters[p], l))
          /\ Range(Append(waiters[p], l)) = Range(waiters[p]) \cup {l}
      BY <1>5, <3>1, Appended, <1>2
    <3>3. waiters' = [waiters EXCEPT ![p] = Append(waiters[p], l)]
      BY <1>6, <2>2
    <3>4. \A q \in Lookup : waiters'[q] = IF q = p THEN Append(waiters[p], l) ELSE waiters[q]
      BY <1>2, <3>3 DEF TypeOK
    <3>5. waiters' \in [Lookup -> Seq(Lookup)]
      BY <1>2, <3>2, <3>3 DEF TypeOK
    <3>6. QED
      BY <1>5, <3>2, <3>4, <3>5 DEF LookupInv, WaitersInv
  <2>3. QED
    BY <2>1, <2>2
<1>11. \A k \in Lookup : /\ waits'[k] = IF k = l THEN p ELSE waits[k]
                         /\ result'[k] = IF k = l THEN "waiting" ELSE result[k]
  BY <1>2, <1>3 DEF TypeOK
<1>12. TypeOK'
  BY <1>2, <1>3, <1>8, <1>10 DEF TypeOK, Tasks, What
<1>13. \A x \in Block : contains(x)' = contains(x)
  BY <1>3 DEF contains
<1>14. QueueInv'
  <2> SUFFICES ASSUME NEW k \in Lookup
               PROVE  /\ Queued("ask", k)' => result'[k] = "none"
                      /\ Queued("resume", k)' => /\ result'[k] # "none" /\ waits'[k] \in Lookup
                                                 /\ promise'[waits'[k]] = "rejected" \/ contains(BlockOf(k))'
                      /\ Queued("delete", k)' => promise'[k] = "resolved" /\ pending'[BlockOf(k)] = k
                      /\ ~Queued("store", k)' /\ ~Queued("return", k)'
    BY <1>8 DEF QueueInv
  <2>1. ~Queued("store", k)' /\ ~Queued("return", k)'
    BY <1>7, <1>8, <1>9 DEF What
  <2>2. Queued("ask", k)' => result'[k] = "none"
    BY <1>7, <1>8, <1>11 DEF LookupInv, QueueInv, What
  <2>3. Queued("delete", k)' => promise'[k] = "resolved" /\ pending'[BlockOf(k)] = k
    BY <1>3, <1>7, <1>8 DEF LookupInv, QueueInv, What
  <2>4. ASSUME Queued("resume", k)'
        PROVE /\ result'[k] # "none" /\ waits'[k] \in Lookup
              /\ promise'[waits'[k]] = "rejected" \/ contains(BlockOf(k))'
    <3>1. CASE k = l
      <4>1. Settled(p)
        BY <1>5, <1>7, <1>8, <2>4, <3>1 DEF What
      <4>2. promise[p] = "rejected" \/ contains(b)
        BY <1>4, <4>1 DEF Settled
      <4>3. BlockOf(k) = b
        BY <3>1 DEF b
      <4>4. QED
        BY <1>2, <1>3, <1>11, <1>13, <3>1, <4>2, <4>3
    <3>2. CASE k # l
      <4>1. Queued("resume", k)
        BY <1>7, <1>8, <2>4, <3>2 DEF What
      <4>2. /\ result[k] # "none" /\ waits[k] \in Lookup
            /\ promise[waits[k]] = "rejected" \/ contains(BlockOf(k))
        BY <4>1 DEF LookupInv, QueueInv
      <4>3. QED
        BY <1>3, <1>11, <1>13, <3>2, <4>2, LookupIs
    <3>3. QED
      BY <3>1, <3>2
  <2>5. QED
    BY <2>1, <2>2, <2>3, <2>4
<1>15. WaitersInv'
  <2> SUFFICES ASSUME NEW q \in Lookup
               PROVE  /\ result'[q] = "none" => promise'[q] = "none"
                      /\ IsInjective(waiters'[q])
                      /\ \A k \in Range(waiters'[q]) : waits'[k] = q /\ BlockOf(k) = BlockOf(q) /\ result'[k] # "none"
    BY DEF WaitersInv
  <2>1. result'[q] = "none" => promise'[q] = "none"
    BY <1>3, <1>11 DEF LookupInv, WaitersInv
  <2>2. ASSUME NEW k \in Range(waiters'[q])
        PROVE  waits'[k] = q /\ BlockOf(k) = BlockOf(q) /\ result'[k] # "none"
    <3>1. CASE k = l
      BY <1>4, <1>10, <1>11, <2>2, <3>1 DEF b
    <3>2. CASE k # l
      <4>1. k \in Range(waiters[q]) /\ k \in Lookup
        <5>1. waiters[q] \in Seq(Lookup)
          BY <1>2 DEF TypeOK
        <5>2. QED
          BY <1>10, <2>2, <3>2, <5>1, RangeIs
      <4>2. QED
        BY <1>11, <3>2, <4>1 DEF LookupInv, WaitersInv
    <3>3. QED
      BY <3>1, <3>2
  <2>3. QED
    BY <1>10, <2>1, <2>2
<1>16. PendingInv'
  BY <1>3, <1>8, <1>13, <1>2, LookupIs DEF LookupInv, PendingInv, TypeOK, What
<1>17. FetchInv'
  BY <1>3, <1>8, <1>13, <1>2, LookupIs DEF LookupInv, FetchInv, Fetching, What
<1>18. NeverMissing'
  BY <1>11 DEF LookupInv, NeverMissing
<1>19. QED
  BY <1>12, <1>14, <1>15, <1>16, <1>17, <1>18 DEF LookupInv

LEMMA ComputeKeeps ==
  ASSUME LookupInv, NEW l \in Lookup, Compute(l)
  PROVE  LookupInv'
<1> DEFINE b == BlockOf(l)
<1>1. Runs("ask", l) /\ pending[b] = None
  BY DEF Compute
<1>2. b \in Block /\ TypeOK /\ l # None
  BY LookupIs, AskAssumption DEF LookupInv
<1>3. /\ waits' = [waits EXCEPT ![l] = l] /\ result' = [result EXCEPT ![l] = "waiting"]
      /\ lru' = lru /\ pending' = [pending EXCEPT ![b] = l]
  BY DEF Compute, Await
<1>4. /\ Queued("ask", l) /\ result[l] = "none" /\ promise[l] = "none"
      /\ \A v \in What : Queued(v, l) => v = "ask"
      /\ \A q \in Lookup : l \notin Range(waiters[q])
      /\ \A c \in Block : pending[c] # l
  BY <1>1, Fresh
<1>5. PICK t \in {<<>>, <<Task("delete", l), Task("resume", l)>>}, new \in {"index", "resolved"} :
        /\ Then(t)
        /\ promise' = [promise EXCEPT ![l] = new]
        /\ new = "index" => ~contains(b) /\ t = <<>> /\ waiters' = [waiters EXCEPT ![l] = <<l>>]
        /\ new = "resolved" => contains(b) /\ t = <<Task("delete", l), Task("resume", l)>> /\ waiters' = waiters
  BY DEF Compute
<1>6. \A k \in Lookup : Fetching(k) => BlockOf(k) # b
  BY <1>1, AskAssumption DEF LookupInv, FetchInv
<1> HIDE DEF b
<1>7. /\ t \in Seq(Tasks) /\ IsInjective(t) /\ \A x \in Range(t) : x \notin Range(tasks)
      /\ \A v \in What : \A k \in Lookup :
           Task(v, k) \in Range(t) <=> v \in {"delete", "resume"} /\ k = l /\ new = "resolved"
  <2>1. /\ {"delete", "resume"} \subseteq What
        /\ Task("delete", l) \in Tasks /\ Task("resume", l) \in Tasks
        /\ Task("delete", l) # Task("resume", l)
    BY TaskIs DEF What
  <2>2. /\ t \in Seq(Tasks) /\ IsInjective(t)
        /\ new = "resolved" => Range(t) = {Task("delete", l), Task("resume", l)}
        /\ new = "index" => Range(t) = {}
    BY <1>5, <2>1, Few
  <2>3. Task("delete", l) \notin Range(tasks) /\ Task("resume", l) \notin Range(tasks)
    BY <1>4, <2>1 DEF Queued
  <2>4. QED
    BY <1>5, <2>1, <2>2, <2>3, TaskIs
<1>8. /\ tasks' \in Seq(Tasks) /\ IsInjective(tasks')
      /\ \A v \in What : \A k \in Lookup :
           Queued(v, k)' <=> (Queued(v, k) /\ ~(v = "ask" /\ k = l)) \/ Task(v, k) \in Range(t)
  BY <1>1, <1>5, <1>7, Ran DEF What
<1>9. \A k \in Lookup : ~Queued("store", k) /\ ~Queued("return", k)
  BY <1>4, Others DEF What
<1>10. /\ waiters' \in [Lookup -> Seq(Lookup)]
       /\ \A q \in Lookup : /\ IsInjective(waiters'[q])
                            /\ q # l => waiters'[q] = waiters[q]
                            /\ Range(waiters'[l]) \subseteq Range(waiters[l]) \cup {l}
  <2>1. CASE new = "resolved"
    BY <1>2, <1>5, <2>1 DEF TypeOK, LookupInv, WaitersInv
  <2>2. CASE new = "index"
    <3>1. <<l>> \in Seq(Lookup) /\ IsInjective(<<l>>) /\ Range(<<l>>) = {l}
      BY DEF IsInjective, Range
    <3>2. waiters' = [waiters EXCEPT ![l] = <<l>>]
      BY <1>5, <2>2
    <3> DEFINE one == <<l>>
    <3> HIDE DEF one
    <3>3. waiters' = [waiters EXCEPT ![l] = one] /\ one \in Seq(Lookup) /\ IsInjective(one) /\ Range(one) = {l}
      BY <3>1, <3>2 DEF one
    <3>4. \A q \in Lookup : waiters'[q] = IF q = l THEN one ELSE waiters[q]
      BY <1>2, <3>3 DEF TypeOK
    <3>5. waiters' \in [Lookup -> Seq(Lookup)]
      BY <1>2, <3>3 DEF TypeOK
    <3>6. QED
      BY <3>3, <3>4, <3>5 DEF LookupInv, WaitersInv
  <2>3. QED
    BY <2>1, <2>2
<1>11. /\ \A k \in Lookup : /\ waits'[k] = IF k = l THEN l ELSE waits[k]
                            /\ result'[k] = IF k = l THEN "waiting" ELSE result[k]
                            /\ promise'[k] = IF k = l THEN new ELSE promise[k]
       /\ \A c \in Block : pending'[c] = IF c = b THEN l ELSE pending[c]
  BY <1>2, <1>3, <1>5 DEF TypeOK
<1>12. TypeOK'
  BY <1>2, <1>3, <1>5, <1>8, <1>10 DEF TypeOK, Tasks, What
<1>13. \A x \in Block : contains(x)' = contains(x)
  BY <1>3 DEF contains
<1>14. QueueInv'
  <2> SUFFICES ASSUME NEW k \in Lookup
               PROVE  /\ Queued("ask", k)' => result'[k] = "none"
                      /\ Queued("resume", k)' => /\ result'[k] # "none" /\ waits'[k] \in Lookup
                                                 /\ promise'[waits'[k]] = "rejected" \/ contains(BlockOf(k))'
                      /\ Queued("delete", k)' => promise'[k] = "resolved" /\ pending'[BlockOf(k)] = k
                      /\ ~Queued("store", k)' /\ ~Queued("return", k)'
    BY <1>8 DEF QueueInv
  <2>1. ~Queued("store", k)' /\ ~Queued("return", k)'
    BY <1>7, <1>8, <1>9 DEF What
  <2>2. Queued("ask", k)' => result'[k] = "none"
    BY <1>7, <1>8, <1>11 DEF LookupInv, QueueInv, What
  <2>3. ASSUME Queued("delete", k)' PROVE promise'[k] = "resolved" /\ pending'[BlockOf(k)] = k
    <3>1. CASE k = l
      BY <1>2, <1>4, <1>7, <1>8, <1>11, <2>3, <3>1 DEF b, What
    <3>2. CASE k # l
      <4>1. Queued("delete", k)
        BY <1>7, <1>8, <2>3, <3>2 DEF What
      <4>2. promise[k] = "resolved" /\ pending[BlockOf(k)] = k /\ k # None
        BY <4>1, AskAssumption DEF LookupInv, QueueInv
      <4>3. BlockOf(k) # b
        BY <1>1, <4>2 DEF b
      <4>4. QED
        BY <1>11, <3>2, <4>2, <4>3, LookupIs
    <3>3. QED
      BY <3>1, <3>2
  <2>4. ASSUME Queued("resume", k)'
        PROVE /\ result'[k] # "none" /\ waits'[k] \in Lookup
              /\ promise'[waits'[k]] = "rejected" \/ contains(BlockOf(k))'
    <3>1. CASE k = l
      <4>1. new = "resolved"
        BY <1>4, <1>7, <1>8, <2>4, <3>1 DEF What
      <4>2. contains(b)
        BY <1>5, <4>1
      <4>3. BlockOf(k) = b
        BY <3>1 DEF b
      <4>4. QED
        BY <1>2, <1>11, <1>13, <3>1, <4>2, <4>3
    <3>2. CASE k # l
      <4>1. Queued("resume", k)
        BY <1>7, <1>8, <2>4, <3>2 DEF What
      <4>2. /\ result[k] # "none" /\ waits[k] \in Lookup
            /\ promise[waits[k]] = "rejected" \/ contains(BlockOf(k))
        BY <4>1 DEF LookupInv, QueueInv
      <4>3. promise[waits[k]] = "rejected" => waits[k] # l
        BY <1>4
      <4>4. QED
        BY <1>11, <1>13, <3>2, <4>2, <4>3, LookupIs
    <3>3. QED
      BY <3>1, <3>2
  <2>5. QED
    BY <2>1, <2>2, <2>3, <2>4
<1>15. WaitersInv'
  <2> SUFFICES ASSUME NEW q \in Lookup
               PROVE  /\ result'[q] = "none" => promise'[q] = "none"
                      /\ IsInjective(waiters'[q])
                      /\ \A k \in Range(waiters'[q]) : waits'[k] = q /\ BlockOf(k) = BlockOf(q) /\ result'[k] # "none"
    BY DEF WaitersInv
  <2>1. result'[q] = "none" => promise'[q] = "none"
    BY <1>11 DEF LookupInv, WaitersInv
  <2>2. ASSUME NEW k \in Range(waiters'[q])
        PROVE  waits'[k] = q /\ BlockOf(k) = BlockOf(q) /\ result'[k] # "none"
    <3>1. CASE k = l
      BY <1>4, <1>10, <1>11, <2>2, <3>1
    <3>2. CASE k # l
      <4>1. k \in Range(waiters[q]) /\ k \in Lookup
        <5>1. waiters[q] \in Seq(Lookup)
          BY <1>2 DEF TypeOK
        <5>2. k \in Range(waiters[q])
          BY <1>10, <2>2, <3>2
        <5>3. QED
          BY <5>1, <5>2, RangeIs
      <4>2. QED
        BY <1>11, <3>2, <4>1 DEF LookupInv, WaitersInv
    <3>3. QED
      BY <3>1, <3>2
  <2>3. QED
    BY <1>10, <2>1, <2>2
<1>16. PendingInv'
  <2> SUFFICES ASSUME NEW c \in Block, NEW q \in Lookup, pending'[c] = q
               PROVE  /\ BlockOf(q) = c /\ promise'[q] # "none"
                      /\ promise'[q] = "resolved" => Queued("delete", q)' /\ contains(c)'
    BY DEF PendingInv
  <2>1. CASE c = b
    <3>1. q = l /\ promise'[l] = new /\ BlockOf(l) = c
      BY <1>11, <2>1 DEF b
    <3>2. new = "resolved" => Queued("delete", l)' /\ contains(c)'
      BY <1>2, <1>5, <1>7, <1>8, <1>13, <2>1 DEF What
    <3>3. QED
      BY <3>1, <3>2
  <2>2. CASE c # b
    <3>1. pending[c] = q /\ q # l
      BY <1>4, <1>11, <2>2
    <3>2. promise'[q] = promise[q]
      BY <1>11, <3>1
    <3>3. /\ BlockOf(q) = c /\ promise[q] # "none"
          /\ promise[q] = "resolved" => Queued("delete", q) /\ contains(c)
      BY <3>1 DEF LookupInv, PendingInv
    <3>4. QED
      BY <1>8, <1>13, <3>1, <3>2, <3>3 DEF What
  <2>3. QED
    BY <2>1, <2>2
<1>17. FetchInv'
  <2> SUFFICES ASSUME NEW q \in Lookup, Fetching(q)'
               PROVE  pending'[BlockOf(q)] = q /\ (contains(BlockOf(q))' => Queued("return", q)')
    BY DEF FetchInv
  <2>1. CASE q = l
    <3>1. new = "index"
      BY <1>11, <2>1 DEF Fetching
    <3>2. ~contains(b)
      BY <1>5, <3>1
    <3>3. QED
      BY <1>2, <1>11, <1>13, <2>1, <3>2 DEF b
  <2>2. CASE q # l
    <3>1. Fetching(q)
      BY <1>11, <2>2 DEF Fetching
    <3>2. BlockOf(q) # b
      BY <1>6, <3>1
    <3>3. pending[BlockOf(q)] = q /\ (contains(BlockOf(q)) => Queued("return", q))
      BY <3>1 DEF LookupInv, FetchInv
    <3>4. QED
      BY <1>8, <1>11, <1>13, <2>2, <3>2, <3>3, LookupIs DEF What
  <2>3. QED
    BY <2>1, <2>2
<1>18. NeverMissing'
  BY <1>11 DEF LookupInv, NeverMissing
<1>19. QED
  BY <1>12, <1>14, <1>15, <1>16, <1>17, <1>18 DEF LookupInv

LEMMA DeleteKeeps ==
  ASSUME LookupInv, NEW l \in Lookup, Delete(l)
  PROVE  LookupInv'
<1> DEFINE b == BlockOf(l)
<1>1. Runs("delete", l) /\ Then(<<>>)
  BY DEF Delete
<1>2. b \in Block /\ TypeOK
  BY LookupIs DEF LookupInv
<1>3. /\ pending' = [pending EXCEPT ![b] = None]
      /\ lru' = lru /\ promise' = promise /\ waiters' = waiters /\ waits' = waits /\ result' = result
  BY DEF Delete
<1>4. Queued("delete", l)
  BY <1>1, QueueTypes, RunningIs DEF What
<1>5. promise[l] = "resolved" /\ pending[b] = l
  BY <1>4 DEF LookupInv, QueueInv
<1>6. /\ tasks' \in Seq(Tasks) /\ IsInjective(tasks')
      /\ \A v \in What : \A k \in Lookup : Queued(v, k)' <=> Queued(v, k) /\ ~(v = "delete" /\ k = l)
  <2> DEFINE t == <<>>
  <2>1. t \in Seq(Tasks) /\ IsInjective(t) /\ Range(t) = {} /\ Then(t) /\ "delete" \in What
    BY <1>1, Few DEF What
  <2> HIDE DEF t
  <2>2. QED
    BY <1>1, <2>1, Ran
<1>7. \A k \in Lookup : ~Queued("store", k) /\ ~Queued("return", k)
  BY <1>4, Others DEF What
<1> HIDE DEF b
<1>8. \A c \in Block : pending'[c] = IF c = b THEN None ELSE pending[c]
  BY <1>2, <1>3 DEF TypeOK
<1>9. \A x \in Block : contains(x)' = contains(x)
  BY <1>3 DEF contains
<1>10. TypeOK'
  BY <1>2, <1>3, <1>6 DEF TypeOK, Tasks, What
<1>11. QueueInv'
  <2> SUFFICES ASSUME NEW k \in Lookup
               PROVE  /\ Queued("ask", k)' => result'[k] = "none"
                      /\ Queued("resume", k)' => /\ result'[k] # "none" /\ waits'[k] \in Lookup
                                                 /\ promise'[waits'[k]] = "rejected" \/ contains(BlockOf(k))'
                      /\ Queued("delete", k)' => promise'[k] = "resolved" /\ pending'[BlockOf(k)] = k
                      /\ ~Queued("store", k)' /\ ~Queued("return", k)'
    BY <1>6 DEF QueueInv
  <2>1. ASSUME Queued("delete", k)' PROVE promise'[k] = "resolved" /\ pending'[BlockOf(k)] = k
    <3>1. Queued("delete", k) /\ k # l
      BY <1>6, <2>1 DEF What
    <3>2. promise[k] = "resolved" /\ pending[BlockOf(k)] = k
      BY <3>1 DEF LookupInv, QueueInv
    <3>3. BlockOf(k) # b
      BY <1>5, <3>1, <3>2
    <3>4. QED
      BY <1>3, <1>8, <3>2, <3>3, LookupIs
  <2>2. Queued("resume", k)' => /\ result'[k] # "none" /\ waits'[k] \in Lookup
                                /\ promise'[waits'[k]] = "rejected" \/ contains(BlockOf(k))'
    BY <1>3, <1>6, <1>9, LookupIs DEF LookupInv, QueueInv, What
  <2>3. Queued("ask", k)' => result'[k] = "none"
    BY <1>3, <1>6 DEF LookupInv, QueueInv, What
  <2>4. ~Queued("store", k)' /\ ~Queued("return", k)'
    BY <1>6, <1>7 DEF What
  <2>5. QED
    BY <2>1, <2>2, <2>3, <2>4
<1>12. WaitersInv'
  BY <1>3 DEF LookupInv, WaitersInv
<1>13. PendingInv'
  <2> SUFFICES ASSUME NEW c \in Block, NEW q \in Lookup, pending'[c] = q
               PROVE  /\ BlockOf(q) = c /\ promise'[q] # "none"
                      /\ promise'[q] = "resolved" => Queued("delete", q)' /\ contains(c)'
    BY DEF PendingInv
  <2>1. c # b /\ pending[c] = q
    BY <1>8, AskAssumption
  <2>2. /\ BlockOf(q) = c /\ promise[q] # "none"
        /\ promise[q] = "resolved" => Queued("delete", q) /\ contains(c)
    BY <2>1 DEF LookupInv, PendingInv
  <2>3. q # l
    BY <2>1, <2>2 DEF b
  <2>4. QED
    BY <1>3, <1>6, <1>9, <2>1, <2>2, <2>3 DEF What
<1>14. FetchInv'
  <2> SUFFICES ASSUME NEW q \in Lookup, Fetching(q)'
               PROVE  pending'[BlockOf(q)] = q /\ (contains(BlockOf(q))' => Queued("return", q)')
    BY DEF FetchInv
  <2>1. Fetching(q)
    BY <1>3 DEF Fetching
  <2>2. pending[BlockOf(q)] = q /\ (contains(BlockOf(q)) => Queued("return", q))
    BY <2>1 DEF LookupInv, FetchInv
  <2>3. q # l
    BY <1>5, <2>1 DEF Fetching
  <2>4. QED
    BY <1>5, <1>6, <1>8, <1>9, <2>2, <2>3, LookupIs DEF What
<1>15. NeverMissing'
  BY <1>3 DEF LookupInv, NeverMissing
<1>16. QED
  BY <1>10, <1>11, <1>12, <1>13, <1>14, <1>15 DEF LookupInv

LEMMA ResumeKeeps ==
  ASSUME LookupInv, NEW l \in Lookup, Resume(l)
  PROVE  LookupInv'
<1> DEFINE b == BlockOf(l)
<1>1. Runs("resume", l) /\ Then(<<>>)
  BY DEF Resume
<1>2. b \in Block /\ TypeOK
  BY LookupIs DEF LookupInv
<1>3. pending' = pending /\ promise' = promise /\ waiters' = waiters /\ waits' = waits
  BY DEF Resume
<1>4. Queued("resume", l)
  BY <1>1, QueueTypes, RunningIs DEF What
<1>5. promise[waits[l]] = "rejected" \/ contains(b)
  BY <1>4 DEF LookupInv, QueueInv
<1>6. PICK x \in {"failed", "value"} :
        /\ result' = [result EXCEPT ![l] = x]
        /\ x = "value" => contains(b)
  BY <1>5 DEF Resume
<1>7. \A k \in Lookup : result'[k] = IF k = l THEN x ELSE result[k]
  BY <1>2, <1>6 DEF TypeOK
<1>8. lru' \in Seq(Block) /\ IsInjective(lru') /\ Range(lru') = Range(lru)
  <2>1. lru \in Seq(Block) /\ IsInjective(lru)
    BY <1>2 DEF TypeOK
  <2>2. lru' = IF x = "value" THEN ToFront(b) ELSE lru
    BY <1>7 DEF Resume
  <2>3. x = "value" => b \in Range(lru)
    BY <1>6 DEF contains
  <2> HIDE DEF b
  <2>4. ToFront(b) \in Seq(Block) /\ IsInjective(ToFront(b)) /\ Range(ToFront(b)) = Range(lru) \cup {b}
    BY <1>2, <2>1, MovedToFront
  <2>5. QED
    BY <2>1, <2>2, <2>3, <2>4
<1>9. /\ tasks' \in Seq(Tasks) /\ IsInjective(tasks')
      /\ \A v \in What : \A k \in Lookup : Queued(v, k)' <=> Queued(v, k) /\ ~(v = "resume" /\ k = l)
  <2> DEFINE t == <<>>
  <2>1. t \in Seq(Tasks) /\ IsInjective(t) /\ Range(t) = {} /\ Then(t) /\ "resume" \in What
    BY <1>1, Few DEF What
  <2> HIDE DEF t
  <2>2. QED
    BY <1>1, <2>1, Ran
<1>10. \A k \in Lookup : ~Queued("store", k) /\ ~Queued("return", k)
  BY <1>4, Others DEF What
<1>11. result[l] # "none"
  BY <1>4 DEF LookupInv, QueueInv
<1> HIDE DEF b
<1>12. \A c \in Block : contains(c)' = contains(c)
  BY <1>8 DEF contains
<1>13. TypeOK'
  <2>1. Total[Range(lru')] <= Limit
    BY <1>2, <1>8 DEF TypeOK
  <2>2. result' \in [Lookup -> {"none", "waiting", "value", "missing", "failed"}]
    BY <1>2, <1>6 DEF TypeOK
  <2>3. QED
    BY <1>2, <1>3, <1>8, <1>9, <2>1, <2>2 DEF TypeOK, Tasks, What
<1>14. QueueInv'
  <2> SUFFICES ASSUME NEW k \in Lookup
               PROVE  /\ Queued("ask", k)' => result'[k] = "none"
                      /\ Queued("resume", k)' => /\ result'[k] # "none" /\ waits'[k] \in Lookup
                                                 /\ promise'[waits'[k]] = "rejected" \/ contains(BlockOf(k))'
                      /\ Queued("delete", k)' => promise'[k] = "resolved" /\ pending'[BlockOf(k)] = k
                      /\ ~Queued("store", k)' /\ ~Queued("return", k)'
    BY <1>9 DEF QueueInv
  <2>1. Queued("ask", k)' => result'[k] = "none"
    BY <1>7, <1>9, <1>11 DEF LookupInv, QueueInv, What
  <2>2. Queued("resume", k)' => /\ result'[k] # "none" /\ waits'[k] \in Lookup
                                /\ promise'[waits'[k]] = "rejected" \/ contains(BlockOf(k))'
    BY <1>3, <1>7, <1>9, <1>12, LookupIs DEF LookupInv, QueueInv, What
  <2>3. Queued("delete", k)' => promise'[k] = "resolved" /\ pending'[BlockOf(k)] = k
    BY <1>3, <1>9 DEF LookupInv, QueueInv, What
  <2>4. ~Queued("store", k)' /\ ~Queued("return", k)'
    BY <1>9, <1>10 DEF What
  <2>5. QED
    BY <2>1, <2>2, <2>3, <2>4
<1>15. WaitersInv'
  <2> SUFFICES ASSUME NEW q \in Lookup
               PROVE  /\ result'[q] = "none" => promise'[q] = "none"
                      /\ IsInjective(waiters'[q])
                      /\ \A k \in Range(waiters'[q]) : waits'[k] = q /\ BlockOf(k) = BlockOf(q) /\ result'[k] # "none"
    BY DEF WaitersInv
  <2>1. Range(waiters[q]) \subseteq Lookup
    <3>1. waiters[q] \in Seq(Lookup)
      BY <1>2 DEF TypeOK
    <3>2. QED
      BY <3>1, RangeIs
  <2>2. QED
    BY <1>3, <1>7, <2>1 DEF LookupInv, WaitersInv
<1>16. PendingInv'
  BY <1>3, <1>9, <1>12 DEF LookupInv, PendingInv, What
<1>17. FetchInv'
  BY <1>3, <1>9, <1>12, LookupIs DEF LookupInv, FetchInv, Fetching, What
<1>18. NeverMissing'
  BY <1>7 DEF LookupInv, NeverMissing
<1>19. QED
  BY <1>13, <1>14, <1>15, <1>16, <1>17, <1>18 DEF LookupInv

LEMMA StoreKeeps ==
  ASSUME LookupInv, NEW p \in Lookup, Store(p)
  PROVE  LookupInv'
<1> DEFINE b == BlockOf(p)
<1>1. Runs("store", p) /\ Then(<<Task("return", p)>>)
  BY DEF Store
<1>2. b \in Block /\ TypeOK
  BY LookupIs DEF LookupInv
<1>3. /\ lru' = Trim(ToFront(b))
      /\ pending' = pending /\ promise' = promise /\ waiters' = waiters /\ waits' = waits /\ result' = result
  BY DEF Store
<1>4. Queued("store", p)
  BY <1>1, QueueTypes, RunningIs DEF What
<1>5. Range(tasks) = {Task("store", p)} /\ promise[p] = "decode"
  BY <1>4 DEF LookupInv, QueueInv, Alone
<1>6. \A v \in What : \A k \in Lookup : Queued(v, k) => v = "store" /\ k = p
  BY <1>4, Others DEF What
<1>7. /\ tasks' \in Seq(Tasks) /\ IsInjective(tasks') /\ Range(tasks') = {Task("return", p)}
  <2> DEFINE t == <<Task("return", p)>>
  <2>1. /\ {"return", "store"} \subseteq What /\ Task("return", p) \in Tasks
        /\ Task("return", p) # Task("store", p)
    BY TaskIs DEF What
  <2>2. t \in Seq(Tasks) /\ IsInjective(t) /\ Range(t) = {Task("return", p)} /\ Then(t)
    BY <1>1, <2>1, Few
  <2> HIDE DEF t
  <2>3. \A x \in Range(t) : x \notin Range(tasks)
    BY <1>5, <2>1, <2>2
  <2>4. /\ tasks' \in Seq(Tasks) /\ IsInjective(tasks')
        /\ Range(tasks') = (Range(tasks) \ {Task("store", p)}) \cup Range(t)
    BY <1>1, <2>1, <2>2, <2>3, Ran
  <2>5. QED
    BY <1>5, <2>2, <2>4
<1>8. \A v \in What : \A k \in Lookup : Queued(v, k)' <=> v = "return" /\ k = p
  BY <1>7, TaskIs DEF Queued, What
<1> HIDE DEF b
<1>9. /\ lru' \in Seq(Block) /\ IsInjective(lru') /\ Total[Range(lru')] <= Limit
      /\ Range(lru') \subseteq Range(lru) \cup {b} /\ b \in Range(lru')
  <2> DEFINE s == ToFront(b)
  <2>1. s \in Seq(Block) /\ IsInjective(s) /\ Range(s) = Range(lru) \cup {b} /\ Len(s) > 0 /\ s[1] = b
    BY <1>2, MovedToFront DEF TypeOK
  <2>2. lru' = Trim(s)
    BY <1>3
  <2> HIDE DEF s
  <2>3. QED
    BY <2>1, <2>2, Trimmed
<1>10. contains(b)' /\ \A c \in Block : contains(c)' => contains(c) \/ c = b
  BY <1>9 DEF contains
<1>11. TypeOK'
  BY <1>2, <1>3, <1>7, <1>9 DEF TypeOK, Tasks, What
<1>12. QueueInv'
  <2> SUFFICES ASSUME NEW k \in Lookup
               PROVE  /\ ~Queued("ask", k)' /\ ~Queued("resume", k)' /\ ~Queued("delete", k)' /\ ~Queued("store", k)'
                      /\ Queued("return", k)' => Alone("return", k)' /\ promise'[k] = "decode" /\ contains(BlockOf(k))'
    BY <1>7 DEF QueueInv
  <2>1. ~Queued("ask", k)' /\ ~Queued("resume", k)' /\ ~Queued("delete", k)' /\ ~Queued("store", k)'
    BY <1>8 DEF What
  <2>2. ASSUME Queued("return", k)'
        PROVE  Alone("return", k)' /\ promise'[k] = "decode" /\ contains(BlockOf(k))'
    <3>1. k = p /\ BlockOf(k) = b
      BY <1>8, <2>2 DEF What, b
    <3>2. Alone("return", k)'
      BY <1>7, <3>1 DEF Alone
    <3>3. QED
      BY <1>3, <1>5, <1>10, <3>1, <3>2
  <2>3. QED
    BY <2>1, <2>2
<1>13. WaitersInv'
  BY <1>3 DEF LookupInv, WaitersInv
<1>14. PendingInv'
  <2> SUFFICES ASSUME NEW c \in Block, NEW q \in Lookup, pending'[c] = q
               PROVE  BlockOf(q) = c /\ promise'[q] # "none" /\ promise'[q] # "resolved"
    BY DEF PendingInv
  <2>1. BlockOf(q) = c /\ promise[q] # "none" /\ (promise[q] = "resolved" => Queued("delete", q))
    BY <1>3 DEF LookupInv, PendingInv
  <2>2. QED
    BY <1>3, <1>6, <2>1 DEF What
<1>15. FetchInv'
  <2> SUFFICES ASSUME NEW q \in Lookup, Fetching(q)'
               PROVE  pending'[BlockOf(q)] = q /\ (contains(BlockOf(q))' => Queued("return", q)')
    BY DEF FetchInv
  <2>1. Fetching(q) /\ Fetching(p)
    BY <1>3, <1>5 DEF Fetching
  <2>2. pending[BlockOf(q)] = q /\ (contains(BlockOf(q)) => Queued("return", q)) /\ pending[b] = p
    BY <2>1 DEF LookupInv, FetchInv, b
  <2>3. ~contains(BlockOf(q))
    BY <1>6, <2>2 DEF What
  <2>4. contains(BlockOf(q))' => q = p
    BY <1>10, <2>2, <2>3, LookupIs
  <2>5. QED
    BY <1>3, <1>8, <2>2, <2>4 DEF What
<1>16. NeverMissing'
  BY <1>3 DEF LookupInv, NeverMissing
<1>17. QED
  BY <1>11, <1>12, <1>13, <1>14, <1>15, <1>16 DEF LookupInv

LEMMA ReturnKeeps ==
  ASSUME LookupInv, NEW p \in Lookup, Return(p)
  PROVE  LookupInv'
<1> DEFINE b == BlockOf(p)
           s == Resumes(waiters[p])
           d == <<Task("delete", p)>>
           t == d \o s
<1>1. Runs("return", p) /\ Then(t)
  BY DEF Return
<1>2. b \in Block /\ TypeOK
  BY LookupIs DEF LookupInv
<1>3. /\ promise' = [promise EXCEPT ![p] = "resolved"]
      /\ lru' = lru /\ pending' = pending /\ waiters' = waiters /\ waits' = waits /\ result' = result
  BY DEF Return
<1>4. Queued("return", p)
  BY <1>1, QueueTypes, RunningIs DEF What
<1>5. Range(tasks) = {Task("return", p)} /\ promise[p] = "decode" /\ contains(b)
  BY <1>4 DEF LookupInv, QueueInv, Alone
<1>6. pending[b] = p
  BY <1>5 DEF LookupInv, FetchInv, Fetching
<1>7. \A v \in What : \A k \in Lookup : Queued(v, k) => v = "return" /\ k = p
  BY <1>4, Others DEF What
<1> HIDE DEF b
<1>8. waiters[p] \in Seq(Lookup) /\ IsInjective(waiters[p]) /\ Range(waiters[p]) \subseteq Lookup
  <2>1. waiters[p] \in Seq(Lookup) /\ IsInjective(waiters[p])
    BY <1>2 DEF TypeOK, LookupInv, WaitersInv
  <2>2. QED
    BY <2>1, RangeIs
<1>9. /\ t \in Seq(Tasks) /\ IsInjective(t)
      /\ Range(t) = {Task("delete", p)} \cup {Task("resume", k) : k \in Range(waiters[p])}
  <2>1. s \in Seq(Tasks) /\ IsInjective(s) /\ Range(s) = {Task("resume", k) : k \in Range(waiters[p])}
    BY <1>8, Resuming
  <2>2. Task("delete", p) \in Tasks /\ \A k \in Lookup : Task("resume", k) # Task("delete", p)
    BY TaskIs DEF What
  <2>3. d \in Seq(Tasks) /\ IsInjective(d) /\ Range(d) = {Task("delete", p)}
    BY <2>2, Few
  <2>4. Range(d) \cap Range(s) = {}
    BY <1>8, <2>1, <2>2, <2>3
  <2> HIDE DEF d, s
  <2>5. QED
    BY <2>1, <2>3, <2>4, Joins
<1> HIDE DEF t, d, s
<1>10. /\ tasks' \in Seq(Tasks) /\ IsInjective(tasks')
       /\ Range(tasks') = {Task("delete", p)} \cup {Task("resume", k) : k \in Range(waiters[p])}
  <2>1. "return" \in What /\ Task("return", p) # Task("delete", p)
          /\ \A k \in Lookup : Task("return", p) # Task("resume", k)
    BY TaskIs DEF What
  <2>2. \A x \in Range(t) : x \notin Range(tasks)
    BY <1>5, <1>8, <1>9, <2>1
  <2>3. /\ tasks' \in Seq(Tasks) /\ IsInjective(tasks')
        /\ Range(tasks') = (Range(tasks) \ {Task("return", p)}) \cup Range(t)
    BY <1>1, <1>9, <2>1, <2>2, Ran
  <2>4. QED
    BY <1>5, <1>9, <2>3
<1>11. \A v \in What : \A k \in Lookup :
         Queued(v, k)' <=> (v = "delete" /\ k = p) \/ (v = "resume" /\ k \in Range(waiters[p]))
  <2> TAKE v \in What
  <2> TAKE k \in Lookup
  <2>1. Task(v, k) = Task("delete", p) <=> v = "delete" /\ k = p
    BY TaskIs DEF What
  <2>2. \A j \in Lookup : Task(v, k) = Task("resume", j) <=> v = "resume" /\ k = j
    BY TaskIs DEF What
  <2>3. QED
    BY <1>8, <1>10, <2>1, <2>2 DEF Queued
<1>12. \A k \in Lookup : promise'[k] = IF k = p THEN "resolved" ELSE promise[k]
  BY <1>2, <1>3 DEF TypeOK
<1>13. \A c \in Block : contains(c)' = contains(c)
  BY <1>3 DEF contains
<1>14. TypeOK'
  BY <1>2, <1>3, <1>10 DEF TypeOK, Tasks, What
<1>15. QueueInv'
  <2> SUFFICES ASSUME NEW k \in Lookup
               PROVE  /\ Queued("resume", k)' => /\ result'[k] # "none" /\ waits'[k] \in Lookup
                                                 /\ promise'[waits'[k]] = "rejected" \/ contains(BlockOf(k))'
                      /\ Queued("delete", k)' => promise'[k] = "resolved" /\ pending'[BlockOf(k)] = k
                      /\ ~Queued("ask", k)' /\ ~Queued("store", k)' /\ ~Queued("return", k)'
    BY <1>10 DEF QueueInv
  <2>1. ~Queued("ask", k)' /\ ~Queued("store", k)' /\ ~Queued("return", k)'
    BY <1>11 DEF What
  <2>2. Queued("delete", k)' => promise'[k] = "resolved" /\ pending'[BlockOf(k)] = k
    BY <1>3, <1>6, <1>11, <1>12 DEF What, b
  <2>3. ASSUME Queued("resume", k)'
        PROVE /\ result'[k] # "none" /\ waits'[k] \in Lookup
              /\ promise'[waits'[k]] = "rejected" \/ contains(BlockOf(k))'
    <3>1. k \in Range(waiters[p])
      BY <1>11, <2>3 DEF What
    <3>2. waits[k] = p /\ BlockOf(k) = b /\ result[k] # "none"
      BY <3>1 DEF LookupInv, WaitersInv, b
    <3>3. QED
      BY <1>2, <1>3, <1>5, <1>13, <3>2
  <2>4. QED
    BY <2>1, <2>2, <2>3
<1>16. WaitersInv'
  BY <1>3, <1>5, <1>12 DEF LookupInv, WaitersInv
<1>17. PendingInv'
  <2> SUFFICES ASSUME NEW c \in Block, NEW q \in Lookup, pending'[c] = q
               PROVE  /\ BlockOf(q) = c /\ promise'[q] # "none"
                      /\ promise'[q] = "resolved" => Queued("delete", q)' /\ contains(c)'
    BY DEF PendingInv
  <2>1. BlockOf(q) = c /\ promise[q] # "none" /\ (promise[q] = "resolved" => Queued("delete", q))
    BY <1>3 DEF LookupInv, PendingInv
  <2>2. promise[q] # "resolved"
    BY <1>7, <2>1 DEF What
  <2>3. promise'[q] = "resolved" => q = p /\ c = b
    BY <1>12, <2>1, <2>2 DEF b
  <2>4. QED
    BY <1>2, <1>5, <1>11, <1>12, <1>13, <2>1, <2>3 DEF What
<1>18. FetchInv'
  <2> SUFFICES ASSUME NEW q \in Lookup, Fetching(q)'
               PROVE  pending'[BlockOf(q)] = q /\ ~contains(BlockOf(q))'
    BY DEF FetchInv
  <2>1. Fetching(q) /\ q # p
    BY <1>12 DEF Fetching
  <2>2. pending[BlockOf(q)] = q /\ (contains(BlockOf(q)) => Queued("return", q))
    BY <2>1 DEF LookupInv, FetchInv
  <2>3. QED
    BY <1>3, <1>7, <1>13, <2>1, <2>2, LookupIs DEF What
<1>19. NeverMissing'
  BY <1>3 DEF LookupInv, NeverMissing
<1>20. QED
  BY <1>14, <1>15, <1>16, <1>17, <1>18, <1>19 DEF LookupInv

LEMMA ArriveKeeps ==
  ASSUME LookupInv, NEW r \in Request, Arrive(r)
  PROVE  LookupInv'
<1> DEFINE n == Len(Asks[r])
           ask == [i \in 1 .. n |-> Task("ask", <<r, i>>)]
<1>1. Turn /\ tasks' = ask /\ \A i \in 1 .. n : result[<<r, i>>] = "none"
  BY DEF Arrive
<1>2. TypeOK /\ n \in Nat
  BY AskAssumption DEF LookupInv
<1>3. /\ lru' = lru /\ pending' = pending /\ promise' = promise
      /\ waiters' = waiters /\ waits' = waits /\ result' = result
  BY DEF Arrive
<1>4. \A v, k : ~Queued(v, k)
  BY <1>1, EmptyQueue
<1> HIDE DEF n
<1>5. \A i \in 1 .. n : <<r, i>> \in Lookup /\ Task("ask", <<r, i>>) \in Tasks
  BY AskIs, TaskIs DEF n, What
<1>6. tasks' \in Seq(Tasks)
  BY <1>1, <1>2, <1>5
<1>7. DOMAIN tasks' = 1 .. n /\ \A i \in 1 .. n : tasks'[i] = Task("ask", <<r, i>>)
  BY <1>1
<1> HIDE DEF ask
<1>8. IsInjective(tasks')
  <2> SUFFICES ASSUME NEW i \in 1 .. n, NEW j \in 1 .. n, tasks'[i] = tasks'[j] PROVE i = j
    BY <1>7 DEF IsInjective
  <2>1. Task("ask", <<r, i>>) = Task("ask", <<r, j>>)
    BY <1>7
  <2>2. <<r, i>> = <<r, j>>
    BY <2>1 DEF Task
  <2>3. QED
    BY <2>2
<1>9. ASSUME NEW v \in What, NEW k \in Lookup, Queued(v, k)'
      PROVE  v = "ask" /\ result[k] = "none"
  <2>1. \E i \in DOMAIN tasks' : Task(v, k) = tasks'[i]
    BY <1>9, Zenon DEF Queued, Range
  <2>2. PICK i \in 1 .. n : Task(v, k) = Task("ask", <<r, i>>)
    BY <1>7, <2>1
  <2>3. v = "ask" /\ k = <<r, i>>
    BY <1>5, <2>2, TaskIs DEF What
  <2>4. QED
    BY <1>1, <2>3
<1>10. TypeOK'
  BY <1>2, <1>3, <1>6 DEF TypeOK, Tasks, What
<1>11. \A c \in Block : contains(c)' = contains(c)
  BY <1>3 DEF contains
<1>12. QueueInv'
  <2> SUFFICES ASSUME NEW k \in Lookup
               PROVE  /\ Queued("ask", k)' => result'[k] = "none"
                      /\ ~Queued("resume", k)' /\ ~Queued("delete", k)' /\ ~Queued("store", k)' /\ ~Queued("return", k)'
    BY <1>8 DEF QueueInv
  <2>1. QED
    BY <1>3, <1>9 DEF What
<1>13. WaitersInv' /\ NeverMissing'
  BY <1>3 DEF LookupInv, WaitersInv, NeverMissing
<1>14. PendingInv'
  BY <1>3, <1>4, <1>11 DEF LookupInv, PendingInv
<1>15. FetchInv'
  BY <1>3, <1>4, <1>11, LookupIs DEF LookupInv, FetchInv, Fetching
<1>16. QED
  BY <1>10, <1>12, <1>13, <1>14, <1>15 DEF LookupInv

\* A download or decompression of a fetch ends: the fetch goes on, or fails, and adds the tasks t
LEMMA FetchKeeps ==
  ASSUME LookupInv, NEW p \in Lookup, Turn, Fetching(p),
         NEW x \in {"index", "data", "decode", "rejected"},
         promise' = [promise EXCEPT ![p] = x],
         UNCHANGED <<lru, pending, waiters, waits, result>>,
         \/ x # "rejected" /\ tasks' = <<>>
         \/ x = "decode" /\ tasks' = <<Task("store", p)>>
         \/ x = "rejected" /\ tasks' = Resumes(waiters[p])
  PROVE  LookupInv'
<1>1. TypeOK /\ \A v, k : ~Queued(v, k)
  BY EmptyQueue DEF LookupInv
<1>2. lru' = lru /\ pending' = pending /\ waiters' = waiters /\ waits' = waits /\ result' = result
  OBVIOUS
<1>3. \A k \in Lookup : promise'[k] = IF k = p THEN x ELSE promise[k]
  BY <1>1 DEF TypeOK
<1>4. pending[BlockOf(p)] = p /\ ~contains(BlockOf(p))
  BY <1>1 DEF LookupInv, FetchInv
<1>5. \A c \in Block : contains(c)' = contains(c)
  BY <1>2 DEF contains
<1>6. waiters[p] \in Seq(Lookup) /\ IsInjective(waiters[p]) /\ Range(waiters[p]) \subseteq Lookup
  <2>1. waiters[p] \in Seq(Lookup) /\ IsInjective(waiters[p])
    BY <1>1 DEF TypeOK, LookupInv, WaitersInv
  <2>2. QED
    BY <2>1, RangeIs
<1>7. /\ tasks' \in Seq(Tasks) /\ IsInjective(tasks')
      /\ \A v \in What : \A k \in Lookup :
           Queued(v, k)' => \/ v = "store" /\ k = p /\ x = "decode" /\ Alone("store", p)'
                            \/ v = "resume" /\ k \in Range(waiters[p]) /\ x = "rejected"
  <2>1. CASE tasks' = <<>>
    BY <2>1, Few DEF Queued
  <2>2. CASE x = "decode" /\ tasks' = <<Task("store", p)>>
    <3>1. Task("store", p) \in Tasks
      BY TaskIs DEF What
    <3>2. tasks' \in Seq(Tasks) /\ IsInjective(tasks') /\ Range(tasks') = {Task("store", p)}
      BY <2>2, <3>1, Few
    <3>3. Alone("store", p)'
      BY <3>2 DEF Alone
    <3>4. \A v \in What : \A k \in Lookup : Queued(v, k)' => v = "store" /\ k = p
      BY <3>2, TaskIs DEF Queued, What
    <3>5. QED
      BY <2>2, <3>2, <3>3, <3>4
  <2>3. CASE x = "rejected" /\ tasks' = Resumes(waiters[p])
    <3> DEFINE s == Resumes(waiters[p])
    <3>1. s \in Seq(Tasks) /\ IsInjective(s) /\ Range(s) = {Task("resume", k) : k \in Range(waiters[p])}
      BY <1>6, Resuming
    <3>2. tasks' = s
      BY <2>3
    <3> HIDE DEF s
    <3>3. \A v \in What : \A k \in Lookup : Queued(v, k)' => v = "resume" /\ k \in Range(waiters[p])
      BY <1>6, <3>1, <3>2, TaskIs DEF Queued, What
    <3>4. QED
      BY <2>3, <3>1, <3>2, <3>3
  <2>4. QED
    BY <2>1, <2>2, <2>3
<1>8. TypeOK'
  BY <1>1, <1>2, <1>7 DEF TypeOK, Tasks, What
<1>9. QueueInv'
  <2> SUFFICES ASSUME NEW k \in Lookup
               PROVE  /\ Queued("resume", k)' => /\ result'[k] # "none" /\ waits'[k] \in Lookup
                                                 /\ promise'[waits'[k]] = "rejected"
                      /\ Queued("store", k)' => Alone("store", k)' /\ promise'[k] = "decode" /\ ~contains(BlockOf(k))'
                      /\ ~Queued("ask", k)' /\ ~Queued("delete", k)' /\ ~Queued("return", k)'
    BY <1>7 DEF QueueInv
  <2>1. ~Queued("ask", k)' /\ ~Queued("delete", k)' /\ ~Queued("return", k)'
    BY <1>7 DEF What
  <2>2. ASSUME Queued("store", k)'
        PROVE  Alone("store", k)' /\ promise'[k] = "decode" /\ ~contains(BlockOf(k))'
    <3>1. k = p /\ x = "decode" /\ Alone("store", p)'
      BY <1>7, <2>2 DEF What
    <3>2. QED
      BY <1>3, <1>4, <1>5, <3>1, LookupIs
  <2>3. ASSUME Queued("resume", k)'
        PROVE result'[k] # "none" /\ waits'[k] \in Lookup /\ promise'[waits'[k]] = "rejected"
    <3>1. k \in Range(waiters[p]) /\ x = "rejected"
      BY <1>7, <2>3 DEF What
    <3>2. waits[k] = p /\ result[k] # "none"
      BY <3>1 DEF LookupInv, WaitersInv
    <3>3. QED
      BY <1>2, <1>3, <3>1, <3>2
  <2>4. QED
    BY <2>1, <2>2, <2>3
<1>10. WaitersInv'
  <2>1. promise[p] # "none"
    BY DEF Fetching
  <2>2. QED
    BY <1>2, <1>3, <2>1 DEF LookupInv, WaitersInv
<1>11. PendingInv'
  BY <1>1, <1>2, <1>3 DEF LookupInv, PendingInv
<1>12. FetchInv'
  <2> SUFFICES ASSUME NEW q \in Lookup, Fetching(q)'
               PROVE  pending'[BlockOf(q)] = q /\ ~contains(BlockOf(q))'
    BY DEF FetchInv
  <2>1. Fetching(q)
    BY <1>3 DEF Fetching
  <2>2. pending[BlockOf(q)] = q /\ ~contains(BlockOf(q))
    BY <1>1, <2>1 DEF LookupInv, FetchInv
  <2>3. QED
    BY <1>2, <1>5, <2>2, LookupIs
<1>13. NeverMissing'
  BY <1>2 DEF LookupInv, NeverMissing
<1>14. QED
  BY <1>8, <1>9, <1>10, <1>11, <1>12, <1>13 DEF LookupInv

LEMMA EventsKeep ==
  ASSUME LookupInv, NEW p \in Lookup, Download(p) \/ Corrupt(p) \/ Decoded(p)
  PROVE  LookupInv'
<1>1. CASE GotIndex(p)
  BY <1>1, FetchKeeps DEF GotIndex, Turn, Fetching
<1>2. CASE GotData(p)
  BY <1>2, FetchKeeps DEF GotData, Turn, Fetching
<1>3. CASE Corrupt(p)
  BY <1>3, FetchKeeps DEF Corrupt, Turn, Fetching
<1>4. CASE DownloadFails(p)
  BY <1>4, FetchKeeps DEF DownloadFails, Rejects, Turn, Fetching
<1>5. CASE Decoded(p)
  <2>1. promise[p] = "decode" /\ promise' = promise
    BY <1>5 DEF Decoded
  <2>2. promise' = [promise EXCEPT ![p] = "decode"]
    BY <2>1 DEF LookupInv, TypeOK
  <2>3. QED
    BY <1>5, <2>1, <2>2, FetchKeeps DEF Decoded, Fetching
<1>6. QED
  BY <1>1, <1>2, <1>3, <1>4, <1>5 DEF Download

LEMMA Steps == LookupInv /\ [Next]_vars => LookupInv'
<1> SUFFICES ASSUME LookupInv, [Next]_vars PROVE LookupInv'
  OBVIOUS
<1>1. CASE Microtask
  <2>1. PICK l \in Lookup : Join(l) \/ Compute(l) \/ Delete(l) \/ Resume(l) \/ Store(l) \/ Return(l)
    BY <1>1 DEF Microtask
  <2>2. QED
    BY <2>1, JoinKeeps, ComputeKeeps, DeleteKeeps, ResumeKeeps, StoreKeeps, ReturnKeeps
<1>2. CASE \E r \in Request : Arrive(r)
  BY <1>2, ArriveKeeps
<1>3. CASE \E p \in Lookup : Download(p) \/ Corrupt(p) \/ Decoded(p)
  BY <1>3, EventsKeep
<1>4. CASE UNCHANGED vars
  BY <1>4 DEF vars, LookupInv, TypeOK, QueueInv, Queued, Alone, WaitersInv, PendingInv, FetchInv, Fetching,
              NeverMissing, contains
<1>5. QED
  BY <1>1, <1>2, <1>3, <1>4 DEF Next
-----------------------------------------------------------------------------
(***************************************************************************)
(* The invariant holds of every reachable state of the server.             *)
(***************************************************************************)
THEOREM LookupsInvariance == Spec => []LookupInv
<1>1. QED
  BY Initially, Steps, PTL DEF Spec

(***************************************************************************)
(* The state has its type, and the cache keeps within its limit.           *)
(***************************************************************************)
THEOREM LookupsTypeCorrect == Spec => []TypeOK
<1>1. LookupInv => TypeOK
  BY DEF LookupInv
<1>2. QED
  BY <1>1, LookupsInvariance, PTL

(***************************************************************************)
(* value() never throws for a missing block: nothing evicts a block between*)
(* the end of its computation, or the check that it is cached, and the     *)
(* reads of the lookups that wait for it.                                  *)
(***************************************************************************)
THEOREM ReadsFindTheBlock == Spec => []NeverMissing
<1>1. LookupInv => NeverMissing
  BY DEF LookupInv
<1>2. QED
  BY <1>1, LookupsInvariance, PTL

(***************************************************************************)
(* Simultaneous requests for a block are merged: one computation fetches   *)
(* it, the others find that one pending.                                   *)
(***************************************************************************)
THEOREM BlocksFetchedOnce == Spec => []FetchesOnce
<1>1. LookupInv => FetchesOnce
  <2> SUFFICES ASSUME LookupInv, NEW p \in Lookup, Fetching(p)
               PROVE  /\ pending[BlockOf(p)] = p
                      /\ \A q \in Lookup \ {p} : BlockOf(q) = BlockOf(p) => ~Fetching(q)
                      /\ contains(BlockOf(p)) => Runs("return", p)
    BY DEF FetchesOnce
  <2>1. \A q \in Lookup : Fetching(q) => pending[BlockOf(q)] = q
    BY DEF LookupInv, FetchInv
  <2>2. ASSUME contains(BlockOf(p)) PROVE Runs("return", p)
    <3>1. Queued("return", p)
      BY <2>2 DEF LookupInv, FetchInv
    <3>2. Alone("return", p)
      BY <3>1 DEF LookupInv, QueueInv
    <3>3. QED
      BY <3>2, QueueTypes, LastRuns DEF What
  <2>3. QED
    BY <2>1, <2>2
<1>2. QED
  BY <1>1, LookupsInvariance, PTL
==============================================================================
