----------------------------- MODULE FlowProofs ------------------------------
(***************************************************************************)
(* Machine-checked proofs about compute_lines of mpi/flow.cc, for any      *)
(* ranks, lines, blocks, limits and orders, with merged requests and       *)
(* without, and on the last slice and before.                              *)
(*                                                                         *)
(* Each counter of a line is a number, while what it stands for is spread  *)
(* over requests, messages, jobs and sends.  The invariant FlowInv names   *)
(* that set for each counter and keeps the counter equal to its size: the  *)
(* blocks some pending request asks for on behalf of the line, those some  *)
(* absorb_response has not put in place, and the sends to come; and for a  *)
(* rank's barrier countdown, its sends and receives to come.  What makes a *)
(* set lose exactly one member when a counter goes down is that a line asks*)
(* for a block in one request or one job only, which schedule_lines must   *)
(* preserve when lines join requests: that is lemma Schedules.             *)
(***************************************************************************)
EXTENDS Flow, FiniteSetTheorems, SequenceTheorems, TLAPS

\* A nonempty set of naturals has a least element
LEMMA LeastOf ==
  ASSUME NEW S \in SUBSET Nat, S # {}
  PROVE  \E m \in S : \A k \in S : m <= k
<1> DEFINE Less == {ss \in Nat \X Nat : ss[1] < ss[2]}
<1>1. IsWellFoundedOn(Less, Nat)
  BY NatLessThanWellFounded DEF OpToRel
<1> HIDE DEF Less
<1>2. PICK m \in S : \A k \in S : ~(<<k, m>> \in Less)
  BY <1>1, WFMin
<1>3. \A k \in S : ~(k < m)
  BY <1>2 DEF Less
<1>4. QED
  BY <1>3

\* A bounded one has a greatest
LEMMA GreatestOf ==
  ASSUME NEW n \in Nat, NEW S \in SUBSET (0 .. n), S # {}
  PROVE  Max(S) \in S
<1> DEFINE D == {n - k : k \in S}
<1>1. D \in SUBSET Nat /\ D # {}
  <2>1. \A k \in S : n - k \in Nat
    OBVIOUS
  <2>2. QED
    BY <2>1
<1>2. PICK d \in D : \A e \in D : d <= e
  BY <1>1, LeastOf
<1>3. PICK k \in S : d = n - k
  BY <1>2
<1>4. \A j \in S : n - j \in D
  OBVIOUS
<1>5. \A j \in S : k >= j
  BY <1>2, <1>3, <1>4
<1>6. QED
  BY <1>5 DEF Max

LEMMA RangeIs == \A s, x : x \in Range(s) <=> \E i \in DOMAIN s : x = s[i]
BY DEF Range

LEMMA RangeIn == \A s \in Seq(Line) : Range(s) \in SUBSET Line
BY DEF Range

LEMMA Appended ==
  ASSUME NEW s \in Seq(Line), NEW l \in Line
  PROVE  /\ Append(s, l) \in Seq(Line)
         /\ Range(Append(s, l)) = Range(s) \cup {l}
         /\ IsInjective(s) /\ l \notin Range(s) => IsInjective(Append(s, l))
<1> DEFINE t == Append(s, l)
           n == Len(s)
<1>1. n \in Nat /\ DOMAIN s = 1 .. n
  OBVIOUS
<1>2. t \in Seq(Line) /\ Len(t) = n + 1 /\ DOMAIN t = 1 .. n + 1
  OBVIOUS
<1>3. t[n + 1] = l /\ \A i \in 1 .. n : t[i] = s[i]
  OBVIOUS
<1> HIDE DEF t, n
<1>4. Range(t) = Range(s) \cup {l}
  <2>1. ASSUME NEW i \in 1 .. n + 1 PROVE t[i] \in Range(s) \cup {l}
    <3>1. i = n + 1 \/ i \in 1 .. n
      BY <1>1
    <3>2. QED
      BY <1>1, <1>3, <3>1, RangeIs
  <2>2. \A i \in 1 .. n : i \in 1 .. n + 1 /\ s[i] \in Range(t)
    BY <1>1, <1>2, <1>3, RangeIs
  <2>3. n + 1 \in 1 .. n + 1 /\ l \in Range(t)
    BY <1>1, <1>2, <1>3, RangeIs
  <2>4. QED
    BY <1>1, <1>2, <2>1, <2>2, <2>3, RangeIs
<1>5. ASSUME IsInjective(s), l \notin Range(s) PROVE IsInjective(t)
  <2> SUFFICES ASSUME NEW a \in 1 .. n + 1, NEW b \in 1 .. n + 1, a < b PROVE t[a] # t[b]
    BY <1>1, <1>2 DEF IsInjective
  <2>1. a \in 1 .. n /\ t[a] = s[a] /\ s[a] \in Range(s)
    BY <1>1, <1>3, RangeIs
  <2>2. CASE b = n + 1
    BY <1>3, <1>5, <2>1, <2>2
  <2>3. CASE b # n + 1
    <3>1. b \in 1 .. n /\ t[b] = s[b] /\ a # b
      BY <1>1, <1>3, <2>3
    <3>2. QED
      BY <1>1, <1>5, <2>1, <3>1 DEF IsInjective
  <2>4. QED
    BY <2>2, <2>3
<1>6. QED
  BY <1>2, <1>4, <1>5 DEF t

LEMMA Joins ==
  ASSUME NEW s \in Seq(Line), NEW t \in Seq(Line)
  PROVE  /\ s \o t \in Seq(Line)
         /\ Range(s \o t) = Range(s) \cup Range(t)
         /\ IsInjective(s) /\ IsInjective(t) /\ Range(s) \cap Range(t) = {} => IsInjective(s \o t)
         /\ Len(s) > 0 => Len(s \o t) > 0 /\ Head(s \o t) = Head(s)
<1> DEFINE u == s \o t
           n == Len(s)
           m == Len(t)
<1>1. n \in Nat /\ DOMAIN s = 1 .. n /\ m \in Nat /\ DOMAIN t = 1 .. m
  OBVIOUS
<1>2. u \in Seq(Line) /\ Len(u) = n + m /\ DOMAIN u = 1 .. n + m
  OBVIOUS
<1>3. /\ \A i \in 1 .. n : u[i] = s[i]
      /\ \A i \in 1 .. n + m : i > n => u[i] = t[i - n] /\ i - n \in 1 .. m
  OBVIOUS
<1>4. \A i \in 1 .. m : n + i \in 1 .. n + m /\ u[n + i] = t[i]
  <2> TAKE i \in 1 .. m
  <2>1. n + i \in 1 .. n + m /\ n + i > n /\ n + i - n = i
    BY <1>1
  <2>2. QED
    BY <1>3, <2>1
<1> HIDE DEF u, n, m
<1>5. Range(u) = Range(s) \cup Range(t)
  <2>1. ASSUME NEW i \in 1 .. n + m PROVE u[i] \in Range(s) \cup Range(t)
    <3>1. i \in 1 .. n \/ i > n
      BY <1>1
    <3>2. QED
      BY <1>1, <1>3, <3>1, RangeIs
  <2>2. \A i \in 1 .. n : i \in 1 .. n + m /\ s[i] \in Range(u)
    BY <1>1, <1>2, <1>3, RangeIs
  <2>3. \A i \in 1 .. m : t[i] \in Range(u)
    BY <1>1, <1>2, <1>4, RangeIs
  <2>4. QED
    BY <1>1, <1>2, <2>1, <2>2, <2>3, RangeIs
<1>6. ASSUME IsInjective(s), IsInjective(t), Range(s) \cap Range(t) = {} PROVE IsInjective(u)
  <2> SUFFICES ASSUME NEW a \in 1 .. n + m, NEW b \in 1 .. n + m, a < b PROVE u[a] # u[b]
    BY <1>1, <1>2 DEF IsInjective
  <2>1. CASE b \in 1 .. n
    <3>1. a \in 1 .. n /\ a # b /\ u[a] = s[a] /\ u[b] = s[b]
      BY <1>1, <1>3, <2>1
    <3>2. QED
      BY <1>1, <1>6, <2>1, <3>1 DEF IsInjective
  <2>2. CASE a \in 1 .. n /\ b > n
    <3>1. u[a] \in Range(s) /\ u[b] \in Range(t)
      BY <1>1, <1>3, <2>2, RangeIs
    <3>2. QED
      BY <1>6, <3>1
  <2>3. CASE a > n
    <3>1. b > n
      BY <1>1, <2>3
    <3>2. /\ a - n \in 1 .. m /\ u[a] = t[a - n]
          /\ b - n \in 1 .. m /\ u[b] = t[b - n]
      BY <1>3, <2>3, <3>1
    <3>3. a - n # b - n
      BY <1>1
    <3>4. QED
      BY <1>1, <1>6, <3>2, <3>3 DEF IsInjective
  <2>4. QED
    BY <1>1, <2>1, <2>2, <2>3
<1>7. ASSUME n > 0 PROVE Len(u) > 0 /\ Head(u) = Head(s)
  <2>1. 1 \in 1 .. n
    BY <1>1, <1>7
  <2>2. Head(u) = u[1] /\ Head(s) = s[1]
    BY <1>1, <1>2, <1>7, HeadTailProperties DEF u, n
  <2>3. QED
    BY <1>1, <1>2, <1>3, <1>7, <2>1, <2>2
<1>8. QED
  BY <1>2, <1>5, <1>6, <1>7 DEF u, n

\* The first n of a sequence, and the rest
LEMMA Splits ==
  ASSUME NEW s \in Seq(Line), NEW n \in 0 .. Len(s), IsInjective(s)
  PROVE  LET t == SubSeq(s, 1, n)
             u == SubSeq(s, n + 1, Len(s))
         IN /\ t \in Seq(Line) /\ u \in Seq(Line)
            /\ Len(t) = n /\ Len(u) = Len(s) - n
            /\ IsInjective(t) /\ IsInjective(u)
            /\ Range(s) = Range(t) \cup Range(u)
            /\ Range(t) \cap Range(u) = {}
<1> DEFINE m == Len(s)
           t == SubSeq(s, 1, n)
           u == SubSeq(s, n + 1, m)
<1>1. m \in Nat /\ n \in Nat /\ n <= m /\ DOMAIN s = 1 .. m /\ \A i \in 1 .. m : s[i] \in Line
  OBVIOUS
<1>2. t \in Seq(Line) /\ Len(t) = n /\ \A i \in 1 .. n : t[i] = s[i]
  BY SubSeqProperties
<1>3. u \in Seq(Line) /\ Len(u) = m - n /\ \A i \in 1 .. m - n : u[i] = s[n + i]
  <2>1. n + 1 \in Int /\ m \in Int /\ \A i \in n + 1 .. m : s[i] \in Line
    BY <1>1
  <2>2. /\ u \in Seq(Line)
        /\ Len(u) = IF n + 1 <= m THEN m - (n + 1) + 1 ELSE 0
        /\ \A i \in 1 .. m - (n + 1) + 1 : u[i] = s[n + 1 + i - 1]
    <3> HIDE DEF m
    <3> QED
      BY <2>1, SubSeqProperties
  <2> HIDE DEF u, m
  <2>3. m - (n + 1) + 1 = m - n
    BY <1>1
  <2>4. \A i \in 1 .. m - n : n + 1 + i - 1 = n + i
    BY <1>1
  <2>5. Len(u) = m - n
    BY <1>1, <2>2
  <2>6. QED
    BY <2>2, <2>3, <2>4, <2>5
<1>4. DOMAIN t = 1 .. n /\ DOMAIN u = 1 .. m - n
  BY <1>2, <1>3
<1> HIDE DEF t, u, m
<1>5. \A i \in 1 .. n : i \in 1 .. m
  BY <1>1
<1>6. \A i \in 1 .. m - n : n + i \in 1 .. m
  BY <1>1
<1>7. \A i \in 1 .. m : i \in 1 .. n \/ (i - n \in 1 .. m - n /\ n + (i - n) = i)
  BY <1>1
<1>8. IsInjective(t)
  BY <1>1, <1>2, <1>4, <1>5 DEF IsInjective
<1>9. IsInjective(u)
  <2> SUFFICES ASSUME NEW i \in 1 .. m - n, NEW j \in 1 .. m - n, u[i] = u[j] PROVE i = j
    BY <1>4 DEF IsInjective
  <2>1. n + i \in 1 .. m /\ n + j \in 1 .. m /\ s[n + i] = s[n + j]
    BY <1>3, <1>6
  <2>2. n + i = n + j
    BY <1>1, <2>1 DEF IsInjective
  <2>3. QED
    BY <1>1, <2>2
<1>10. Range(t) \subseteq Range(s) /\ Range(u) \subseteq Range(s)
  BY <1>1, <1>2, <1>3, <1>4, <1>5, <1>6, RangeIs
<1>11. Range(s) \subseteq Range(t) \cup Range(u)
  <2> SUFFICES ASSUME NEW i \in 1 .. m PROVE s[i] \in Range(t) \cup Range(u)
    BY <1>1, RangeIs
  <2>1. CASE i \in 1 .. n
    BY <1>2, <1>4, <2>1, RangeIs
  <2>2. CASE i - n \in 1 .. m - n /\ n + (i - n) = i
    <3>1. u[i - n] = s[i]
      BY <1>3, <2>2
    <3>2. QED
      BY <1>4, <2>2, <3>1, RangeIs
  <2>3. QED
    BY <1>7, <2>1, <2>2
<1>12. Range(t) \cap Range(u) = {}
  <2> SUFFICES ASSUME NEW x, x \in Range(t), x \in Range(u) PROVE FALSE
    OBVIOUS
  <2> PICK i \in 1 .. n : x = t[i]
    BY <1>4, RangeIs
  <2> PICK j \in 1 .. m - n : x = u[j]
    BY <1>4, RangeIs
  <2>1. i # n + j
    BY <1>1
  <2>2. i \in 1 .. m /\ n + j \in 1 .. m
    BY <1>5, <1>6
  <2>3. s[i] # s[n + j]
    BY <1>1, <2>1, <2>2 DEF IsInjective
  <2>4. t[i] = s[i] /\ u[j] = s[n + j]
    BY <1>2, <1>3
  <2>5. QED
    BY <2>3, <2>4
<1>13. QED
  BY <1>2, <1>3, <1>8, <1>9, <1>10, <1>11, <1>12 DEF t, u, m
\* A sequence without duplicates has as many members as its length
LEMMA LengthIs ==
  ASSUME NEW s \in Seq(Line), IsInjective(s)
  PROVE  Len(s) = Cardinality(Range(s))
<1> DEFINE n == Len(s)
<1>1. n \in Nat /\ DOMAIN s = 1 .. n /\ IsFiniteSet(1 .. n) /\ Cardinality(1 .. n) = n
  <2>1. n \in Nat /\ DOMAIN s = 1 .. n
    OBVIOUS
  <2> HIDE DEF n
  <2>2. 1 \in Int /\ n \in Int /\ n - 1 + 1 = n /\ (1 > n => n = 0)
    BY <2>1
  <2>3. QED
    BY <2>1, <2>2, FS_Interval
<1>2. s \in Bijection(1 .. n, Range(s))
  BY <1>1, RangeIs DEF Bijection, Injection, Surjection, IsInjective, Range
<1>3. ExistsBijection(1 .. n, Range(s))
  BY <1>2 DEF ExistsBijection
<1>4. QED
  BY <1>1, <1>3, FS_Bijection

LEMMA HomeIs == \A l \in Line : Home(l) \in Rank /\ l \in Range(Order[Home(l)])
BY PartitionAssumption DEF Home

LEMMA HomeOf == \A r \in Rank : \A l \in Range(Order[r]) : l \in Line => Home(l) = r
<1> SUFFICES ASSUME NEW r \in Rank, NEW l \in Range(Order[r]), l \in Line, Home(l) # r PROVE FALSE
  OBVIOUS
<1>1. Home(l) \in Rank /\ l \in Range(Order[Home(l)])
  BY HomeIs
<1>2. QED
  BY <1>1, PartitionAssumption

(***************************************************************************)
(* Waiters(ls, b) are the lines of ls that read b, each once.              *)
(***************************************************************************)
LEMMA WaitersAre ==
  ASSUME NEW ls \in Seq(Line), IsInjective(ls), NEW b
  PROVE  /\ Waiters(ls, b) \in Seq(Line)
         /\ IsInjective(Waiters(ls, b))
         /\ \A l \in Line : l \in Range(Waiters(ls, b)) <=> l \in Range(ls) /\ b \in InputsOf(l)
<1> DEFINE N == Len(ls)
           Reads(i) == b \in InputsOf(ls[i])
           Step(u, k) == IF Reads(k) THEN Append(u[k - 1], ls[k]) ELSE u[k - 1]
           UpTo(n, u) == u = [k \in 0 .. n |-> IF k = 0 THEN <<>> ELSE Step(u, k)]
           upto == CHOOSE u : UpTo(N, u)
<1>1. N \in Nat /\ DOMAIN ls = 1 .. N /\ \A i \in 1 .. N : ls[i] \in Line
  OBVIOUS
<1>2. Waiters(ls, b) = upto[N]
  BY DEF Waiters
<1> HIDE DEF N, Reads
<1>3. \A n \in Nat : \E u : UpTo(n, u)
  <2> DEFINE Bad == {n \in Nat : ~ \E u : UpTo(n, u)}
  <2> SUFFICES ASSUME Bad # {} PROVE FALSE
    OBVIOUS
  <2>1. PICK n \in Bad : \A k \in Bad : n <= k
    <3> HIDE DEF UpTo
    <3> QED
      BY LeastOf
  <2>2. n # 0
    <3> SUFFICES ASSUME n = 0 PROVE FALSE
      OBVIOUS
    <3>1. UpTo(0, [k \in 0 .. 0 |-> <<>>])
      OBVIOUS
    <3>2. QED
      BY <3>1
  <2>3. n \in Nat /\ n - 1 \in Nat /\ ~(n <= n - 1)
    <3> HIDE DEF UpTo
    <3> QED
      BY <2>1, <2>2
  <2>4. PICK u : UpTo(n - 1, u)
    <3> HIDE DEF UpTo
    <3> QED
      BY <2>1, <2>3
  <2> DEFINE v == [k \in 0 .. n |-> IF k = 0 THEN <<>> ELSE Step(u, k)]
  <2>5. ASSUME NEW k \in 0 .. n - 1 PROVE v[k] = u[k]
    <3>1. k \in 0 .. n
      BY <2>3
    <3>2. u[k] = IF k = 0 THEN <<>> ELSE Step(u, k)
      <4> HIDE DEF Step
      <4> QED
        BY <2>4
    <3>3. v[k] = IF k = 0 THEN <<>> ELSE Step(u, k)
      <4> HIDE DEF Step
      <4> QED
        BY <3>1
    <3>4. QED
      BY <3>2, <3>3
  <2>6. \A k \in 0 .. n : k # 0 => v[k - 1] = u[k - 1]
    <3> HIDE DEF v
    <3> TAKE k \in 0 .. n
    <3>1. k # 0 => k - 1 \in 0 .. n - 1
      BY <2>3
    <3>2. QED
      BY <2>5, <3>1
  <2>7. UpTo(n, v)
    <3>1. \A k \in 0 .. n : k # 0 => Step(u, k) = Step(v, k)
      <4> HIDE DEF v
      <4> QED
        BY <2>6
    <3>2. QED
      <4> HIDE DEF Step
      <4> QED
        BY <3>1
  <2>8. QED
    BY <2>7
<1>4. UpTo(N, upto)
  <2> HIDE DEF UpTo
  <2> QED
    BY <1>1, <1>3
<1> DEFINE Right(n) ==
      /\ upto[n] \in Seq(Line)
      /\ IsInjective(upto[n])
      /\ \A l \in Line : l \in Range(upto[n]) <=> \E i \in 1 .. n : l = ls[i] /\ Reads(i)
<1> HIDE DEF upto
<1>5. upto[0] = <<>> /\ \A n \in 1 .. N : upto[n] = IF Reads(n) THEN Append(upto[n - 1], ls[n]) ELSE upto[n - 1]
  <2>1. 0 \in 0 .. N /\ \A n \in 1 .. N : n \in 0 .. N /\ n # 0
    BY <1>1
  <2>2. \A n \in 0 .. N : upto[n] = IF n = 0 THEN <<>> ELSE Step(upto, n)
    <3> HIDE DEF Step
    <3> QED
      BY <1>4
  <2>3. \A n \in 1 .. N : upto[n] = Step(upto, n)
    <3> HIDE DEF Step
    <3> QED
      BY <2>1, <2>2
  <2>4. QED
    BY <2>1, <2>2, <2>3
<1>6. \A n \in 0 .. N : Right(n)
  <2> DEFINE Bad == {n \in 0 .. N : ~ Right(n)}
  <2> SUFFICES ASSUME Bad # {} PROVE FALSE
    OBVIOUS
  <2>1. PICK n \in Bad : \A k \in Bad : n <= k
    <3> HIDE DEF Right
    <3>1. Bad \in SUBSET Nat
      BY <1>1
    <3> QED
      BY <3>1, LeastOf
  <2>2. Right(0)
    BY <1>5, RangeIs DEF IsInjective
  <2>3. n \in 1 .. N /\ n - 1 \in 0 .. N /\ Right(n - 1)
    <3> HIDE DEF Right
    <3>1. n # 0
      BY <2>2
    <3>2. n \in 1 .. N /\ n - 1 \in 0 .. N /\ ~(n <= n - 1)
      BY <1>1, <3>1
    <3>3. n - 1 \notin Bad
      BY <2>1, <3>2
    <3>4. QED
      BY <3>2, <3>3
  <2>4. \A i \in 1 .. n : i = n \/ i \in 1 .. n - 1
    BY <1>1, <2>3
  <2>5. \A i \in 1 .. n - 1 : i \in 1 .. n /\ i \in 1 .. N /\ i # n
    BY <1>1, <2>3
  <2>6. ls[n] \in Line
    BY <1>1, <2>3
  <2>7. ls[n] \notin Range(upto[n - 1])
    <3> SUFFICES ASSUME ls[n] \in Range(upto[n - 1]) PROVE FALSE
      OBVIOUS
    <3>1. PICK i \in 1 .. n - 1 : ls[n] = ls[i]
      BY <2>3, <2>6
    <3>2. QED
      BY <1>1, <2>3, <2>5, <3>1 DEF IsInjective
  <2>8. CASE Reads(n)
    <3>1. upto[n] = Append(upto[n - 1], ls[n])
      BY <1>5, <2>3, <2>8
    <3>2. /\ upto[n] \in Seq(Line)
          /\ IsInjective(upto[n])
          /\ Range(upto[n]) = Range(upto[n - 1]) \cup {ls[n]}
      BY <2>3, <2>6, <2>7, <3>1, Appended
    <3>3. n \in 1 .. n
      BY <2>3
    <3>4. \A l \in Line : l \in Range(upto[n]) <=> \E i \in 1 .. n : l = ls[i] /\ Reads(i)
      BY <2>3, <2>4, <2>5, <2>8, <3>2, <3>3
    <3>5. QED
      BY <3>2, <3>4
  <2>9. CASE ~Reads(n)
    <3>1. upto[n] = upto[n - 1]
      BY <1>5, <2>3, <2>9
    <3>2. \A l \in Line : l \in Range(upto[n]) <=> \E i \in 1 .. n : l = ls[i] /\ Reads(i)
      BY <2>3, <2>4, <2>5, <2>9, <3>1
    <3>3. QED
      BY <2>3, <3>1, <3>2
  <2>10. QED
    BY <2>8, <2>9
<1>7. Right(N)
  BY <1>1, <1>6
<1>8. \A l \in Line : l \in Range(ls) /\ b \in InputsOf(l) <=> \E i \in 1 .. N : l = ls[i] /\ Reads(i)
  BY <1>1, RangeIs DEF Reads
<1>9. QED
  BY <1>2, <1>7, <1>8

(***************************************************************************)
(* The memory of a set of lines is a sum, whatever order it is taken in.   *)
(***************************************************************************)
LEMMA LinesFinite ==
  ASSUME NEW S \in SUBSET Line
  PROVE  /\ IsFiniteSet(S) /\ Cardinality(S) \in Nat
         /\ \A x \in S : S \ {x} \in SUBSET Line /\ Cardinality(S \ {x}) = Cardinality(S) - 1
         /\ S # {} => Cardinality(S) > 0
<1>1. IsFiniteSet(S)
  BY FS_Subset, SliceAssumption
<1>2. Cardinality(S) \in Nat
  BY <1>1, FS_CardinalityType
<1>3. \A x \in S : S \ {x} \in SUBSET Line /\ Cardinality(S \ {x}) = Cardinality(S) - 1
  BY <1>1, FS_RemoveElement
<1>4. S # {} => Cardinality(S) > 0
  BY <1>1, <1>2, FS_EmptySet
<1>5. QED
  BY <1>1, <1>2, <1>3, <1>4

LEMMA MemoryOfEach ==
  \A S \in SUBSET Line :
    MemoryOf[S] = IF S = {} THEN 0
                  ELSE LET l == CHOOSE l \in S : TRUE IN Memory[l] + MemoryOf[S \ {l}]
<1> DEFINE Pick(S) == CHOOSE l \in S : TRUE
           Small(n) == {S \in SUBSET Line : Cardinality(S) <= n}
           Sum(f, S) == IF S = {} THEN 0 ELSE Memory[Pick(S)] + f[S \ {Pick(S)}]
           Sums(f, n) == f = [S \in Small(n) |-> Sum(f, S)]
<1>1. \A S \in SUBSET Line : S # {} => Pick(S) \in S
  OBVIOUS
<1> HIDE DEF Pick
<1>2. \A n \in Nat : \E f : Sums(f, n)
  <2> DEFINE Bad == {n \in Nat : ~ \E f : Sums(f, n)}
  <2> SUFFICES ASSUME Bad # {} PROVE FALSE
    OBVIOUS
  <2>1. PICK n \in Bad : \A k \in Bad : n <= k
    <3> HIDE DEF Sums
    <3> QED
      BY LeastOf
  <2>2. n # 0
    <3> SUFFICES ASSUME n = 0 PROVE FALSE
      OBVIOUS
    <3>1. \A S \in Small(0) : S = {}
      BY LinesFinite
    <3>2. Sums([S \in Small(0) |-> 0], 0)
      BY <3>1
    <3>3. QED
      BY <3>2
  <2>3. n \in Nat /\ n - 1 \in Nat /\ ~(n <= n - 1)
    <3> HIDE DEF Sums
    <3> QED
      BY <2>1, <2>2
  <2>4. PICK f : Sums(f, n - 1)
    <3> HIDE DEF Sums
    <3> QED
      BY <2>1, <2>3
  <2> DEFINE g == [S \in Small(n) |-> Sum(f, S)]
  <2>5. Small(n - 1) \subseteq Small(n)
    BY LinesFinite, <2>1, <2>3
  <2>6. \A S \in Small(n - 1) : g[S] = f[S]
    BY <2>4, <2>5
  <2>7. \A S \in Small(n) : S # {} => S \ {Pick(S)} \in Small(n - 1)
    BY <1>1, <2>1, LinesFinite
  <2>8. \A S \in Small(n) : Sum(f, S) = Sum(g, S)
    <3> HIDE DEF g, Small
    <3> QED
      BY <2>6, <2>7
  <2>9. Sums(g, n)
    <3> HIDE DEF Sum, Small
    <3> QED
      BY <2>8
  <2>10. QED
    BY <2>9
<1>3. Small(Cardinality(Line)) = SUBSET Line /\ Cardinality(Line) \in Nat
  BY FS_Subset, LinesFinite, SliceAssumption
<1>4. \E f : f = [S \in SUBSET Line |-> Sum(f, S)]
  <2> HIDE DEF Sum, Small
  <2>1. PICK f : Sums(f, Cardinality(Line))
    <3> HIDE DEF Sums
    <3> QED
      BY <1>2, <1>3
  <2>2. f = [S \in SUBSET Line |-> Sum(f, S)]
    BY <1>3, <2>1
  <2>3. QED
    BY <2>2
<1>5. MemoryOf = CHOOSE f : f = [S \in SUBSET Line |-> Sum(f, S)]
  BY DEF MemoryOf, Pick
<1>6. MemoryOf = [S \in SUBSET Line |-> Sum(MemoryOf, S)]
  <2> HIDE DEF Sum
  <2> QED
    BY <1>4, <1>5
<1>7. QED
  BY <1>6 DEF Pick

LEMMA MemoryOfRemoved ==
  \A S \in SUBSET Line : /\ MemoryOf[S] \in Nat
                         /\ \A x \in S : MemoryOf[S] = Memory[x] + MemoryOf[S \ {x}]
<1> DEFINE P(S) == /\ MemoryOf[S] \in Nat
                   /\ \A x \in S : MemoryOf[S] = Memory[x] + MemoryOf[S \ {x}]
           Bad == {n \in Nat : \E S \in SUBSET Line : Cardinality(S) = n /\ ~P(S)}
<1>1. SUFFICES ASSUME Bad # {} PROVE FALSE
  BY LinesFinite
<1>2. PICK n \in Bad : \A k \in Bad : n <= k
  <2> HIDE DEF P
  <2> QED
    BY <1>1, LeastOf
<1>3. PICK S \in SUBSET Line : Cardinality(S) = n /\ ~P(S)
  BY <1>2
<1>4. \A x \in S : /\ Memory[x] \in Nat
                   /\ S \ {x} \in SUBSET Line /\ P(S \ {x})
  <2> TAKE x \in S
  <2>1. S \ {x} \in SUBSET Line /\ Cardinality(S \ {x}) = n - 1 /\ n - 1 \in Nat
    BY <1>3, LinesFinite
  <2>2. n - 1 \notin Bad
    BY <1>2, <2>1
  <2>3. QED
    BY <2>1, <2>2, LimitsAssumption
<1>5. S # {}
  BY <1>3, MemoryOfEach
<1> DEFINE c == CHOOSE l \in S : TRUE
<1>6. c \in S /\ MemoryOf[S] = Memory[c] + MemoryOf[S \ {c}]
  BY <1>5, MemoryOfEach
<1> HIDE DEF c
<1>7. ASSUME NEW x \in S PROVE MemoryOf[S] = Memory[x] + MemoryOf[S \ {x}]
  <2>1. CASE x = c
    BY <1>6, <2>1
  <2>2. CASE x # c
    <3> DEFINE T == S \ {x, c}
    <3>1. x \in S \ {c} /\ c \in S \ {x} /\ (S \ {c}) \ {x} = T /\ (S \ {x}) \ {c} = T
      BY <1>6, <2>2
    <3>2. T \in SUBSET Line /\ MemoryOf[T] \in Nat
      <4>1. x \in S \ {c} /\ S \ {c} \in SUBSET Line
        BY <3>1
      <4>2. Cardinality(T) = n - 2 /\ n - 2 \in Nat /\ T \in SUBSET Line
        <5>1. Cardinality(S \ {c}) = n - 1
          BY <1>3, <1>6, LinesFinite
        <5>2. Cardinality((S \ {c}) \ {x}) = n - 2
          BY <4>1, <5>1, LinesFinite
        <5>3. T \in SUBSET Line
          OBVIOUS
        <5>4. QED
          BY <3>1, <5>2, <5>3, LinesFinite
      <4>3. ~(n <= n - 2) /\ n - 2 \notin Bad
        <5> HIDE DEF P
        <5>1. n \in Nat /\ ~(n <= n - 2)
          BY <1>2
        <5>2. QED
          BY <1>2, <5>1
      <4>4. QED
        BY <4>2, <4>3
    <3>3. MemoryOf[S \ {c}] = Memory[x] + MemoryOf[T]
      BY <1>4, <1>6, <3>1
    <3>4. MemoryOf[S \ {x}] = Memory[c] + MemoryOf[T]
      BY <1>4, <1>6, <3>1
    <3>5. Memory[x] \in Nat /\ Memory[c] \in Nat
      BY <1>4, <1>6
    <3> HIDE DEF T
    <3>6. QED
      BY <1>6, <3>2, <3>3, <3>4, <3>5
  <2>3. QED
    BY <2>1, <2>2
<1>8. MemoryOf[S] \in Nat
  <2>1. Memory[c] \in Nat /\ MemoryOf[S \ {c}] \in Nat
    BY <1>4, <1>6
  <2>2. QED
    BY <1>6, <2>1
<1>9. QED
  BY <1>3, <1>7, <1>8

LEMMA MemoryOfUnion ==
  \A S, T \in SUBSET Line : S \cap T = {} => MemoryOf[S \cup T] = MemoryOf[S] + MemoryOf[T]
<1> SUFFICES ASSUME NEW S \in SUBSET Line
             PROVE  \A T \in SUBSET Line : S \cap T = {} => MemoryOf[S \cup T] = MemoryOf[S] + MemoryOf[T]
  OBVIOUS
<1> DEFINE P(T) == S \cap T = {} => MemoryOf[S \cup T] = MemoryOf[S] + MemoryOf[T]
           Bad == {n \in Nat : \E T \in SUBSET Line : Cardinality(T) = n /\ ~P(T)}
<1>1. SUFFICES ASSUME Bad # {} PROVE FALSE
  BY LinesFinite
<1>2. PICK n \in Bad : \A k \in Bad : n <= k
  <2> HIDE DEF P
  <2> QED
    BY <1>1, LeastOf
<1>3. PICK T \in SUBSET Line : Cardinality(T) = n /\ ~P(T)
  BY <1>2
<1>4. MemoryOf[S] \in Nat /\ MemoryOf[{}] = 0
  BY MemoryOfRemoved, MemoryOfEach
<1>5. T # {}
  <2> SUFFICES ASSUME T = {} PROVE FALSE
    OBVIOUS
  <2>1. S \cup T = S
    OBVIOUS
  <2>2. QED
    BY <1>3, <1>4, <2>1
<1>6. PICK x \in T : TRUE
  BY <1>5
<1> DEFINE U == T \ {x}
<1>7. U \in SUBSET Line /\ Cardinality(U) = n - 1 /\ n - 1 \in Nat
  BY <1>3, LinesFinite
<1>8. n - 1 \notin Bad
  BY <1>2, <1>7
<1>9. S \cap U = {} /\ MemoryOf[S \cup U] = MemoryOf[S] + MemoryOf[U]
  BY <1>3, <1>7, <1>8
<1>10. S \cup T \in SUBSET Line /\ x \in S \cup T /\ (S \cup T) \ {x} = S \cup U
  BY <1>3
<1>11. MemoryOf[S \cup T] = Memory[x] + MemoryOf[S \cup U]
  BY <1>10, MemoryOfRemoved
<1>12. MemoryOf[T] = Memory[x] + MemoryOf[U] /\ MemoryOf[U] \in Nat /\ Memory[x] \in Nat
  BY <1>7, MemoryOfRemoved, LimitsAssumption
<1> HIDE DEF U
<1>13. QED
  BY <1>3, <1>4, <1>9, <1>11, <1>12

-----------------------------------------------------------------------------
(***************************************************************************)
(* schedule_lines.                                                         *)
(***************************************************************************)
LineState == {Unallocated, Deallocated} \cup LineDetails
Request == [block : InBlock, lines : Seq(Line)]
Available == [memory : Nat, gathers : Nat, lines : Nat]

LEMMA InputsAre == \A l \in Line : InputsOf(l) \in SUBSET InBlock
BY SliceAssumption DEF InputsOf

LEMMA GatheringAre ==
  ASSUME NEW S \in SUBSET Line
  PROVE  /\ Gathering(S) \in SUBSET Line
         /\ Cardinality(S) \in Nat /\ Cardinality(Gathering(S)) \in Nat
BY LinesFinite DEF Gathering

LEMMA OneMore ==
  ASSUME NEW s \in Seq(Line), IsInjective(s), Len(s) > 0
  PROVE  LET t == Range(Front(s))
         IN /\ Cardinality(Range(s)) = Cardinality(t) + 1
            /\ Cardinality(Gathering(Range(s))) <= Cardinality(Gathering(t)) + 1
            /\ Cardinality(t) \in Nat /\ Cardinality(Gathering(t)) \in Nat
<1> DEFINE n == Len(s)
           t == SubSeq(s, 1, n - 1)
           u == SubSeq(s, n, n)
<1>1. n \in Nat /\ n > 0 /\ n - 1 \in 0 .. n /\ n - 1 + 1 = n
  OBVIOUS
<1>2. /\ Range(s) = Range(t) \cup Range(u) /\ Range(t) \cap Range(u) = {}
      /\ u \in Seq(Line) /\ Len(u) = 1 /\ t \in Seq(Line)
  <2>1. Len(u) = n - (n - 1) /\ n - (n - 1) = 1
    BY <1>1, Splits
  <2>2. QED
    BY <1>1, <2>1, Splits
<1>3. Front(s) = t
  BY DEF Front
<1> HIDE DEF t, u
<1>4. Range(u) = {u[1]} /\ u[1] \in Line
  <2>1. DOMAIN u = {1}
    BY <1>2
  <2>2. 1 \in 1 .. Len(u)
    BY <1>2
  <2>3. u[1] \in Line
    BY <1>2, <2>2, ElementOfSeq
  <2>4. QED
    BY <2>1, <2>3 DEF Range
<1>5. Range(t) \in SUBSET Line
  BY <1>2 DEF Range
<1>6. Cardinality(Range(s)) = Cardinality(Range(t)) + 1
  BY <1>2, <1>4, <1>5, LinesFinite, FS_AddElement
<1>7. Gathering(Range(s)) = Gathering(Range(t)) \/ Gathering(Range(s)) = Gathering(Range(t)) \cup {u[1]}
  BY <1>2, <1>4 DEF Gathering
<1>8. Cardinality(Gathering(Range(s))) <= Cardinality(Gathering(Range(t))) + 1
  <2>1. Gathering(Range(t)) \in SUBSET Line /\ Cardinality(Gathering(Range(t))) \in Nat
    BY <1>5, GatheringAre
  <2>2. IsFiniteSet(Gathering(Range(t)))
    BY <2>1, LinesFinite
  <2>3. LET c == Cardinality(Gathering(Range(t)) \cup {u[1]})
        IN c = Cardinality(Gathering(Range(t))) \/ c = Cardinality(Gathering(Range(t))) + 1
    BY <2>2, FS_AddElement
  <2> DEFINE c == Cardinality(Gathering(Range(t)))
             d == Cardinality(Gathering(Range(s)))
  <2>4. d = c \/ d = c + 1
    BY <1>7, <2>3
  <2> HIDE DEF c, d
  <2>5. c \in Nat
    BY <2>1 DEF c
  <2>6. d <= c + 1
    BY <2>4, <2>5
  <2>7. QED
    BY <2>6 DEF c, d
<1>9. QED
  BY <1>3, <1>5, <1>6, <1>8, GatheringAre

\* A prefix that the resources suffice for
LEMMA AllocatableIs ==
  ASSUME NEW ls \in Seq(Line), IsInjective(ls), NEW available \in Available
  PROVE  LET as == Allocatable(available, ls)
         IN /\ as = SubSeq(ls, 1, Len(as)) /\ Len(as) \in 0 .. Len(ls)
            /\ as \in Seq(Line) /\ IsInjective(as) /\ Range(as) \in SUBSET Line
            /\ available.memory - MemoryOf[Range(as)] \in Nat
            /\ available.gathers - Cardinality(Gathering(Range(as))) \in Nat
            /\ available.lines - Cardinality(Range(as)) \in Nat
<1> DEFINE fits(n) == \A k \in 1 .. n : CanAllocate(available, SubSeq(ls, 1, k))
           F == {n \in 0 .. Len(ls) : fits(n)}
           m == Max(F)
           as == SubSeq(ls, 1, m)
           x == available.memory
           y == available.gathers
           z == available.lines
<1>1. as = Allocatable(available, ls)
  BY DEF Allocatable
<1>2. Len(ls) \in Nat /\ 0 \in 0 .. Len(ls) /\ 1 .. 0 = {}
  OBVIOUS
<1>3. F \in SUBSET (0 .. Len(ls)) /\ 0 \in F
  BY <1>2
<1>4. m \in F
  <2> HIDE DEF F
  <2> QED
    BY <1>2, <1>3, GreatestOf
<1>5. m \in 0 .. Len(ls) /\ fits(m)
  BY <1>4
<1> HIDE DEF m, F
<1>6. as \in Seq(Line) /\ Len(as) = m /\ IsInjective(as)
  BY <1>5, Splits
<1>7. Range(as) \in SUBSET Line
  BY <1>6 DEF Range
<1>8. x \in Nat /\ y \in Nat /\ z \in Nat
  BY DEF Available
<1> HIDE DEF x, y, z
<1>9. MemoryOf[Range(as)] \in Nat /\ Cardinality(Range(as)) \in Nat /\ Cardinality(Gathering(Range(as))) \in Nat
  BY <1>7, MemoryOfRemoved, GatheringAre
<1>10. CASE m = 0
  <2>1. as = <<>>
    BY <1>6, <1>10, EmptySeq
  <2> HIDE DEF as, x, y, z
  <2>2. Range(as) = {} /\ Gathering(Range(as)) = {}
    <3>1. Range(<<>>) = {}
      BY DEF Range
    <3>2. QED
      BY <2>1, <3>1 DEF Gathering
  <2>3. MemoryOf[{}] = 0 /\ Cardinality({}) = 0
    BY MemoryOfEach, FS_EmptySet
  <2>4. /\ x - MemoryOf[Range(as)] \in Nat
        /\ y - Cardinality(Gathering(Range(as))) \in Nat
        /\ z - Cardinality(Range(as)) \in Nat
    <3>1. x - 0 \in Nat /\ y - 0 \in Nat /\ z - 0 \in Nat
      BY <1>8
    <3>2. QED
      BY <2>2, <2>3, <3>1
  <2>5. QED
    BY <1>1, <1>5, <1>6, <1>7, <2>4 DEF as, x, y, z
<1>11. CASE m # 0
  <2>1. m \in 1 .. m /\ Len(as) > 0
    BY <1>5, <1>6, <1>11
  <2>2. CanAllocate(available, as)
    BY <1>5, <2>1
  <2> HIDE DEF as, x, y, z
  <2>3. /\ z > Cardinality(Range(Front(as)))
        /\ y > Cardinality(Gathering(Range(Front(as))))
        /\ x >= MemoryOf[Range(as)]
    BY <2>2 DEF CanAllocate, x, y, z
  <2>4. /\ Cardinality(Range(as)) = Cardinality(Range(Front(as))) + 1
        /\ Cardinality(Gathering(Range(as))) <= Cardinality(Gathering(Range(Front(as)))) + 1
        /\ Cardinality(Range(Front(as))) \in Nat /\ Cardinality(Gathering(Range(Front(as)))) \in Nat
    BY <1>6, <2>1, OneMore
  <2>5. /\ x - MemoryOf[Range(as)] \in Nat
        /\ y - Cardinality(Gathering(Range(as))) \in Nat
        /\ z - Cardinality(Range(as)) \in Nat
    <3> DEFINE am == MemoryOf[Range(as)]
               ag == Cardinality(Gathering(Range(as)))
               al == Cardinality(Range(as))
               fg == Cardinality(Gathering(Range(Front(as))))
               fl == Cardinality(Range(Front(as)))
    <3>1. /\ am \in Nat /\ ag \in Nat /\ al \in Nat /\ fg \in Nat /\ fl \in Nat
          /\ x >= am /\ y > fg /\ z > fl /\ ag <= fg + 1 /\ al = fl + 1
      BY <1>9, <2>3, <2>4
    <3> HIDE DEF am, ag, al, fg, fl
    <3>2. x - am \in Nat /\ y - ag \in Nat /\ z - al \in Nat
      BY <1>8, <3>1
    <3>3. QED
      BY <3>2 DEF am, ag, al
  <2>6. QED
    BY <1>1, <1>5, <1>6, <1>7, <2>5 DEF as, x, y, z
<1>12. QED
  BY <1>10, <1>11

\* Some request of qs asks for b on behalf of l
Asks(qs, l, b) == \E q \in qs : q.block = b /\ l \in Range(q.lines)

\* The lines that wait for q are lines of r that read its block, once allocated
Serves(q, r, lines) ==
  /\ Len(q.lines) > 0
  /\ IsInjective(q.lines)
  /\ \A l \in Range(q.lines) : Home(l) = r /\ q.block \in InputsOf(l) /\ lines[l] # Unallocated

RequestsOK(r, qs, lines) ==
  /\ \A q \in qs : Serves(q, r, lines)
  /\ \A p, q \in qs : p.block = q.block /\ (merge_block_requests \/ Range(p.lines) \cap Range(q.lines) # {}) => p = q

ScheduleOK(us, lines) ==
  /\ \A r \in Rank : IsInjective(us[r])
  /\ \A r \in Rank : \A l \in Range(us[r]) : Home(l) = r
  /\ \A l \in Line : lines[l] = Unallocated <=> l \in Range(us[Home(l)])

\* What schedule_lines does when it allocates the lines A
Scheduled(r, available, lines, pending, A) ==
  /\ \A l \in A : Home(l) = r /\ lines[l] = Unallocated
  /\ unscheduled' \in [Rank -> Seq(Line)]
  /\ \A s \in Rank : IsInjective(unscheduled'[s])
  /\ \A s \in Rank : Range(unscheduled'[s]) = IF s = r THEN Range(unscheduled[s]) \ A ELSE Range(unscheduled[s])
  /\ free' = [free EXCEPT ![r] = [memory |-> available.memory - MemoryOf[A],
                                  gathers |-> available.gathers - Cardinality(Gathering(A)),
                                  lines |-> available.lines - Cardinality(A)]]
  /\ available.memory - MemoryOf[A] \in Nat
  /\ available.gathers - Cardinality(Gathering(A)) \in Nat
  /\ available.lines - Cardinality(A) \in Nat
  /\ line' = [l \in Line |-> IF l \in A THEN Allocated(l) ELSE lines[l]]
  /\ line' \in [Line -> LineState]
  /\ block_requests' \in [Rank -> SUBSET Request]
  /\ \A s \in Rank : s # r => block_requests'[s] = block_requests[s]
  /\ RequestsOK(r, block_requests'[r], line')
  /\ \A l, b : Asks(block_requests'[r], l, b) <=> Asks(pending, l, b) \/ (l \in A /\ b \in InputsOf(l))
  /\ \A id \in requests' : id \in requests \/ (id \in A \X InBlock /\ \E q \in block_requests'[r] : Id(q) = id)
  /\ requests \subseteq requests'
  /\ \A q \in pending : \E p \in block_requests'[r] : Id(p) = Id(q)
  /\ microjobs' = [l \in Line |-> IF l \in A /\ InputsOf(l) = {} THEN Microlines[l] ELSE microjobs[l]]

LEMMA AllocatedType ==
  \A l \in Line : Allocated(l) \in LineDetails /\ Allocated(l) # Unallocated /\ Allocated(l).state = "allocated"
<1> SUFFICES ASSUME NEW l \in Line PROVE Allocated(l) \in LineDetails /\ Allocated(l) # Unallocated /\ Allocated(l).state = "allocated"
  OBVIOUS
<1>1. IsFiniteSet(InputsOf(l)) /\ IsFiniteSet(Outputs[l])
  BY InputsAre, FS_Subset, SliceAssumption
<1>2. Cardinality(InputsOf(l)) \in Nat /\ Cardinality(Outputs[l]) \in Nat /\ Microlines[l] \in Nat
  BY <1>1, FS_CardinalityType, SliceAssumption
<1>3. Unallocated.state = "unallocated" /\ Allocated(l).state = "allocated"
  BY DEF Unallocated, Allocated
<1>4. QED
  BY <1>2, <1>3 DEF Allocated, LineDetails

LEMMA RequestFields ==
  /\ \A q \in Request : q.block \in InBlock /\ q.lines \in Seq(Line) /\ Range(q.lines) \subseteq Line
  /\ \A b \in InBlock : \A s \in Seq(Line) : [block |-> b, lines |-> s] \in Request
BY DEF Request, Range

LEMMA JoinedFields ==
  ASSUME NEW q \in Request, NEW w \in Seq(Line)
  PROVE  LET p == [q EXCEPT !.lines = @ \o w]
         IN p = [block |-> q.block, lines |-> q.lines \o w]
<1> DEFINE v == q.lines \o w
<1>1. q = [block |-> q.block, lines |-> q.lines]
  BY DEF Request
<1> HIDE DEF v
<1>2. [q EXCEPT !.lines = v] = [block |-> q.block, lines |-> v]
  BY <1>1
<1>3. QED
  BY <1>2 DEF v

LEMMA LonelyLine ==
  ASSUME NEW l \in Line
  PROVE  <<l>> \in Seq(Line) /\ Len(<<l>>) = 1 /\ IsInjective(<<l>>) /\ Range(<<l>>) = {l} /\ Head(<<l>>) = l
<1>1. <<l>> \in Seq(Line) /\ Len(<<l>>) = 1 /\ DOMAIN <<l>> = {1} /\ <<l>>[1] = l /\ Head(<<l>>) = l
  OBVIOUS
<1>2. QED
  BY <1>1 DEF IsInjective, Range

\* Whoever waits first is one of those that wait
LEMMA FirstWaits ==
  ASSUME NEW s \in Seq(Line), Len(s) > 0
  PROVE  Head(s) \in Range(s) /\ Head(s) \in Line /\ Head(s) = s[1] /\ 1 \in DOMAIN s
<1>1. 1 \in 1 .. Len(s) /\ DOMAIN s = 1 .. Len(s)
  OBVIOUS
<1>2. Head(s) = s[1] /\ s[1] \in Line
  BY <1>1, ElementOfSeq
<1>3. QED
  BY <1>1, <1>2, RangeIs

LEMMA SomeWait ==
  ASSUME NEW s \in Seq(Line), NEW l \in Range(s)
  PROVE  Len(s) > 0
BY DEF Range

\* The requests that schedule_lines leaves: those that joined, and new ones
HasJoined(p, pending, as) == \E q \in pending : p = [block |-> q.block, lines |-> q.lines \o Waiters(as, q.block)]
IsAlone(p, as) == \E l \in Range(as) : \E b \in InputsOf(l) : p = [block |-> b, lines |-> <<l>>]

LEMMA MergedRequests ==
  ASSUME NEW pending \in SUBSET Request, NEW as \in Seq(Line), IsInjective(as), NEW p, merge_block_requests
  PROVE  /\ p \in Joined(pending, as) <=> HasJoined(p, pending, as)
         /\ p \in NewRequests(pending, as)
              <=> \E b \in InBlock : /\ p = [block |-> b, lines |-> Waiters(as, b)]
                                     /\ \E l \in Range(as) : b \in InputsOf(l)
                                     /\ \A q \in pending : q.block # b
<1>1. \A l \in Range(as) : l \in Line /\ InputsOf(l) \in SUBSET InBlock
  BY InputsAre, RangeIn
<1>2. p \in Joined(pending, as) <=> HasJoined(p, pending, as)
  <2>1. \A q \in pending : [q EXCEPT !.lines = @ \o Waiters(as, q.block)]
                             = [block |-> q.block, lines |-> q.lines \o Waiters(as, q.block)]
    BY WaitersAre, JoinedFields
  <2>2. Joined(pending, as) = {[q EXCEPT !.lines = @ \o Waiters(as, q.block)] : q \in pending}
    BY DEF Joined
  <2>3. QED
    BY <2>1, <2>2 DEF HasJoined
<1>3. p \in NewRequests(pending, as)
        <=> \E b \in InBlock : /\ p = [block |-> b, lines |-> Waiters(as, b)]
                               /\ \E l \in Range(as) : b \in InputsOf(l)
                               /\ \A q \in pending : q.block # b
  <2> DEFINE B == {b \in UNION {InputsOf(l) : l \in Range(as)} : \A q \in pending : q.block # b}
  <2>1. NewRequests(pending, as) = {[block |-> b, lines |-> Waiters(as, b)] : b \in B}
    BY DEF NewRequests
  <2>2. \A b : b \in B <=> b \in InBlock /\ (\E l \in Range(as) : b \in InputsOf(l)) /\ \A q \in pending : q.block # b
    BY <1>1
  <2> HIDE DEF B
  <2>3. QED
    BY <2>1, <2>2
<1>4. QED
  BY <1>2, <1>3

LEMMA SeparateRequests ==
  ASSUME NEW pending \in SUBSET Request, NEW as \in Seq(Line), NEW p, ~merge_block_requests
  PROVE  /\ p \in Joined(pending, as) <=> p \in pending
         /\ p \in NewRequests(pending, as)
              <=> IsAlone(p, as)
<1> DEFINE One(l) == {[block |-> b, lines |-> <<l>>] : b \in InputsOf(l)}
<1>1. NewRequests(pending, as) = UNION {One(l) : l \in Range(as)}
  BY DEF NewRequests
<1>2. p \in UNION {One(l) : l \in Range(as)} <=> \E l \in Range(as) : p \in One(l)
  <2> HIDE DEF One
  <2> QED
    OBVIOUS
<1>3. \A l : p \in One(l) <=> \E b \in InputsOf(l) : p = [block |-> b, lines |-> <<l>>]
  OBVIOUS
<1>4. p \in Joined(pending, as) <=> p \in pending
  BY DEF Joined
<1> HIDE DEF One
<1>5. QED
  BY <1>1, <1>2, <1>3, <1>4 DEF IsAlone

LEMMA Schedules ==
  ASSUME NEW r \in Rank, NEW available \in Available,
         NEW lines \in [Line -> LineState], NEW pending \in SUBSET Request,
         schedule_lines(r, available, lines, pending),
         unscheduled \in [Rank -> Seq(Line)], block_requests \in [Rank -> SUBSET Request],
         merge_block_requests \in BOOLEAN,
         ScheduleOK(unscheduled, lines), RequestsOK(r, pending, lines)
  PROVE  \E A \in SUBSET Line : Scheduled(r, available, lines, pending, A)
<1> DEFINE us == unscheduled[r]
           as == Allocatable(available, us)
           A == Range(as)
           rest == SubSeq(us, Len(as) + 1, Len(us))
           new == NewRequests(pending, as)
           old == Joined(pending, as)
           qs == block_requests'[r]
<1>1. us \in Seq(Line) /\ IsInjective(us) /\ \A l \in Range(us) : Home(l) = r /\ l \in Line /\ lines[l] = Unallocated
  BY RangeIn DEF ScheduleOK
<1>2. /\ as = SubSeq(us, 1, Len(as)) /\ Len(as) \in 0 .. Len(us)
      /\ as \in Seq(Line) /\ IsInjective(as) /\ A \in SUBSET Line
      /\ available.memory - MemoryOf[A] \in Nat
      /\ available.gathers - Cardinality(Gathering(A)) \in Nat
      /\ available.lines - Cardinality(A) \in Nat
  <2> HIDE DEF us
  <2> QED
    BY <1>1, AllocatableIs
<1>3. Len(as) = Cardinality(A)
  BY <1>2, LengthIs
<1>4. /\ unscheduled' = [unscheduled EXCEPT ![r] = rest]
      /\ free' = [free EXCEPT ![r] = [memory |-> available.memory - MemoryOf[A],
                                      gathers |-> available.gathers - Cardinality(Gathering(A)),
                                      lines |-> available.lines - Cardinality(A)]]
      /\ line' = [l \in Line |-> IF l \in A THEN Allocated(l) ELSE lines[l]]
      /\ block_requests' = [block_requests EXCEPT ![r] = old \cup new]
      /\ requests' = requests \cup {Id(q) : q \in new}
      /\ microjobs' = [l \in Line |-> IF l \in Inputless(as) THEN Microlines[l] ELSE microjobs[l]]
  BY <1>3 DEF schedule_lines
<1> HIDE DEF as, old, new
<1>5. /\ rest \in Seq(Line) /\ IsInjective(rest)
      /\ Range(us) = A \cup Range(rest) /\ A \cap Range(rest) = {}
  <2> HIDE DEF us
  <2> DEFINE n == Len(as)
             t == SubSeq(us, 1, n)
  <2>1. n \in 0 .. Len(us) /\ as = t
    BY <1>2
  <2>2. /\ rest \in Seq(Line) /\ IsInjective(rest)
        /\ Range(us) = Range(t) \cup Range(rest)
        /\ Range(t) \cap Range(rest) = {}
    BY <1>1, <2>1, Splits
  <2> HIDE DEF t, n, rest
  <2>3. QED
    BY <2>1, <2>2
<1> HIDE DEF rest
<1>6. \A l \in A : Home(l) = r /\ lines[l] = Unallocated /\ l \in Line
  BY <1>1, <1>5
<1>7. /\ unscheduled' \in [Rank -> Seq(Line)]
      /\ \A s \in Rank : IsInjective(unscheduled'[s])
      /\ \A s \in Rank : Range(unscheduled'[s]) = IF s = r THEN Range(unscheduled[s]) \ A ELSE Range(unscheduled[s])
  <2>1. unscheduled' \in [Rank -> Seq(Line)] /\ \A s \in Rank : unscheduled'[s] = IF s = r THEN rest ELSE unscheduled[s]
    BY <1>4, <1>5
  <2>2. Range(rest) = Range(unscheduled[r]) \ A
    BY <1>5
  <2>3. \A s \in Rank : IsInjective(unscheduled[s])
    BY DEF ScheduleOK
  <2>4. QED
    BY <1>5, <2>1, <2>2, <2>3
<1>8. line' \in [Line -> LineState] /\ \A l \in Line : line'[l] = IF l \in A THEN Allocated(l) ELSE lines[l]
  BY <1>4, AllocatedType DEF LineState
<1>9. \A l \in Line : lines[l] # Unallocated \/ l \in A => line'[l] # Unallocated
  BY <1>8, AllocatedType
<1>10. qs = old \cup new
  BY <1>4
<1>11. \A b : /\ Waiters(as, b) \in Seq(Line) /\ IsInjective(Waiters(as, b))
              /\ \A l : l \in Range(Waiters(as, b)) <=> l \in A /\ b \in InputsOf(l)
  <2> TAKE b
  <2>1. /\ Waiters(as, b) \in Seq(Line) /\ IsInjective(Waiters(as, b))
        /\ \A l \in Line : l \in Range(Waiters(as, b)) <=> l \in Range(as) /\ b \in InputsOf(l)
    BY <1>2, WaitersAre
  <2>2. Range(Waiters(as, b)) \in SUBSET Line
    BY <2>1, RangeIn
  <2>3. QED
    BY <1>2, <2>1, <2>2
<1>12. \A q \in pending : /\ q.block \in InBlock /\ q.lines \in Seq(Line) /\ Len(q.lines) > 0 /\ IsInjective(q.lines)
                          /\ \A l \in Range(q.lines) : /\ l \in Line /\ Home(l) = r /\ q.block \in InputsOf(l)
                                                       /\ lines[l] # Unallocated /\ l \notin A
  BY <1>6, RequestFields DEF RequestsOK, Serves
\* A request that was pending, with the lines that joined it
<1>13. ASSUME merge_block_requests, NEW q \in pending
       PROVE  LET p == [block |-> q.block, lines |-> q.lines \o Waiters(as, q.block)]
              IN /\ p \in Request /\ Serves(p, r, line') /\ Id(p) = Id(q)
                 /\ \A l : l \in Range(p.lines) <=> l \in Range(q.lines) \/ (l \in A /\ q.block \in InputsOf(l))
  <2> DEFINE w == Waiters(as, q.block)
             s == q.lines \o w
             p == [block |-> q.block, lines |-> s]
  <2>1. p.block = q.block /\ p.lines = s
    OBVIOUS
  <2>2. /\ q.lines \in Seq(Line) /\ w \in Seq(Line) /\ IsInjective(q.lines) /\ IsInjective(w)
        /\ Range(q.lines) \cap Range(w) = {} /\ Len(q.lines) > 0
    BY <1>11, <1>12
  <2>3. /\ s \in Seq(Line) /\ Range(s) = Range(q.lines) \cup Range(w) /\ IsInjective(s)
        /\ Len(s) > 0 /\ Head(s) = Head(q.lines)
    <3> HIDE DEF w
    <3> QED
      BY <2>2, Joins
  <2>4. \A l : l \in Range(s) <=> l \in Range(q.lines) \/ (l \in A /\ q.block \in InputsOf(l))
    BY <1>11, <2>3
  <2> HIDE DEF s
  <2>5. p \in Request
    BY <1>12, <2>3, RequestFields
  <2>6. Id(p) = Id(q)
    BY <2>1, <2>3 DEF Id
  <2>7. \A l \in Range(s) : Home(l) = r /\ q.block \in InputsOf(l) /\ line'[l] # Unallocated
    BY <1>6, <1>9, <1>12, <2>4
  <2>8. Serves(p, r, line')
    BY <2>1, <2>3, <2>7 DEF Serves
  <2>9. QED
    BY <2>1, <2>4, <2>5, <2>6, <2>8 DEF s
<1>14. ASSUME merge_block_requests, NEW b \in InBlock, NEW k \in A, b \in InputsOf(k)
       PROVE  LET p == [block |-> b, lines |-> Waiters(as, b)]
              IN /\ p \in Request /\ Serves(p, r, line') /\ Id(p) \in A \X InBlock
                 /\ \A l : l \in Range(p.lines) <=> l \in A /\ b \in InputsOf(l)
  <2> DEFINE s == Waiters(as, b)
             p == [block |-> b, lines |-> s]
  <2>1. p.block = b /\ p.lines = s
    OBVIOUS
  <2>2. s \in Seq(Line) /\ IsInjective(s) /\ \A l : l \in Range(s) <=> l \in A /\ b \in InputsOf(l)
    BY <1>11
  <2> HIDE DEF s
  <2>3. k \in Range(s) /\ Len(s) > 0
    BY <1>14, <2>2, SomeWait
  <2>4. Head(s) \in A
    BY <2>2, <2>3, FirstWaits
  <2>5. p \in Request
    BY <2>2, RequestFields
  <2>6. \A l \in Range(s) : Home(l) = r /\ b \in InputsOf(l) /\ line'[l] # Unallocated
    BY <1>6, <1>9, <2>2
  <2>7. Serves(p, r, line')
    BY <2>1, <2>2, <2>3, <2>6 DEF Serves
  <2>8. Id(p) \in A \X InBlock
    BY <2>1, <2>4 DEF Id
  <2>9. QED
    BY <2>1, <2>2, <2>5, <2>7, <2>8 DEF s
<1>15. ASSUME NEW k \in A, NEW b \in InputsOf(k)
       PROVE  LET p == [block |-> b, lines |-> <<k>>]
              IN /\ p \in Request /\ Serves(p, r, line') /\ Id(p) \in A \X InBlock
                 /\ \A l : l \in Range(p.lines) <=> l = k
  <2> DEFINE s == <<k>>
             p == [block |-> b, lines |-> s]
  <2>1. p.block = b /\ p.lines = s
    OBVIOUS
  <2>2. k \in Line /\ b \in InBlock /\ Home(k) = r /\ line'[k] # Unallocated
    BY <1>6, <1>9, InputsAre
  <2>3. s \in Seq(Line) /\ Len(s) = 1 /\ IsInjective(s) /\ Range(s) = {k} /\ Head(s) = k
    BY <2>2, LonelyLine
  <2> HIDE DEF s
  <2>4. p \in Request
    BY <2>2, <2>3, RequestFields
  <2>5. \A l \in Range(s) : Home(l) = r /\ b \in InputsOf(l) /\ line'[l] # Unallocated
    BY <2>2, <2>3
  <2>6. Serves(p, r, line')
    <3>1. Len(s) > 0
      BY <2>3
    <3>2. QED
      BY <2>1, <2>3, <2>5, <3>1 DEF Serves
  <2>7. Id(p) \in A \X InBlock
    BY <2>1, <2>2, <2>3 DEF Id
  <2>8. QED
    BY <2>1, <2>3, <2>4, <2>6, <2>7 DEF s
<1>16. \A p : p \in qs <=> p \in old \/ p \in new
  BY <1>10
<1>K. as \in Seq(Line) /\ IsInjective(as)
  BY <1>2
<1>J. \A p : merge_block_requests =>
        (p \in old <=> \E q \in pending : p = [block |-> q.block, lines |-> q.lines \o Waiters(as, q.block)])
  <2> SUFFICES ASSUME NEW p, merge_block_requests
               PROVE  p \in old <=> \E q \in pending : p = [block |-> q.block, lines |-> q.lines \o Waiters(as, q.block)]
    OBVIOUS
  <2>1. p \in Joined(pending, as) <=> HasJoined(p, pending, as)
    BY <1>K, MergedRequests
  <2>2. QED
    BY <2>1 DEF old, HasJoined
<1>N. \A p : merge_block_requests =>
        (p \in new <=> \E b \in InBlock : /\ p = [block |-> b, lines |-> Waiters(as, b)]
                                          /\ \E l \in A : b \in InputsOf(l)
                                          /\ \A q \in pending : q.block # b)
  <2> SUFFICES ASSUME NEW p, merge_block_requests
               PROVE  p \in new <=> \E b \in InBlock : /\ p = [block |-> b, lines |-> Waiters(as, b)]
                                                      /\ \E l \in A : b \in InputsOf(l)
                                                      /\ \A q \in pending : q.block # b
    OBVIOUS
  <2>1. p \in NewRequests(pending, as)
          <=> \E b \in InBlock : /\ p = [block |-> b, lines |-> Waiters(as, b)]
                                 /\ \E l \in Range(as) : b \in InputsOf(l)
                                 /\ \A q \in pending : q.block # b
    BY <1>K, MergedRequests
  <2>2. QED
    BY <2>1 DEF new
<1>L. \A p : ~merge_block_requests => (p \in old <=> p \in pending)
  <2> TAKE p
  <2> QED
    BY <1>K, SeparateRequests DEF old
<1>M. \A p : ~merge_block_requests =>
        (p \in new <=> \E l \in A : \E b \in InputsOf(l) : p = [block |-> b, lines |-> <<l>>])
  <2> SUFFICES ASSUME NEW p, ~merge_block_requests
               PROVE  p \in new <=> \E l \in A : \E b \in InputsOf(l) : p = [block |-> b, lines |-> <<l>>]
    OBVIOUS
  <2>1. p \in NewRequests(pending, as) <=> IsAlone(p, as)
    BY <1>K, SeparateRequests
  <2>2. QED
    BY <2>1 DEF new, IsAlone
\* What a request of qs says of its block and lines
<1>17. ASSUME merge_block_requests, NEW p \in qs
       PROVE  \/ \E q \in pending : /\ p.block = q.block /\ Id(p) = Id(q)
                                    /\ p = [block |-> q.block, lines |-> q.lines \o Waiters(as, q.block)]
                                    /\ \A l : l \in Range(p.lines) <=> l \in Range(q.lines) \/ (l \in A /\ q.block \in InputsOf(l))
              \/ /\ p.block \in InBlock /\ p = [block |-> p.block, lines |-> Waiters(as, p.block)]
                 /\ \A q \in pending : q.block # p.block
                 /\ Id(p) \in A \X InBlock
                 /\ \A l : l \in Range(p.lines) <=> l \in A /\ p.block \in InputsOf(l)
  <2>1. CASE p \in old
    <3>1. PICK q \in pending : p = [block |-> q.block, lines |-> q.lines \o Waiters(as, q.block)]
      BY <1>17, <2>1, <1>J
    <3>2. p.block = q.block
      BY <3>1
    <3>3. QED
      BY <1>13, <1>17, <3>1, <3>2
  <2>2. CASE p \in new
    <3>1. PICK b \in InBlock : /\ p = [block |-> b, lines |-> Waiters(as, b)]
                               /\ \E l \in A : b \in InputsOf(l)
                               /\ \A q \in pending : q.block # b
      BY <1>17, <2>2, <1>N
    <3>2. p.block = b
      BY <3>1
    <3>3. QED
      BY <1>14, <1>17, <3>1, <3>2
  <2>3. QED
    BY <1>16, <1>17, <2>1, <2>2
<1>18. ASSUME ~merge_block_requests, NEW p \in qs
       PROVE  \/ p \in pending
              \/ /\ p = [block |-> p.block, lines |-> <<p.lines[1]>>] /\ p.lines[1] \in A
                 /\ p.block \in InputsOf(p.lines[1])
                 /\ Id(p) \in A \X InBlock
                 /\ \A l : l \in Range(p.lines) <=> l = p.lines[1]
  <2>1. CASE p \in old
    BY <1>18, <2>1, <1>L
  <2>2. CASE p \in new
    <3> PICK k \in A : \E b \in InputsOf(k) : p = [block |-> b, lines |-> <<k>>]
      BY <1>18, <2>2, <1>M
    <3>1. PICK b \in InputsOf(k) : p = [block |-> b, lines |-> <<k>>]
      OBVIOUS
    <3>2. p.block = b /\ p.lines = <<k>> /\ p.lines[1] = k
      BY <3>1
    <3>3. QED
      BY <1>15, <3>1, <3>2
  <2>3. QED
    BY <1>16, <1>18, <2>1, <2>2
<1>19. \A p \in qs : p \in Request /\ Serves(p, r, line')
  <2> TAKE p \in qs
  <2>1. CASE merge_block_requests
    <3>1. CASE p \in old
      <4>1. PICK q \in pending : p = [block |-> q.block, lines |-> q.lines \o Waiters(as, q.block)]
        BY <2>1, <3>1, <1>J
      <4>2. QED
        BY <1>13, <2>1, <4>1
    <3>2. CASE p \in new
      <4>1. PICK b \in InBlock : p = [block |-> b, lines |-> Waiters(as, b)] /\ \E l \in A : b \in InputsOf(l)
        BY <2>1, <3>2, <1>N
      <4>2. QED
        BY <1>14, <2>1, <4>1
    <3>3. QED
      BY <1>16, <3>1, <3>2
  <2>2. CASE ~merge_block_requests
    <3>1. CASE p \in pending
      <4>1. Serves(p, r, lines)
        BY <3>1 DEF RequestsOK
      <4>2. \A l \in Range(p.lines) : l \in Line /\ line'[l] # Unallocated
        BY <1>9, <1>12, <3>1
      <4>3. QED
        BY <3>1, <4>1, <4>2 DEF Serves
    <3>2. CASE p \in new
      <4> PICK k \in A : \E b \in InputsOf(k) : p = [block |-> b, lines |-> <<k>>]
        BY <2>2, <3>2, <1>M
      <4>1. PICK b \in InputsOf(k) : p = [block |-> b, lines |-> <<k>>]
        OBVIOUS
      <4>2. QED
        BY <1>15, <4>1
    <3>3. QED
      BY <1>16, <1>18, <2>2, <3>1, <3>2, <1>L
  <2>3. QED
    BY <2>1, <2>2
<1>20. block_requests' \in [Rank -> SUBSET Request] /\ \A s \in Rank : s # r => block_requests'[s] = block_requests[s]
  <2>1. old \cup new \in SUBSET Request
    BY <1>10, <1>19
  <2>2. QED
    BY <1>4, <2>1
<1>21. RequestsOK(r, qs, line')
  <2> SUFFICES ASSUME NEW p \in qs, NEW q \in qs, p.block = q.block,
                      merge_block_requests \/ Range(p.lines) \cap Range(q.lines) # {}
               PROVE  p = q
    BY <1>19 DEF RequestsOK
  <2>1. CASE merge_block_requests
    <3>1. CASE \E u \in pending : u.block = p.block
      <4>1. PICK u \in pending : p.block = u.block /\ p = [block |-> u.block, lines |-> u.lines \o Waiters(as, u.block)]
        BY <1>17, <2>1, <3>1
      <4> ~ \A w \in pending : w.block # q.block
        BY <3>1
      <4>2. PICK v \in pending : q.block = v.block /\ q = [block |-> v.block, lines |-> v.lines \o Waiters(as, v.block)]
        BY <1>17, <2>1, <3>1
      <4>3. u = v
        BY <2>1, <4>1, <4>2 DEF RequestsOK
      <4>4. QED
        BY <4>1, <4>2, <4>3
    <3>2. CASE ~ \E u \in pending : u.block = p.block
      <4>1. p = [block |-> p.block, lines |-> Waiters(as, p.block)]
        BY <1>17, <2>1, <3>2
      <4> ~ \E u \in pending : q.block = u.block
        BY <3>2
      <4>2. q = [block |-> q.block, lines |-> Waiters(as, q.block)]
        BY <1>17, <2>1, <3>2
      <4>3. QED
        BY <4>1, <4>2
    <3>3. QED
      BY <3>1, <3>2
  <2>2. CASE ~merge_block_requests
    <3>1. PICK k : k \in Range(p.lines) /\ k \in Range(q.lines)
      BY <2>2
    <3>2. CASE p \in pending /\ q \in pending
      <4>1. Range(p.lines) \cap Range(q.lines) # {}
        BY <3>1
      <4>2. QED
        BY <3>2, <4>1 DEF RequestsOK
    <3>3. CASE p \in pending /\ q \notin pending
      <4>1. q.lines[1] \in A /\ k = q.lines[1]
        BY <1>18, <2>2, <3>1, <3>3
      <4>2. k \notin A
        BY <1>12, <3>1, <3>3
      <4>3. QED
        BY <4>1, <4>2
    <3>4. CASE p \notin pending /\ q \in pending
      <4>1. p.lines[1] \in A /\ k = p.lines[1]
        BY <1>18, <2>2, <3>1, <3>4
      <4>2. k \notin A
        BY <1>12, <3>1, <3>4
      <4>3. QED
        BY <4>1, <4>2
    <3>5. CASE p \notin pending /\ q \notin pending
      <4>1. p.lines[1] = k /\ q.lines[1] = k
        BY <1>18, <2>2, <3>1, <3>5
      <4>2. p = [block |-> p.block, lines |-> <<k>>] /\ q = [block |-> q.block, lines |-> <<k>>]
        BY <1>18, <2>2, <3>5, <4>1
      <4>3. QED
        BY <4>2
    <3>6. QED
      BY <3>2, <3>3, <3>4, <3>5
  <2>3. QED
    BY <2>1, <2>2
<1>22. ASSUME NEW l, NEW b PROVE Asks(qs, l, b) <=> Asks(pending, l, b) \/ (l \in A /\ b \in InputsOf(l))
  <2>1. CASE merge_block_requests
    <3>1. ASSUME Asks(qs, l, b) PROVE Asks(pending, l, b) \/ (l \in A /\ b \in InputsOf(l))
      <4>1. PICK p \in qs : p.block = b /\ l \in Range(p.lines)
        BY <3>1 DEF Asks
      <4>2. QED
        BY <1>17, <2>1, <4>1 DEF Asks
    <3>2. ASSUME Asks(pending, l, b) PROVE Asks(qs, l, b)
      <4>1. PICK q \in pending : q.block = b /\ l \in Range(q.lines)
        BY <3>2 DEF Asks
      <4> DEFINE p == [block |-> q.block, lines |-> q.lines \o Waiters(as, q.block)]
      <4>2. p \in qs
        BY <1>16, <2>1, <1>J
      <4>3. p.block = b /\ l \in Range(p.lines)
        BY <1>13, <2>1, <4>1
      <4> HIDE DEF p
      <4>4. QED
        BY <4>2, <4>3 DEF Asks
    <3>3. ASSUME l \in A, b \in InputsOf(l) PROVE Asks(qs, l, b)
      <4>1. CASE \E q \in pending : q.block = b
        <5>1. PICK q \in pending : q.block = b
          BY <4>1
        <5> DEFINE p == [block |-> q.block, lines |-> q.lines \o Waiters(as, q.block)]
        <5>2. p \in qs
          BY <1>16, <2>1, <1>J
        <5>3. p.block = b /\ l \in Range(p.lines)
          BY <1>13, <2>1, <3>3, <5>1
        <5> HIDE DEF p
        <5>4. QED
          BY <5>2, <5>3 DEF Asks
      <4>2. CASE ~ \E q \in pending : q.block = b
        <5> DEFINE p == [block |-> b, lines |-> Waiters(as, b)]
        <5>1. b \in InBlock
          BY <1>6, <3>3, InputsAre
        <5>2. p \in new
          BY <2>1, <3>3, <4>2, <5>1, <1>N
        <5>3. p.block = b /\ l \in Range(p.lines)
          BY <1>14, <2>1, <3>3, <5>1
        <5> HIDE DEF p
        <5>4. QED
          BY <1>16, <5>2, <5>3 DEF Asks
      <4>3. QED
        BY <4>1, <4>2
    <3>4. QED
      BY <3>1, <3>2, <3>3
  <2>2. CASE ~merge_block_requests
    <3>1. ASSUME Asks(qs, l, b) PROVE Asks(pending, l, b) \/ (l \in A /\ b \in InputsOf(l))
      <4>1. PICK p \in qs : p.block = b /\ l \in Range(p.lines)
        BY <3>1 DEF Asks
      <4>2. QED
        BY <1>18, <2>2, <4>1 DEF Asks
    <3>2. ASSUME Asks(pending, l, b) PROVE Asks(qs, l, b)
      <4>1. \A p \in pending : p \in qs
        BY <1>16, <2>2, <1>L
      <4>2. QED
        BY <3>2, <4>1 DEF Asks
    <3>3. ASSUME l \in A, b \in InputsOf(l) PROVE Asks(qs, l, b)
      <4> DEFINE p == [block |-> b, lines |-> <<l>>]
      <4>1. p \in new
        BY <2>2, <3>3, <1>M
      <4>2. p.block = b /\ l \in Range(p.lines)
        BY <1>15, <3>3
      <4> HIDE DEF p
      <4>3. QED
        BY <1>16, <4>1, <4>2 DEF Asks
    <3>4. QED
      BY <3>1, <3>2, <3>3
  <2>3. QED
    BY <2>1, <2>2
<1>23. ASSUME NEW id \in requests' PROVE id \in requests \/ (id \in A \X InBlock /\ \E q \in qs : Id(q) = id)
  <2> SUFFICES ASSUME NEW q \in new, id = Id(q) PROVE id \in A \X InBlock /\ q \in qs
    BY <1>4
  <2>1. q \in qs
    BY <1>16
  <2>2. CASE merge_block_requests
    <3>1. PICK b \in InBlock : q = [block |-> b, lines |-> Waiters(as, b)] /\ \E l \in A : b \in InputsOf(l)
      BY <2>2, <1>N
    <3>2. QED
      BY <1>14, <2>1, <2>2, <3>1
  <2>3. CASE ~merge_block_requests
    <3> PICK k \in A : \E b \in InputsOf(k) : q = [block |-> b, lines |-> <<k>>]
      BY <2>3, <1>M
    <3>1. PICK b \in InputsOf(k) : q = [block |-> b, lines |-> <<k>>]
      OBVIOUS
    <3>2. QED
      BY <1>15, <2>1, <3>1
  <2>4. QED
    BY <2>2, <2>3
<1>24. ASSUME NEW q \in pending PROVE \E p \in qs : Id(p) = Id(q)
  <2>1. CASE merge_block_requests
    <3> DEFINE p == [block |-> q.block, lines |-> q.lines \o Waiters(as, q.block)]
    <3>1. p \in qs
      BY <1>16, <2>1, <1>J
    <3>2. Id(p) = Id(q)
      BY <1>13, <2>1
    <3> HIDE DEF p
    <3>3. QED
      BY <3>1, <3>2
  <2>2. CASE ~merge_block_requests
    BY <1>16, <2>2, <1>L
  <2>3. QED
    BY <2>1, <2>2
<1>25. microjobs' = [l \in Line |-> IF l \in A /\ InputsOf(l) = {} THEN Microlines[l] ELSE microjobs[l]]
  <2>1. Inputless(as) = {l \in A : InputsOf(l) = {}}
    BY DEF Inputless
  <2>2. QED
    BY <1>4, <2>1
<1>26. requests \subseteq requests'
  BY <1>4
<1>27. Scheduled(r, available, lines, pending, A)
  <2> HIDE DEF A
  <2>1. \A l \in A : Home(l) = r /\ lines[l] = Unallocated
    BY <1>6
  <2>2. QED
    BY <1>2, <1>4, <1>7, <1>8, <1>20, <1>21, <1>22, <1>23, <1>24, <1>25, <1>26, <2>1 DEF Scheduled
<1>28. QED
  BY <1>2, <1>27

-----------------------------------------------------------------------------
(***************************************************************************)
(* The inductive invariant.  Its parts are predicates of the values that   *)
(* they relate, since schedule_lines starts from values that no state      *)
(* holds: the requests left and the lines changed by what called it.       *)
(***************************************************************************)
\* Some absorb_response has yet to put b in place for l, or to count it
Absorbs(jobs, l, b) ==
  \E a \in jobs : /\ a.block = b
                  /\ \E i \in 1 .. Len(a.lines) : a.lines[i] = l /\ (i = 1 \/ i >= a.next)

AskedOf(qs, l) == {b \in InBlock : Asks(qs, l, b)}
MissingOf(qs, jobs, l) == {b \in InBlock : Asks(qs, l, b) \/ Absorbs(jobs, l, b)}
SentOf(out, l) == {b \in OutBlock : <<l, b>> \in out}

\* A line asks for a block once, in a request or in the job of its response
Apart(qs, jobs) == \A a \in jobs : \A l \in Range(a.lines) : ~Asks(qs, l, a.block)

RequestsHold(qs, lines, jobs, at) ==
  \A r \in Rank : /\ RequestsOK(r, qs[r], lines)
                  /\ Apart(qs[r], jobs)
                  /\ at[r] = "init" => qs[r] = {}

JobsOK(jobs, lines, full) ==
  /\ \A a \in jobs : \E r \in Rank : Serves(a, r, lines)
  /\ \A a \in jobs : a.next \in 1 .. Len(a.lines) + 1
  /\ \A a \in jobs : a.next > 1 => <<Head(a.lines), a.block>> \in full
  /\ \A a, b \in jobs : a.block = b.block /\ Range(a.lines) \cap Range(b.lines) # {} => a = b

(***************************************************************************)
(* The counters of a line count what is really outstanding: responses, the *)
(* blocks not in place, microlines, and output sends.                      *)
(***************************************************************************)
LineOK(l, d, asked, missing, micro, woken, sent, full) ==
  /\ d.state # "allocated" => missing = {} /\ micro = 0 /\ ~woken /\ sent = {}
  /\ d.state = "allocated" =>
       /\ d.missing_input_responses = Cardinality(asked)
       /\ d.missing_input_blocks = Cardinality(missing)
       /\ \A b \in InputsOf(l) : b \in missing \/ <<l, b>> \in full
       /\ d.missing_input_blocks > 0 => micro = 0 /\ d.missing_microlines = Microlines[l]
       /\ d.missing_input_blocks = 0 => micro = d.missing_microlines
       /\ woken => d.missing_microlines = 0
       /\ d.missing_microlines > 0 \/ woken => sent = {} /\ d.unsent_output_blocks = Cardinality(Outputs[l])
       /\ d.missing_microlines = 0 /\ ~woken => sent # {} /\ d.unsent_output_blocks = Cardinality(sent)

LinesHold(lines, qs, jobs, micro, woken, out, full) ==
  \A l \in Line : LineOK(l, lines[l], AskedOf(qs[Home(l)], l), MissingOf(qs[Home(l)], jobs, l),
                         micro[l], l \in woken, SentOf(out, l), full)

\* Every message belongs to a request, which waits for one message
MessagesHold(qs, ask, answer) ==
  /\ ask \cap answer = {}
  /\ \A id \in ask \cup answer : \E q \in qs[Home(id[1])] : Id(q) = id

\* The outputs of a line are sent when its wakeup has run
IssuedAs(d, woken) == d.state = "deallocated" \/ (d.state = "allocated" /\ d.missing_microlines = 0 /\ ~woken)
Issued(l) == IssuedAs(line[l], l \in immediates)
ToSend(r) == {c \in Contribution : Home(c[1]) = r /\ (Issued(c[1]) => c \in sends)}
ToReceive(r) == {c \in Contribution : ContributionOwner[c] = r /\ (Issued(c[1]) => c \in outputs)}

RequestInv == RequestsHold(block_requests, line, absorbing, pc)
JobInv == JobsOK(absorbing, line, filled)
LineInv == LinesHold(line, block_requests, absorbing, microjobs, immediates, sends, filled)
ScheduleInv == ScheduleOK(unscheduled, line)
MessageInv == MessagesHold(block_requests, requests, responses)

\* The countdown of the barrier counts the rank's sends and receives to come
BarrierInv ==
  /\ \A r \in Rank : countdown[r] = Cardinality(ToSend(r)) + Cardinality(ToReceive(r))
  /\ \A r \in entered : countdown[r] = 0 /\ pc[r] # "init"
  /\ released # {} => entered = Rank
  /\ \A r \in Rank : pc[r] \in {"join", "returned"} => r \in released

\* A contribution is accumulated once, after its message and before its rank returns
ResultInv ==
  /\ \A c \in outputs \cup accumulating : Issued(c[1])
  /\ outputs \cap accumulating = {}
  /\ \A c \in Contribution :
       accumulated[c] = IF Issued(c[1]) /\ c \notin outputs \cup accumulating THEN 1 ELSE 0
  /\ \A c \in accumulating : pc[ContributionOwner[c]] # "returned"

Own(r, lines) == {l \in Line : lines[l].state = "allocated" /\ Home(l) = r}
Waiting(r, lines) == {l \in Own(r, lines) : lines[l].missing_input_responses > 0}

ResourcesOK(r, lines, available) ==
  /\ available.memory = MemoryLimit - MemoryOf[Own(r, lines)]
  /\ available.gathers = GatherLimit - Cardinality(Waiting(r, lines))
  /\ available.lines = LineLimit - Cardinality(Own(r, lines))

ResourceInv == \A r \in Rank : ResourcesOK(r, line, free[r])

FlowInv ==
  /\ TypeOK /\ RequestInv /\ JobInv /\ LineInv /\ ScheduleInv /\ MessageInv
  /\ BarrierInv /\ ResultInv /\ ResourceInv

\* The settings stay, and so does what depends on them
LEMMA Primed ==
  ASSUME UNCHANGED settings
  PROVE  /\ RequestInv' <=> RequestsHold(block_requests', line', absorbing', pc')
         /\ JobInv' <=> JobsOK(absorbing', line', filled')
         /\ LineInv' <=> LinesHold(line', block_requests', absorbing', microjobs', immediates', sends', filled')
         /\ ScheduleInv' <=> ScheduleOK(unscheduled', line')
         /\ MessageInv' <=> MessagesHold(block_requests', requests', responses')
<1>1. \A l : InputsOf(l)' = InputsOf(l)
  BY DEF settings, InputsOf
<1>2. merge_block_requests' = merge_block_requests
  BY DEF settings
<1>3. RequestInv' <=> RequestsHold(block_requests', line', absorbing', pc')
  BY <1>1, <1>2 DEF RequestInv, RequestsHold, RequestsOK, Serves, Apart, Asks, Unallocated
<1>4. JobInv' <=> JobsOK(absorbing', line', filled')
  BY <1>1 DEF JobInv, JobsOK, Serves, Unallocated
<1>5. LineInv' <=> LinesHold(line', block_requests', absorbing', microjobs', immediates', sends', filled')
  BY <1>1 DEF LineInv, LinesHold, LineOK, AskedOf, MissingOf, SentOf, Asks, Absorbs
<1>6. ScheduleInv' <=> ScheduleOK(unscheduled', line')
  BY DEF ScheduleInv, ScheduleOK, Unallocated
<1>7. MessageInv' <=> MessagesHold(block_requests', requests', responses')
  BY DEF MessageInv, MessagesHold, Id
<1>8. QED
  BY <1>3, <1>4, <1>5, <1>6, <1>7

LEMMA Counting ==
  \A S : IsFiniteSet(S) =>
    /\ Cardinality(S) \in Nat
    /\ Cardinality(S) = 0 <=> S = {}
    /\ Cardinality(S) > 0 <=> S # {}
    /\ \A x \in S : Cardinality(S \ {x}) = Cardinality(S) - 1
<1> TAKE S
<1> SUFFICES ASSUME IsFiniteSet(S)
             PROVE  /\ Cardinality(S) \in Nat
                    /\ Cardinality(S) = 0 <=> S = {}
                    /\ Cardinality(S) > 0 <=> S # {}
                    /\ \A x \in S : Cardinality(S \ {x}) = Cardinality(S) - 1
  OBVIOUS
<1>1. Cardinality(S) \in Nat
  BY FS_CardinalityType
<1>2. Cardinality(S) = 0 <=> S = {}
  BY FS_EmptySet
<1>3. Cardinality(S) > 0 <=> S # {}
  BY <1>1, <1>2
<1>4. \A x \in S : Cardinality(S \ {x}) = Cardinality(S) - 1
  BY FS_RemoveElement
<1>5. QED
  BY <1>1, <1>2, <1>3, <1>4

LEMMA Finite ==
  /\ \A S \in SUBSET InBlock : IsFiniteSet(S)
  /\ \A S \in SUBSET OutBlock : IsFiniteSet(S)
  /\ \A S \in SUBSET Line : IsFiniteSet(S)
  /\ \A qs, l : IsFiniteSet(AskedOf(qs, l))
  /\ \A qs, jobs, l : IsFiniteSet(MissingOf(qs, jobs, l))
  /\ \A out, l : IsFiniteSet(SentOf(out, l))
  /\ \A l \in Line : InputsOf(l) \in SUBSET InBlock /\ Outputs[l] \in SUBSET OutBlock /\ Outputs[l] # {} /\ Microlines[l] \in Nat /\ Microlines[l] > 0
<1>1. /\ \A S \in SUBSET InBlock : IsFiniteSet(S)
      /\ \A S \in SUBSET OutBlock : IsFiniteSet(S)
      /\ \A S \in SUBSET Line : IsFiniteSet(S)
  BY FS_Subset, SliceAssumption
<1>2. /\ \A qs, l : AskedOf(qs, l) \in SUBSET InBlock
      /\ \A qs, jobs, l : MissingOf(qs, jobs, l) \in SUBSET InBlock
      /\ \A out, l : SentOf(out, l) \in SUBSET OutBlock
  BY DEF AskedOf, MissingOf, SentOf
<1>3. \A l \in Line : InputsOf(l) \in SUBSET InBlock /\ Outputs[l] \in SUBSET OutBlock /\ Outputs[l] # {} /\ Microlines[l] \in Nat /\ Microlines[l] > 0
  BY InputsAre, SliceAssumption
<1>4. QED
  BY <1>1, <1>2, <1>3

-----------------------------------------------------------------------------
(***************************************************************************)
(* schedule_lines keeps the invariant.                                     *)
(***************************************************************************)
LEMMA NewLine ==
  ASSUME NEW l \in Line
  PROVE  LET d == Allocated(l)
         IN /\ d.state = "allocated" /\ d # Unallocated
            /\ d.missing_input_responses = Cardinality(InputsOf(l))
            /\ d.missing_input_blocks = Cardinality(InputsOf(l))
            /\ d.missing_microlines = Microlines[l]
            /\ d.unsent_output_blocks = Cardinality(Outputs[l])
BY AllocatedType DEF Allocated

LEMMA NoLine ==
  /\ Unallocated.state = "unallocated" /\ Deallocated.state = "deallocated" /\ Unallocated # Deallocated
  /\ \A d \in LineState : d.state = "unallocated" <=> d = Unallocated
  /\ \A d \in LineState : d.state = "deallocated" => d = Deallocated
  /\ \A d \in LineDetails : d.state = "allocated" /\ d # Unallocated /\ d # Deallocated
  /\ \A d \in LineState : d.state = "allocated" => d \in LineDetails
  /\ \A d \in LineState : d.state \in {"unallocated", "allocated", "deallocated"}
BY DEF Unallocated, Deallocated, LineState, LineDetails

LEMMA ScheduleKeepsLines ==
  ASSUME NEW r \in Rank, NEW available, NEW lines \in [Line -> LineState], NEW pending, NEW A \in SUBSET Line,
         Scheduled(r, available, lines, pending, A),
         block_requests \in [Rank -> SUBSET Request], microjobs \in [Line -> Nat],
         NEW qs, qs = [block_requests EXCEPT ![r] = pending],
         NEW jobs, NEW woken, NEW out, NEW full,
         LinesHold(lines, qs, jobs, microjobs, woken, out, full)
  PROVE  LinesHold(line', block_requests', jobs, microjobs', woken, out, full)
<1> SUFFICES ASSUME NEW l \in Line
             PROVE  LineOK(l, line'[l], AskedOf(block_requests'[Home(l)], l), MissingOf(block_requests'[Home(l)], jobs, l),
                           microjobs'[l], l \in woken, SentOf(out, l), full)
  BY DEF LinesHold
<1>1. LineOK(l, lines[l], AskedOf(qs[Home(l)], l), MissingOf(qs[Home(l)], jobs, l),
             microjobs[l], l \in woken, SentOf(out, l), full)
  BY DEF LinesHold
<1>2. Home(l) \in Rank /\ qs[Home(l)] = IF Home(l) = r THEN pending ELSE block_requests[Home(l)]
  BY HomeIs
<1>3. \A b : Asks(block_requests'[Home(l)], l, b) <=> Asks(qs[Home(l)], l, b) \/ (l \in A /\ b \in InputsOf(l))
  <2>1. CASE Home(l) = r
    BY <1>2, <2>1 DEF Scheduled
  <2>2. CASE Home(l) # r
    BY <1>2, <2>2 DEF Scheduled
  <2>3. QED
    BY <2>1, <2>2
<1>4. /\ line'[l] = IF l \in A THEN Allocated(l) ELSE lines[l]
      /\ microjobs'[l] = IF l \in A /\ InputsOf(l) = {} THEN Microlines[l] ELSE microjobs[l]
      /\ l \in A => lines[l] = Unallocated
  BY DEF Scheduled
<1>5. CASE l \notin A
  <2>1. /\ AskedOf(block_requests'[Home(l)], l) = AskedOf(qs[Home(l)], l)
        /\ MissingOf(block_requests'[Home(l)], jobs, l) = MissingOf(qs[Home(l)], jobs, l)
    BY <1>3, <1>5 DEF AskedOf, MissingOf
  <2>2. line'[l] = lines[l] /\ microjobs'[l] = microjobs[l]
    BY <1>4, <1>5
  <2>3. QED
    BY <1>1, <2>1, <2>2
<1>6. CASE l \in A
  <2> DEFINE d == Allocated(l)
             I == InputsOf(l)
             O == Outputs[l]
  <2>1. line'[l] = d /\ lines[l].state # "allocated"
    BY <1>4, <1>6, NoLine
  <2>2. /\ MissingOf(qs[Home(l)], jobs, l) = {} /\ microjobs[l] = 0
        /\ l \notin woken /\ SentOf(out, l) = {}
    BY <1>1, <2>1 DEF LineOK
  <2>3. \A b \in InBlock : ~Asks(qs[Home(l)], l, b) /\ ~Absorbs(jobs, l, b)
    BY <2>2 DEF MissingOf
  <2>4. I \in SUBSET InBlock /\ IsFiniteSet(I) /\ Microlines[l] \in Nat /\ Microlines[l] > 0
    BY Finite
  <2>5. AskedOf(block_requests'[Home(l)], l) = I /\ MissingOf(block_requests'[Home(l)], jobs, l) = I
    BY <1>3, <1>6, <2>3, <2>4 DEF AskedOf, MissingOf
  <2>6. microjobs'[l] = IF I = {} THEN Microlines[l] ELSE 0
    BY <1>4, <1>6, <2>2
  <2>7. /\ d.state = "allocated"
        /\ d.missing_input_responses = Cardinality(I)
        /\ d.missing_input_blocks = Cardinality(I)
        /\ d.missing_microlines = Microlines[l]
        /\ d.unsent_output_blocks = Cardinality(O)
    BY NewLine
  <2>8. Cardinality(I) \in Nat /\ (Cardinality(I) = 0 <=> I = {}) /\ (Cardinality(I) > 0 <=> I # {})
    BY <2>4, Counting
  <2> HIDE DEF d, I, O
  <2>9. LineOK(l, d, I, I, microjobs'[l], l \in woken, SentOf(out, l), full)
    BY <2>2, <2>4, <2>6, <2>7, <2>8 DEF LineOK, I, O
  <2>10. QED
    BY <2>1, <2>5, <2>9
<1>7. QED
  BY <1>5, <1>6

LEMMA ScheduleKeepsOthers ==
  ASSUME NEW r \in Rank, NEW available, NEW lines \in [Line -> LineState], NEW pending, NEW A \in SUBSET Line,
         Scheduled(r, available, lines, pending, A)
  PROVE  /\ \A q, s : Serves(q, s, lines) /\ Range(q.lines) \subseteq Line => Serves(q, s, line')
         /\ \A l \in Line : \A w : IssuedAs(line'[l], w) <=> IssuedAs(lines[l], w)
<1>1. \A l \in Line : /\ line'[l] = IF l \in A THEN Allocated(l) ELSE lines[l]
                      /\ l \in A => lines[l] = Unallocated
  BY DEF Scheduled
<1>2. \A q, s : Serves(q, s, lines) /\ Range(q.lines) \subseteq Line => Serves(q, s, line')
  BY <1>1 DEF Serves
<1>3. ASSUME NEW l \in Line, NEW w PROVE IssuedAs(line'[l], w) <=> IssuedAs(lines[l], w)
  <2>1. CASE l \notin A
    BY <1>1, <2>1
  <2>2. CASE l \in A
    <3>1. ~IssuedAs(lines[l], w)
      BY <1>1, <2>2, NoLine DEF IssuedAs
    <3>2. Microlines[l] # 0
      BY Finite
    <3>3. ~IssuedAs(line'[l], w)
      BY <1>1, <2>2, <3>2, NewLine DEF IssuedAs
    <3>4. QED
      BY <3>1, <3>3
  <2>3. QED
    BY <2>1, <2>2
<1>4. QED
  BY <1>2, <1>3

LEMMA ScheduleKeepsRequests ==
  ASSUME NEW r \in Rank, NEW available, NEW lines \in [Line -> LineState], NEW pending, NEW A \in SUBSET Line,
         Scheduled(r, available, lines, pending, A),
         block_requests \in [Rank -> SUBSET Request],
         NEW qs, qs = [block_requests EXCEPT ![r] = pending],
         NEW jobs \in SUBSET [block : InBlock, lines : Seq(Line), next : Nat], NEW full, NEW at, at[r] # "init",
         JobsOK(jobs, lines, full),
         RequestsHold(qs, lines, jobs, at)
  PROVE  JobsOK(jobs, line', full) /\ RequestsHold(block_requests', line', jobs, at)
<1>1. \A a \in jobs : Range(a.lines) \subseteq Line
  BY RangeIn
<1>2. JobsOK(jobs, line', full)
  BY <1>1, ScheduleKeepsOthers DEF JobsOK
<1>3. \A s \in Rank : s # r => block_requests'[s] = block_requests[s] /\ qs[s] = block_requests[s]
  BY DEF Scheduled
<1>4. ASSUME NEW s \in Rank PROVE RequestsOK(s, block_requests'[s], line')
  <2>1. CASE s = r
    BY <2>1 DEF Scheduled
  <2>2. CASE s # r
    <3>1. RequestsOK(s, block_requests'[s], lines) /\ block_requests'[s] \in SUBSET Request
      BY <1>3, <2>2 DEF RequestsHold
    <3>2. \A q \in block_requests'[s] : Range(q.lines) \subseteq Line
      BY <3>1, RequestFields
    <3>3. QED
      BY <3>1, <3>2, ScheduleKeepsOthers DEF RequestsOK
  <2>3. QED
    BY <2>1, <2>2
<1>5. ASSUME NEW s \in Rank PROVE Apart(block_requests'[s], jobs)
  <2>1. Apart(qs[s], jobs)
    BY DEF RequestsHold
  <2>2. CASE s = r
    <3>1. Apart(pending, jobs)
      BY <2>1, <2>2
    <3>2. \A a \in jobs : \A l \in Range(a.lines) : l \notin A
      BY DEF Scheduled, JobsOK, Serves
    <3>3. \A l, b : Asks(block_requests'[r], l, b) => Asks(pending, l, b) \/ l \in A
      BY DEF Scheduled
    <3>4. QED
      BY <2>2, <3>1, <3>2, <3>3 DEF Apart
  <2>3. CASE s # r
    BY <1>3, <2>1, <2>3
  <2>4. QED
    BY <2>2, <2>3
<1>6. \A s \in Rank : at[s] = "init" => block_requests'[s] = {}
  BY <1>3 DEF RequestsHold
<1>7. QED
  BY <1>2, <1>4, <1>5, <1>6 DEF RequestsHold

LEMMA ScheduleKeepsSchedule ==
  ASSUME NEW r \in Rank, NEW available, NEW lines \in [Line -> LineState], NEW pending, NEW A \in SUBSET Line,
         Scheduled(r, available, lines, pending, A),
         ScheduleOK(unscheduled, lines)
  PROVE  ScheduleOK(unscheduled', line')
<1>1. /\ \A s \in Rank : Range(unscheduled'[s]) = IF s = r THEN Range(unscheduled[s]) \ A ELSE Range(unscheduled[s])
      /\ \A s \in Rank : IsInjective(unscheduled'[s])
      /\ \A l \in A : Home(l) = r /\ lines[l] = Unallocated
      /\ \A l \in Line : line'[l] = IF l \in A THEN Allocated(l) ELSE lines[l]
  BY DEF Scheduled
<1>2. ASSUME NEW s \in Rank, NEW l \in Range(unscheduled'[s]) PROVE Home(l) = s
  <2>1. l \in Range(unscheduled[s])
    BY <1>1, <1>2
  <2>2. QED
    BY <2>1 DEF ScheduleOK
<1>3. ASSUME NEW l \in Line PROVE line'[l] = Unallocated <=> l \in Range(unscheduled'[Home(l)])
  <2>1. Home(l) \in Rank /\ (lines[l] = Unallocated <=> l \in Range(unscheduled[Home(l)]))
    BY HomeIs DEF ScheduleOK
  <2>2. CASE l \in A
    BY <1>1, <2>1, <2>2, NewLine
  <2>3. CASE l \notin A
    BY <1>1, <2>1, <2>3
  <2>4. QED
    BY <2>2, <2>3
<1>4. QED
  BY <1>1, <1>2, <1>3 DEF ScheduleOK

LEMMA ScheduleKeepsMessages ==
  ASSUME NEW r \in Rank, NEW available, NEW lines \in [Line -> LineState], NEW pending, NEW A \in SUBSET Line,
         Scheduled(r, available, lines, pending, A),
         block_requests \in [Rank -> SUBSET Request],
         NEW qs, qs = [block_requests EXCEPT ![r] = pending], pending \in SUBSET Request,
         \A s \in Rank : RequestsOK(s, qs[s], lines),
         NEW answer, requests \cup answer \subseteq Line \X InBlock,
         MessagesHold(qs, requests, answer)
  PROVE  /\ requests' \subseteq Line \X InBlock
         /\ MessagesHold(block_requests', requests', answer)
<1>1. \A id \in requests' : id \in requests \/ (id \in A \X InBlock /\ \E q \in block_requests'[r] : Id(q) = id)
  BY DEF Scheduled
<1>2. requests' \subseteq Line \X InBlock
  BY <1>1
<1>3. ASSUME NEW id \in requests \cup answer
      PROVE  id[1] \notin A /\ \E q \in block_requests'[Home(id[1])] : Id(q) = id
  <2>1. id[1] \in Line /\ Home(id[1]) \in Rank
    BY HomeIs
  <2>2. PICK q \in qs[Home(id[1])] : Id(q) = id
    BY DEF MessagesHold
  <2>3. q \in Request /\ Serves(q, Home(id[1]), lines)
    BY <2>1, <2>2 DEF RequestsOK
  <2>4. Head(q.lines) \in Range(q.lines) /\ Head(q.lines) = id[1]
    BY <2>2, <2>3, FirstWaits, RequestFields DEF Serves, Id
  <2>5. id[1] \notin A
    BY <2>3, <2>4 DEF Serves, Scheduled
  <2>6. CASE Home(id[1]) = r
    BY <2>2, <2>5, <2>6 DEF Scheduled
  <2>7. CASE Home(id[1]) # r
    BY <2>1, <2>2, <2>5, <2>7 DEF Scheduled
  <2>8. QED
    BY <2>6, <2>7
<1>4. ASSUME NEW id \in requests' \cup answer PROVE \E q \in block_requests'[Home(id[1])] : Id(q) = id
  <2>1. CASE id \in requests \cup answer
    BY <1>3, <2>1
  <2>2. CASE id \notin requests \cup answer
    <3>1. id[1] \in A /\ \E q \in block_requests'[r] : Id(q) = id
      BY <1>1, <2>2
    <3>2. Home(id[1]) = r
      BY <3>1 DEF Scheduled
    <3>3. QED
      BY <3>1, <3>2
  <2>3. QED
    BY <2>1, <2>2
<1>5. requests' \cap answer = {}
  <2> SUFFICES ASSUME NEW id \in requests', id \in answer PROVE FALSE
    OBVIOUS
  <2>1. id \notin requests
    BY DEF MessagesHold
  <2>2. id[1] \in A
    BY <1>1, <2>1
  <2>3. QED
    BY <1>3, <2>2
<1>6. QED
  BY <1>2, <1>4, <1>5 DEF MessagesHold

LEMMA UnionCounts ==
  ASSUME NEW S \in SUBSET Line, NEW T \in SUBSET Line, S \cap T = {}
  PROVE  Cardinality(S \cup T) = Cardinality(S) + Cardinality(T) /\ Cardinality(S) \in Nat /\ Cardinality(T) \in Nat
<1>1. IsFiniteSet(S) /\ IsFiniteSet(T)
  BY Finite
<1>2. Cardinality(S \cup T) = Cardinality(S) + Cardinality(T) - Cardinality(S \cap T)
  BY <1>1, FS_Union
<1>3. Cardinality(S) \in Nat /\ Cardinality(T) \in Nat /\ Cardinality(S \cap T) = 0
  BY <1>1, Counting, FS_EmptySet
<1>4. QED
  BY <1>2, <1>3

LEMMA ScheduleKeepsResources ==
  ASSUME NEW r \in Rank, NEW available \in Available, NEW lines \in [Line -> LineState], NEW pending, NEW A \in SUBSET Line,
         Scheduled(r, available, lines, pending, A),
         free \in [Rank -> Available],
         ResourcesOK(r, lines, available),
         \A s \in Rank : s # r => ResourcesOK(s, lines, free[s])
  PROVE  /\ free' \in [Rank -> Available]
         /\ \A s \in Rank : ResourcesOK(s, line', free'[s])
<1> DEFINE f == [memory |-> available.memory - MemoryOf[A],
                 gathers |-> available.gathers - Cardinality(Gathering(A)),
                 lines |-> available.lines - Cardinality(A)]
<1>1. free' = [free EXCEPT ![r] = f] /\ f \in Available
  BY DEF Scheduled, Available
<1>2. /\ \A l \in A : Home(l) = r /\ lines[l] = Unallocated
      /\ \A l \in Line : line'[l] = IF l \in A THEN Allocated(l) ELSE lines[l]
  BY DEF Scheduled
<1>3. \A l \in A : lines[l].state # "allocated" /\ line'[l].state = "allocated"
  BY <1>2, NoLine, NewLine
<1>4. \A l \in A : line'[l].missing_input_responses > 0 <=> InputsOf(l) # {}
  <2> TAKE l \in A
  <2>1. IsFiniteSet(InputsOf(l)) /\ line'[l].missing_input_responses = Cardinality(InputsOf(l))
    BY <1>2, Finite, NewLine
  <2>2. QED
    BY <2>1, Counting
<1>5. ASSUME NEW s \in Rank, s # r PROVE ResourcesOK(s, line', free'[s])
  <2>1. free'[s] = free[s]
    BY <1>1, <1>5
  <2>2. Own(s, line') = Own(s, lines)
    BY <1>2, <1>3, <1>5 DEF Own
  <2>3. \A l \in Own(s, line') : line'[l] = lines[l]
    BY <1>2, <1>5 DEF Own
  <2>4. Waiting(s, line') = Waiting(s, lines)
    BY <2>2, <2>3 DEF Waiting
  <2>5. QED
    BY <1>5, <2>1, <2>2, <2>4 DEF ResourcesOK
<1>6. ResourcesOK(r, line', f)
  <2>1. Own(r, line') = Own(r, lines) \cup A /\ Own(r, lines) \cap A = {} /\ Own(r, lines) \in SUBSET Line
    BY <1>2, <1>3 DEF Own
  <2>2. Waiting(r, line') = Waiting(r, lines) \cup Gathering(A)
    <3>1. \A l \in A : l \in Waiting(r, line') <=> l \in Gathering(A)
      BY <1>4, <2>1 DEF Waiting, Gathering
    <3>2. \A l \in Own(r, lines) : l \in Waiting(r, line') <=> l \in Waiting(r, lines)
      BY <1>2, <2>1 DEF Waiting
    <3>3. QED
      BY <2>1, <3>1, <3>2 DEF Waiting, Gathering
  <2>3. Waiting(r, lines) \cap Gathering(A) = {} /\ Waiting(r, lines) \in SUBSET Line /\ Gathering(A) \in SUBSET Line
    BY <2>1 DEF Waiting, Gathering
  <2> DEFINE m == MemoryOf[Own(r, lines)]
             ma == MemoryOf[A]
             w == Cardinality(Waiting(r, lines))
             g == Cardinality(Gathering(A))
             o == Cardinality(Own(r, lines))
             n == Cardinality(A)
  <2>4. MemoryOf[Own(r, line')] = m + ma /\ m \in Nat /\ ma \in Nat
    BY <2>1, MemoryOfUnion, MemoryOfRemoved
  <2>5. Cardinality(Waiting(r, line')) = w + g /\ w \in Nat /\ g \in Nat
    BY <2>2, <2>3, UnionCounts
  <2>6. Cardinality(Own(r, line')) = o + n /\ o \in Nat /\ n \in Nat
    BY <2>1, UnionCounts
  <2>7. available.memory = MemoryLimit - m /\ available.gathers = GatherLimit - w /\ available.lines = LineLimit - o
    BY DEF ResourcesOK
  <2>8. MemoryLimit \in Nat /\ GatherLimit \in Nat /\ LineLimit \in Nat
    BY LimitsAssumption
  <2>9. f.memory = available.memory - ma /\ f.gathers = available.gathers - g /\ f.lines = available.lines - n
    OBVIOUS
  <2> HIDE DEF f, m, ma, w, g, o, n
  <2>10. f.memory = MemoryLimit - (m + ma) /\ f.gathers = GatherLimit - (w + g) /\ f.lines = LineLimit - (o + n)
    BY <2>4, <2>5, <2>6, <2>7, <2>8, <2>9
  <2>11. QED
    BY <2>4, <2>5, <2>6, <2>10 DEF ResourcesOK
<1>7. free'[r] = f
  BY <1>1
<1>8. free' \in [Rank -> Available]
  <2> HIDE DEF f
  <2> QED
    BY <1>1
<1> HIDE DEF f
<1>9. \A s \in Rank : ResourcesOK(s, line', free'[s])
  BY <1>5, <1>6, <1>7
<1>10. QED
  BY <1>8, <1>9

-----------------------------------------------------------------------------
(***************************************************************************)
(* What an action leaves alone stays as the invariant has it.              *)
(***************************************************************************)
Job == [block : InBlock, lines : Seq(Line), next : Nat]

LEMMA Types ==
  ASSUME TypeOK
  PROVE  /\ merge_block_requests \in BOOLEAN
         /\ unscheduled \in [Rank -> Seq(Line)]
         /\ free \in [Rank -> Available]
         /\ line \in [Line -> LineState]
         /\ block_requests \in [Rank -> SUBSET Request]
         /\ absorbing \in SUBSET Job
         /\ filled \in SUBSET (Line \X InBlock)
         /\ microjobs \in [Line -> Nat]
         /\ requests \cup responses \subseteq Line \X InBlock
BY DEF TypeOK, Available, LineState, Request, Job

LEMMA Contributions ==
  /\ IsFiniteSet(Contribution)
  /\ \A c \in Contribution : /\ c[1] \in Line /\ c[2] \in Outputs[c[1]] /\ c[2] \in OutBlock /\ c = <<c[1], c[2]>>
                             /\ ContributionOwner[c] \in Rank
  /\ \A l \in Line : \A b \in Outputs[l] : <<l, b>> \in Contribution
<1>1. \A c \in Contribution : c \in Line \X OutBlock /\ c[2] \in Outputs[c[1]]
  BY DEF Contribution
<1>2. IsFiniteSet(Line \X OutBlock)
  BY SliceAssumption, FS_Product
<1>3. IsFiniteSet(Contribution)
  BY <1>1, <1>2, FS_Subset
<1>4. \A c \in Contribution : /\ c[1] \in Line /\ c[2] \in Outputs[c[1]] /\ c[2] \in OutBlock /\ c = <<c[1], c[2]>>
                              /\ ContributionOwner[c] \in Rank
  <2> TAKE c \in Contribution
  <2>1. c[1] \in Line /\ c[2] \in Outputs[c[1]] /\ c[2] \in OutBlock /\ c = <<c[1], c[2]>>
    BY <1>1
  <2>2. ContributionOwner[c] = Owner[c[2]]
    BY DEF ContributionOwner
  <2>3. QED
    BY <2>1, <2>2, SliceAssumption
<1>5. ASSUME NEW l \in Line, NEW b \in Outputs[l] PROVE <<l, b>> \in Contribution
  <2>1. <<l, b>> \in Line \X OutBlock
    BY Finite
  <2>2. <<l, b>>[1] = l /\ <<l, b>>[2] = b
    OBVIOUS
  <2>3. QED
    BY <2>1, <2>2 DEF Contribution
<1>6. QED
  BY <1>3, <1>4, <1>5

LEMMA CountsAre ==
  \A r : /\ IsFiniteSet(ToSend(r)) /\ Cardinality(ToSend(r)) \in Nat
         /\ IsFiniteSet(ToReceive(r)) /\ Cardinality(ToReceive(r)) \in Nat
<1>1. \A r : ToSend(r) \in SUBSET Contribution /\ ToReceive(r) \in SUBSET Contribution
  BY DEF ToSend, ToReceive
<1>2. QED
  BY <1>1, Contributions, FS_Subset, Counting

LEMMA SameCounts ==
  ASSUME \A l \in Line : Issued(l)' <=> Issued(l),
         UNCHANGED <<sends, outputs>>
  PROVE  \A r : ToSend(r)' = ToSend(r) /\ ToReceive(r)' = ToReceive(r)
BY Contributions DEF ToSend, ToReceive

LEMMA SameIssued ==
  ASSUME UNCHANGED <<line, immediates>>
  PROVE  \A l \in Line : Issued(l)' <=> Issued(l)
BY DEF Issued, IssuedAs

LEMMA BarrierKeeps ==
  ASSUME BarrierInv,
         \A s \in Rank : ToSend(s)' = ToSend(s) /\ ToReceive(s)' = ToReceive(s),
         UNCHANGED <<countdown, entered, released>>, entered \subseteq Rank,
         \A s \in Rank : \/ pc'[s] = pc[s]
                         \/ pc'[s] # "init" /\ (pc'[s] \in {"join", "returned"} => s \in released)
  PROVE  BarrierInv'
BY DEF BarrierInv

LEMMA ResultKeeps ==
  ASSUME ResultInv, outputs \cup accumulating \subseteq Contribution,
         \A l \in Line : Issued(l)' <=> Issued(l),
         UNCHANGED <<outputs, accumulating, accumulated>>,
         \A s \in Rank : pc'[s] = "returned" => pc[s] = "returned"
  PROVE  ResultInv'
BY Contributions DEF ResultInv

LEMMA ResourceKeeps ==
  ASSUME ResourceInv, UNCHANGED free,
         \A l \in Line : /\ line'[l].state = "allocated" <=> line[l].state = "allocated"
                         /\ line[l].state = "allocated" =>
                              line'[l].missing_input_responses = line[l].missing_input_responses
  PROVE  ResourceInv'
<1>1. \A r : Own(r, line)' = Own(r, line)
  BY DEF Own
<1>2. \A r : Waiting(r, line)' = Waiting(r, line)
  BY <1>1 DEF Waiting, Own
<1>3. QED
  BY <1>1, <1>2 DEF ResourceInv, ResourcesOK

-----------------------------------------------------------------------------
(***************************************************************************)
(* The actions that only move messages or threads.                         *)
(***************************************************************************)
LEMMA process_requestStep ==
  ASSUME FlowInv, UNCHANGED settings, NEW r \in Rank, NEW id \in requests, process_request(r, id)
  PROVE  FlowInv'
<1> USE DEF FlowInv
<1>1. /\ UNCHANGED <<pc, unscheduled, free, line, filled, block_requests, absorbing, microjobs, immediates,
                     outputs, sends, accumulating, accumulated, countdown, entered, released>>
      /\ requests' = requests \ {id} /\ responses' = responses \cup {id}
  BY DEF process_request, barrier
<1>2. TypeOK'
  BY <1>1 DEF TypeOK, settings
<1>3. RequestInv' /\ JobInv' /\ LineInv' /\ ScheduleInv'
  BY <1>1, Primed DEF RequestInv, JobInv, LineInv, ScheduleInv
<1>4. MessageInv'
  <2>1. MessagesHold(block_requests, requests', responses')
    BY <1>1 DEF MessageInv, MessagesHold
  <2>2. QED
    BY <1>1, <2>1, Primed
<1>5. BarrierInv' /\ ResultInv' /\ ResourceInv'
  BY <1>1, SameIssued, SameCounts, BarrierKeeps, ResultKeeps, ResourceKeeps DEF TypeOK
<1>6. QED
  BY <1>2, <1>3, <1>4, <1>5

LEMMA process_barrierStep ==
  ASSUME FlowInv, UNCHANGED settings, NEW r \in Rank, process_barrier(r)
  PROVE  FlowInv'
<1> USE DEF FlowInv
<1>1. /\ UNCHANGED <<pc, unscheduled, free, line, filled, block_requests, absorbing, microjobs, immediates,
                     requests, responses, outputs, sends, accumulating, accumulated, countdown, entered>>
      /\ released' = released \cup {r} /\ entered = Rank
  BY DEF process_barrier, comm, Barrier!Leave
<1>2. TypeOK'
  BY <1>1 DEF TypeOK, settings
<1>3. RequestInv' /\ JobInv' /\ LineInv' /\ ScheduleInv' /\ MessageInv'
  BY <1>1, Primed DEF RequestInv, JobInv, LineInv, ScheduleInv, MessageInv
<1>4. \A s : ToSend(s)' = ToSend(s) /\ ToReceive(s)' = ToReceive(s)
  BY <1>1, SameIssued, SameCounts
<1>5. BarrierInv'
  BY <1>1, <1>4 DEF BarrierInv
<1>6. ResultInv' /\ ResourceInv'
  BY <1>1, SameIssued, ResultKeeps, ResourceKeeps DEF TypeOK
<1>7. QED
  BY <1>2, <1>3, <1>5, <1>6

LEMMA LeaveLoopStep ==
  ASSUME FlowInv, UNCHANGED settings, NEW r \in Rank, LeaveLoop(r)
  PROVE  FlowInv'
<1> USE DEF FlowInv
<1>1. /\ UNCHANGED <<unscheduled, free, line, filled, block_requests, absorbing, microjobs, immediates,
                     requests, responses, outputs, sends, accumulating, accumulated, countdown, entered, released>>
      /\ pc[r] = "loop" /\ r \in released /\ pc' = [pc EXCEPT ![r] = "join"]
  BY DEF LeaveLoop, comm, barrier
<1>2. TypeOK' /\ \A s \in Rank : pc'[s] = IF s = r THEN "join" ELSE pc[s]
  BY <1>1 DEF TypeOK, settings
<1>3. RequestsHold(block_requests, line, absorbing, pc')
  BY <1>2 DEF RequestInv, RequestsHold
<1>4. RequestInv' /\ JobInv' /\ LineInv' /\ ScheduleInv' /\ MessageInv'
  BY <1>1, <1>3, Primed DEF JobInv, LineInv, ScheduleInv, MessageInv
<1>5. \A s : ToSend(s)' = ToSend(s) /\ ToReceive(s)' = ToReceive(s)
  BY <1>1, SameIssued, SameCounts
<1>6. BarrierInv' /\ ResultInv' /\ ResourceInv'
  BY <1>1, <1>2, <1>5, SameIssued, BarrierKeeps, ResultKeeps, ResourceKeeps DEF TypeOK
<1>7. QED
  BY <1>2, <1>4, <1>6

LEMMA ReturnStep ==
  ASSUME FlowInv, UNCHANGED settings, NEW r \in Rank, Return(r)
  PROVE  FlowInv'
<1> USE DEF FlowInv
<1>1. /\ UNCHANGED <<unscheduled, free, line, filled, block_requests, absorbing, microjobs, immediates,
                     requests, responses, outputs, sends, accumulating, accumulated, countdown, entered, released>>
      /\ pc[r] = "join" /\ JobsOf(r) = {} /\ pc' = [pc EXCEPT ![r] = "returned"]
  BY DEF Return, comm, barrier
<1>2. TypeOK' /\ \A s \in Rank : pc'[s] = IF s = r THEN "returned" ELSE pc[s]
  BY <1>1 DEF TypeOK, settings
<1>3. RequestsHold(block_requests, line, absorbing, pc')
  BY <1>2 DEF RequestInv, RequestsHold
<1>4. RequestInv' /\ JobInv' /\ LineInv' /\ ScheduleInv' /\ MessageInv'
  BY <1>1, <1>3, Primed DEF JobInv, LineInv, ScheduleInv, MessageInv
<1>5. \A s : ToSend(s)' = ToSend(s) /\ ToReceive(s)' = ToReceive(s)
  BY <1>1, SameIssued, SameCounts
<1>6. BarrierInv' /\ ResourceInv'
  <2>1. r \in released
    BY <1>1 DEF BarrierInv
  <2>2. QED
    BY <1>1, <1>2, <1>5, <2>1, BarrierKeeps, ResourceKeeps DEF TypeOK
<1>7. ResultInv'
  <2>1. \A c \in accumulating : c \in Contribution /\ ContributionOwner[c] # r
    BY <1>1 DEF JobsOf, TypeOK
  <2>2. \A c \in accumulating : pc'[ContributionOwner[c]] # "returned"
    BY <1>2, <2>1, Contributions DEF ResultInv
  <2>3. \A l \in Line : Issued(l)' <=> Issued(l)
    BY <1>1, SameIssued
  <2>4. outputs \cup accumulating \subseteq Contribution
    BY DEF TypeOK
  <2>5. QED
    BY <1>1, <2>2, <2>3, <2>4, Contributions DEF ResultInv
<1>8. QED
  BY <1>2, <1>4, <1>6, <1>7

-----------------------------------------------------------------------------
(***************************************************************************)
(* The actions that move outputs, and the microlines.                      *)
(***************************************************************************)
LEMMA DecrementKeeps ==
  ASSUME TypeOK, BarrierInv, NEW r \in Rank, pc[r] = "loop", Decrement(r), UNCHANGED pc,
         \A s \in Rank : s # r => ToSend(s)' = ToSend(s) /\ ToReceive(s)' = ToReceive(s),
         NEW c,
         \/ c \in ToSend(r) /\ ToSend(r)' = ToSend(r) \ {c} /\ ToReceive(r)' = ToReceive(r)
         \/ c \in ToReceive(r) /\ ToReceive(r)' = ToReceive(r) \ {c} /\ ToSend(r)' = ToSend(r)
  PROVE  /\ BarrierInv'
         /\ countdown' \in [Rank -> Nat] /\ entered' \subseteq Rank /\ released' \subseteq Rank
<1> DEFINE x == Cardinality(ToSend(r))
           y == Cardinality(ToReceive(r))
           n == countdown[r]
<1>1. x \in Nat /\ y \in Nat /\ n = x + y
  BY CountsAre DEF BarrierInv
<1>2. n > 0 /\ n - 1 = Cardinality(ToSend(r)') + Cardinality(ToReceive(r)')
  <2>1. CASE c \in ToSend(r) /\ ToSend(r)' = ToSend(r) \ {c} /\ ToReceive(r)' = ToReceive(r)
    <3>1. x > 0 /\ Cardinality(ToSend(r)') = x - 1 /\ Cardinality(ToReceive(r)') = y
      BY <2>1, CountsAre, Counting
    <3> HIDE DEF x, y, n
    <3>2. QED
      BY <1>1, <3>1
  <2>2. CASE c \in ToReceive(r) /\ ToReceive(r)' = ToReceive(r) \ {c} /\ ToSend(r)' = ToSend(r)
    <3>1. y > 0 /\ Cardinality(ToReceive(r)') = y - 1 /\ Cardinality(ToSend(r)') = x
      BY <2>2, CountsAre, Counting
    <3> HIDE DEF x, y, n
    <3>2. QED
      BY <1>1, <3>1
  <2>3. QED
    BY <2>1, <2>2
<1>3. n \in Nat /\ n - 1 \in Nat
  <2> HIDE DEF x, y, n
  <2> QED
    BY <1>1, <1>2
<1>4. r \notin entered /\ released = {}
  BY <1>2 DEF BarrierInv
<1>5. \A s \in Rank : countdown'[s] = IF s = r THEN n - 1 ELSE countdown[s]
  BY DEF Decrement, TypeOK
<1>6. released' = released /\ entered' = IF n = 1 THEN entered \cup {r} ELSE entered
  BY DEF Decrement, Barrier!Enter, barrier
<1>7. countdown' \in [Rank -> Nat]
  BY <1>3 DEF Decrement, TypeOK
<1>8. entered' \subseteq Rank /\ released' \subseteq Rank
  BY <1>6 DEF TypeOK
<1>9. \A s \in Rank : countdown'[s] = Cardinality(ToSend(s)') + Cardinality(ToReceive(s)')
  <2> TAKE s \in Rank
  <2>1. CASE s = r
    BY <1>2, <1>5, <2>1
  <2>2. CASE s # r
    BY <1>5, <2>2 DEF BarrierInv
  <2>3. QED
    BY <2>1, <2>2
<1> HIDE DEF n
<1>10. ASSUME NEW s \in entered' PROVE countdown'[s] = 0 /\ pc'[s] # "init"
  <2>1. CASE s = r
    <3>1. n = 1
      BY <1>4, <1>6, <2>1
    <3>2. QED
      BY <1>5, <2>1, <3>1
  <2>2. CASE s # r
    <3>1. s \in entered /\ s \in Rank
      BY <1>6, <2>2 DEF TypeOK
    <3>2. QED
      BY <1>5, <2>2, <3>1 DEF BarrierInv
  <2>3. QED
    BY <2>1, <2>2
<1>11. \A s \in Rank : pc'[s] \in {"join", "returned"} => s \in released'
  BY <1>6 DEF BarrierInv
<1>12. QED
  BY <1>4, <1>6, <1>7, <1>8, <1>9, <1>10, <1>11 DEF BarrierInv

\* A counter of an allocated line goes down by one
LEMMA CountedDown ==
  ASSUME NEW d \in LineDetails
  PROVE  /\ d.missing_input_responses > 0 =>
              LET e == [d EXCEPT !.missing_input_responses = @ - 1]
              IN /\ e \in LineDetails /\ e.missing_input_responses = d.missing_input_responses - 1
                 /\ e.missing_input_blocks = d.missing_input_blocks
                 /\ e.missing_microlines = d.missing_microlines /\ e.unsent_output_blocks = d.unsent_output_blocks
         /\ d.missing_input_blocks > 0 =>
              LET e == [d EXCEPT !.missing_input_blocks = @ - 1]
              IN /\ e \in LineDetails /\ e.missing_input_blocks = d.missing_input_blocks - 1
                 /\ e.missing_input_responses = d.missing_input_responses
                 /\ e.missing_microlines = d.missing_microlines /\ e.unsent_output_blocks = d.unsent_output_blocks
         /\ d.missing_microlines > 0 =>
              LET e == [d EXCEPT !.missing_microlines = @ - 1]
              IN /\ e \in LineDetails /\ e.missing_microlines = d.missing_microlines - 1
                 /\ e.missing_input_responses = d.missing_input_responses
                 /\ e.missing_input_blocks = d.missing_input_blocks /\ e.unsent_output_blocks = d.unsent_output_blocks
         /\ d.unsent_output_blocks > 0 =>
              LET e == [d EXCEPT !.unsent_output_blocks = @ - 1]
              IN /\ e \in LineDetails /\ e.unsent_output_blocks = d.unsent_output_blocks - 1
                 /\ e.missing_input_responses = d.missing_input_responses
                 /\ e.missing_input_blocks = d.missing_input_blocks /\ e.missing_microlines = d.missing_microlines
BY DEF LineDetails

LEMMA wakeupStep ==
  ASSUME FlowInv, UNCHANGED settings, NEW r \in Rank, wakeup(r)
  PROVE  FlowInv'
<1> USE DEF FlowInv
<1> DEFINE ready == {l \in immediates : Home(l) = r}
           sent == {c \in Contribution : c[1] \in ready}
<1>1. /\ UNCHANGED <<pc, unscheduled, free, line, filled, block_requests, absorbing, microjobs,
                     requests, responses, accumulating, accumulated, countdown, entered, released>>
      /\ immediates' = immediates \ ready /\ outputs' = outputs \cup sent /\ sends' = sends \cup sent
  BY DEF wakeup, barrier
<1>2. ready \in SUBSET Line /\ immediates \in SUBSET Line
  BY DEF TypeOK
<1>3. TypeOK'
  BY <1>1, <1>2 DEF TypeOK, settings
<1>4. RequestInv' /\ JobInv' /\ ScheduleInv' /\ MessageInv'
  BY <1>1, Primed DEF RequestInv, JobInv, ScheduleInv, MessageInv
<1>5. \A l \in Line : LineOK(l, line[l], AskedOf(block_requests[Home(l)], l), MissingOf(block_requests[Home(l)], absorbing, l),
                             microjobs[l], l \in immediates, SentOf(sends, l), filled)
  BY DEF LineInv, LinesHold
<1>6. \A l \in Line : l \in immediates =>
        /\ line[l].state = "allocated" /\ line[l].missing_microlines = 0
        /\ SentOf(sends, l) = {} /\ line[l].unsent_output_blocks = Cardinality(Outputs[l])
  BY <1>5 DEF LineOK
<1>7. \A l \in Line : l \in ready => SentOf(sends', l) = Outputs[l] /\ Outputs[l] # {}
  BY <1>1, <1>6, Contributions, Finite DEF SentOf
<1>8. \A l \in Line : l \notin ready => SentOf(sends', l) = SentOf(sends, l)
  BY <1>1 DEF SentOf
<1>9. LineInv'
  <2>1. ASSUME NEW l \in Line
        PROVE  LineOK(l, line[l], AskedOf(block_requests[Home(l)], l), MissingOf(block_requests[Home(l)], absorbing, l),
                      microjobs[l], l \in immediates', SentOf(sends', l), filled)
    <3>1. CASE l \in ready
      <4>1. l \in immediates /\ l \notin immediates'
        BY <1>1, <3>1
      <4> HIDE DEF ready
      <4>2. QED
        BY <1>5, <1>6, <1>7, <3>1, <4>1 DEF LineOK
    <3>2. CASE l \notin ready
      <4>1. SentOf(sends', l) = SentOf(sends, l)
        BY <1>8, <3>2
      <4>2. (l \in immediates') = (l \in immediates)
        BY <1>1, <3>2
      <4> HIDE DEF ready
      <4>3. QED
        BY <1>5, <4>1, <4>2
    <3>3. QED
      BY <3>1, <3>2
  <2>2. LinesHold(line', block_requests', absorbing', microjobs', immediates', sends', filled')
    BY <1>1, <2>1 DEF LinesHold
  <2>3. QED
    BY <2>2, Primed
<1>10. \A l \in Line : /\ l \in ready => ~Issued(l) /\ Issued(l)'
                       /\ l \notin ready => (Issued(l)' <=> Issued(l))
  BY <1>1, <1>6 DEF Issued, IssuedAs
<1>11. \A s \in Rank : ToSend(s)' = ToSend(s) /\ ToReceive(s)' = ToReceive(s)
  <2> HIDE DEF ready
  <2> QED
    BY <1>1, <1>10, Contributions DEF ToSend, ToReceive
<1>12. BarrierInv' /\ ResourceInv'
  BY <1>1, <1>11, BarrierKeeps, ResourceKeeps DEF TypeOK
<1>13. ResultInv'
  <2> HIDE DEF ready
  <2>1. outputs \cup accumulating \subseteq Contribution
    BY DEF TypeOK
  <2>2. \A c \in outputs \cup accumulating : c[1] \in Line /\ c[1] \notin ready
    BY <1>10, <2>1, Contributions DEF ResultInv
  <2>3. \A c \in outputs' \cup accumulating' : Issued(c[1])'
    BY <1>1, <1>10, <2>2, Contributions DEF ResultInv
  <2>4. outputs' \cap accumulating' = {}
    BY <1>1, <2>2 DEF ResultInv
  <2>5. ASSUME NEW c \in Contribution
        PROVE  accumulated'[c] = IF Issued(c[1])' /\ c \notin outputs' \cup accumulating' THEN 1 ELSE 0
    <3>1. CASE c[1] \in ready
      BY <1>1, <1>10, <3>1, Contributions DEF ResultInv
    <3>2. CASE c[1] \notin ready
      BY <1>1, <1>10, <3>2, Contributions DEF ResultInv
    <3>3. QED
      BY <3>1, <3>2
  <2>6. QED
    BY <1>1, <2>3, <2>4, <2>5 DEF ResultInv
<1>14. QED
  BY <1>3, <1>4, <1>9, <1>12, <1>13

LEMMA process_outputStep ==
  ASSUME FlowInv, UNCHANGED settings, NEW r \in Rank, NEW c \in outputs, process_output(r, c)
  PROVE  FlowInv'
<1> USE DEF FlowInv
<1>1. /\ UNCHANGED <<pc, unscheduled, free, line, filled, block_requests, absorbing, microjobs,
                     immediates, requests, responses, sends, accumulated>>
      /\ pc[r] = "loop" /\ ContributionOwner[c] = r /\ Decrement(r)
      /\ outputs' = outputs \ {c} /\ accumulating' = accumulating \cup {c}
  BY DEF process_output
<1>2. c \in Contribution /\ outputs \cup accumulating \subseteq Contribution
  BY DEF TypeOK
<1>3. \A l \in Line : Issued(l)' <=> Issued(l)
  BY <1>1, SameIssued
<1>4. /\ c \in ToReceive(r) /\ ToReceive(r)' = ToReceive(r) \ {c}
      /\ ToSend(r)' = ToSend(r)
      /\ \A s \in Rank : s # r => ToSend(s)' = ToSend(s) /\ ToReceive(s)' = ToReceive(s)
  BY <1>1, <1>2, <1>3, Contributions DEF ToSend, ToReceive, ResultInv
<1>5. BarrierInv' /\ countdown' \in [Rank -> Nat] /\ entered' \subseteq Rank /\ released' \subseteq Rank
  BY <1>1, <1>4, DecrementKeeps
<1>6. TypeOK'
  BY <1>1, <1>2, <1>5 DEF TypeOK, settings
<1>7. RequestInv' /\ JobInv' /\ LineInv' /\ ScheduleInv' /\ MessageInv'
  BY <1>1, Primed DEF RequestInv, JobInv, LineInv, ScheduleInv, MessageInv
<1>8. ResourceInv'
  BY <1>1, ResourceKeeps
<1>9. ResultInv'
  BY <1>1, <1>2, <1>3, Contributions DEF ResultInv
<1>10. QED
  BY <1>5, <1>6, <1>7, <1>8, <1>9

LEMMA accumulateStep ==
  ASSUME FlowInv, UNCHANGED settings, NEW c \in accumulating, accumulate(c)
  PROVE  FlowInv'
<1> USE DEF FlowInv
<1>1. /\ UNCHANGED <<pc, unscheduled, free, line, filled, block_requests, absorbing, microjobs,
                     immediates, requests, responses, outputs, sends, countdown, entered, released>>
      /\ accumulating' = accumulating \ {c} /\ accumulated' = [accumulated EXCEPT ![c] = @ + 1]
  BY DEF accumulate, comm, barrier
<1>2. c \in Contribution /\ outputs \cup accumulating \subseteq Contribution /\ accumulated \in [Contribution -> Nat]
  BY DEF TypeOK
<1>3. \A l \in Line : Issued(l)' <=> Issued(l)
  BY <1>1, SameIssued
<1>4. Issued(c[1]) /\ c \notin outputs /\ accumulated[c] = 0
  BY <1>2 DEF ResultInv
<1>5. accumulated' \in [Contribution -> Nat] /\ \A d \in Contribution : accumulated'[d] = IF d = c THEN 1 ELSE accumulated[d]
  BY <1>1, <1>2, <1>4
<1>6. TypeOK'
  BY <1>1, <1>5 DEF TypeOK, settings
<1>7. RequestInv' /\ JobInv' /\ LineInv' /\ ScheduleInv' /\ MessageInv'
  BY <1>1, Primed DEF RequestInv, JobInv, LineInv, ScheduleInv, MessageInv
<1>8. \A s : ToSend(s)' = ToSend(s) /\ ToReceive(s)' = ToReceive(s)
  BY <1>1, <1>3, SameCounts
<1>9. BarrierInv' /\ ResourceInv'
  BY <1>1, <1>8, BarrierKeeps, ResourceKeeps DEF TypeOK
<1>10. ResultInv'
  BY <1>1, <1>2, <1>3, <1>4, <1>5, Contributions DEF ResultInv
<1>11. QED
  BY <1>6, <1>7, <1>9, <1>10

LEMMA compute_microlineStep ==
  ASSUME FlowInv, UNCHANGED settings, NEW l \in Line, compute_microline(l)
  PROVE  FlowInv'
<1> USE DEF FlowInv
<1> DEFINE d == line[l]
           e == [d EXCEPT !.missing_microlines = @ - 1]
           n == d.missing_microlines
           m == microjobs[l]
<1>1. /\ UNCHANGED <<pc, unscheduled, free, filled, block_requests, absorbing, requests, responses, outputs, sends,
                     accumulating, accumulated, countdown, entered, released>>
      /\ m > 0 /\ microjobs' = [microjobs EXCEPT ![l] = m - 1]
      /\ line' = [line EXCEPT ![l] = e]
      /\ immediates' = IF n = 1 THEN immediates \cup {l} ELSE immediates
  BY DEF compute_microline, comm, barrier
<1>2. /\ line \in [Line -> LineState] /\ microjobs \in [Line -> Nat] /\ immediates \in SUBSET Line
  BY Types DEF TypeOK
<1>3. \A k \in Line : LineOK(k, line[k], AskedOf(block_requests[Home(k)], k), MissingOf(block_requests[Home(k)], absorbing, k),
                             microjobs[k], k \in immediates, SentOf(sends, k), filled)
  BY DEF LineInv, LinesHold
<1> DEFINE A == AskedOf(block_requests[Home(l)], l)
           M == MissingOf(block_requests[Home(l)], absorbing, l)
<1>4. LineOK(l, d, A, M, m, l \in immediates, SentOf(sends, l), filled)
  BY <1>3
<1> HIDE DEF A, M
<1>5. d.state = "allocated"
  BY <1>1, <1>4 DEF LineOK
<1>6. d \in LineDetails
  BY <1>2, <1>5, NoLine
<1>7. /\ n \in Nat /\ d.missing_input_blocks \in Nat /\ m \in Nat
  BY <1>2, <1>6 DEF LineDetails
<1> HIDE DEF n, m
<1>8. /\ d.missing_input_blocks = 0 /\ m = n /\ n > 0 /\ l \notin immediates
      /\ SentOf(sends, l) = {} /\ d.unsent_output_blocks = Cardinality(Outputs[l])
  <2>1. d.missing_input_blocks = 0
    BY <1>1, <1>4, <1>5, <1>7 DEF LineOK
  <2>2. m = n
    BY <1>4, <1>5, <2>1 DEF LineOK, n
  <2>3. n > 0
    BY <1>1, <2>2
  <2>4. n # 0
    BY <1>7, <2>3
  <2>5. l \notin immediates
    BY <1>4, <1>5, <2>4 DEF LineOK, n
  <2>6. SentOf(sends, l) = {} /\ d.unsent_output_blocks = Cardinality(Outputs[l])
    BY <1>4, <1>5, <2>3 DEF LineOK, n
  <2>7. QED
    BY <2>1, <2>2, <2>3, <2>5, <2>6
<1>9. /\ e \in LineDetails /\ e.missing_microlines = n - 1
      /\ e.missing_input_responses = d.missing_input_responses
      /\ e.missing_input_blocks = d.missing_input_blocks /\ e.unsent_output_blocks = d.unsent_output_blocks
  BY <1>6, <1>8, CountedDown DEF n
<1>10. e.state = "allocated" /\ e # Unallocated
  BY <1>9, NoLine
<1> HIDE DEF d, e
<1>11. \A k \in Line : /\ line'[k] = IF k = l THEN e ELSE line[k]
                       /\ microjobs'[k] = IF k = l THEN m - 1 ELSE microjobs[k]
                       /\ k # l => (k \in immediates' <=> k \in immediates)
  BY <1>1, <1>2
<1>12. line' \in [Line -> LineState] /\ microjobs' \in [Line -> Nat] /\ immediates' \in SUBSET Line
  <2>1. e \in LineState
    BY <1>9 DEF LineState
  <2>2. m - 1 \in Nat
    BY <1>1, <1>7
  <2>3. QED
    BY <1>1, <1>2, <2>1, <2>2
<1>13. TypeOK'
  BY <1>1, <1>12 DEF TypeOK, settings, LineState
<1>14. \A k \in Line : line'[k] # Unallocated <=> line[k] # Unallocated
  BY <1>5, <1>10, <1>11, NoLine DEF d
<1>15. RequestInv' /\ JobInv' /\ ScheduleInv' /\ MessageInv'
  <2>1. RequestsHold(block_requests, line', absorbing, pc)
    <3>1. \A q, s : Range(q.lines) \subseteq Line /\ Serves(q, s, line) => Serves(q, s, line')
      BY <1>14 DEF Serves
    <3>2. \A s \in Rank : \A q \in block_requests[s] : Range(q.lines) \subseteq Line
      BY Types, RequestFields
    <3>3. QED
      BY <3>1, <3>2 DEF RequestInv, RequestsHold, RequestsOK
  <2>2. JobsOK(absorbing, line', filled)
    <3>1. \A q, s : Range(q.lines) \subseteq Line /\ Serves(q, s, line) => Serves(q, s, line')
      BY <1>14 DEF Serves
    <3>2. \A q \in absorbing : Range(q.lines) \subseteq Line
      BY Types, RangeIn DEF Job
    <3>3. QED
      BY <3>1, <3>2 DEF JobInv, JobsOK
  <2>3. ScheduleOK(unscheduled, line')
    BY <1>14 DEF ScheduleInv, ScheduleOK
  <2>4. QED
    BY <1>1, <2>1, <2>2, <2>3, Primed DEF MessageInv
<1>16. LineInv'
  <2>1. LineOK(l, e, A, M, m - 1, l \in immediates', SentOf(sends, l), filled)
    <3>1. CASE n = 1
      <4>1. l \in immediates' /\ m - 1 = 0 /\ e.missing_microlines = 0
        BY <1>1, <1>8, <1>9, <3>1
      <4>2. QED
        BY <1>4, <1>5, <1>8, <1>9, <1>10, <4>1 DEF LineOK
    <3>2. CASE n # 1
      <4>1. l \notin immediates' /\ m - 1 = n - 1 /\ n - 1 > 0 /\ n - 1 # 0
        BY <1>1, <1>7, <1>8, <3>2
      <4>2. QED
        BY <1>4, <1>5, <1>8, <1>9, <1>10, <4>1 DEF LineOK
    <3>3. QED
      BY <3>1, <3>2
  <2>2. \A k \in Line : LineOK(k, line'[k], AskedOf(block_requests[Home(k)], k), MissingOf(block_requests[Home(k)], absorbing, k),
                               microjobs'[k], k \in immediates', SentOf(sends, k), filled)
    <3> TAKE k \in Line
    <3>1. CASE k = l
      BY <1>11, <2>1, <3>1 DEF A, M
    <3>2. CASE k # l
      <4>1. (k \in immediates') = (k \in immediates) /\ line'[k] = line[k] /\ microjobs'[k] = microjobs[k]
        BY <1>11, <3>2
      <4>2. QED
        BY <1>3, <4>1
    <3>3. QED
      BY <3>1, <3>2
  <2>3. LinesHold(line', block_requests', absorbing', microjobs', immediates', sends', filled')
    BY <1>1, <2>2 DEF LinesHold
  <2>4. QED
    BY <2>3, Primed
<1>17. \A k \in Line : Issued(k)' <=> Issued(k)
  <2> TAKE k \in Line
  <2>1. CASE k = l
    <3>1. ~Issued(l)
      BY <1>5, <1>7, <1>8 DEF Issued, IssuedAs, d, n
    <3>2. ~Issued(l)'
      <4>1. CASE n = 1
        BY <1>1, <1>10, <1>11, <4>1 DEF Issued, IssuedAs
      <4>2. CASE n # 1
        <5>1. e.missing_microlines # 0
          BY <1>7, <1>8, <1>9, <4>2
        <5>2. QED
          BY <1>10, <1>11, <5>1 DEF Issued, IssuedAs
      <4>3. QED
        BY <4>1, <4>2
    <3>3. QED
      BY <2>1, <3>1, <3>2
  <2>2. CASE k # l
    BY <1>11, <2>2 DEF Issued, IssuedAs
  <2>3. QED
    BY <2>1, <2>2
<1>18. BarrierInv' /\ ResultInv'
  BY <1>1, <1>17, SameCounts, BarrierKeeps, ResultKeeps DEF TypeOK
<1>19. ResourceInv'
  BY <1>1, <1>5, <1>9, <1>10, <1>11, ResourceKeeps DEF d
<1>20. QED
  BY <1>13, <1>15, <1>16, <1>18, <1>19

-----------------------------------------------------------------------------
(***************************************************************************)
(* absorb_response.                                                        *)
(***************************************************************************)
LEMMA SameLines ==
  ASSUME \A k \in Line : line'[k] = Unallocated <=> line[k] = Unallocated, TypeOK
  PROVE  /\ \A jobs, full : jobs \in SUBSET Job /\ JobsOK(jobs, line, full) => JobsOK(jobs, line', full)
         /\ \A jobs, at : RequestsHold(block_requests, line, jobs, at) => RequestsHold(block_requests, line', jobs, at)
         /\ \A us : ScheduleOK(us, line) => ScheduleOK(us, line')
<1>1. \A q, s : Range(q.lines) \subseteq Line /\ Serves(q, s, line) => Serves(q, s, line')
  BY DEF Serves
<1>2. ASSUME NEW jobs \in SUBSET Job, NEW full, JobsOK(jobs, line, full) PROVE JobsOK(jobs, line', full)
  <2>1. \A a \in jobs : Range(a.lines) \subseteq Line
    BY RangeIn DEF Job
  <2>2. QED
    BY <1>1, <1>2, <2>1 DEF JobsOK
<1>3. ASSUME NEW jobs, NEW at, RequestsHold(block_requests, line, jobs, at)
      PROVE  RequestsHold(block_requests, line', jobs, at)
  <2>1. \A s \in Rank : \A q \in block_requests[s] : Range(q.lines) \subseteq Line
    BY Types, RequestFields
  <2>2. QED
    BY <1>1, <1>3, <2>1 DEF RequestsHold, RequestsOK
<1>4. \A us : ScheduleOK(us, line) => ScheduleOK(us, line')
  BY DEF ScheduleOK
<1>5. QED
  BY <1>2, <1>3, <1>4

\* A job serves each of its lines at one place, and no other job serves it there
LEMMA JobFields ==
  ASSUME TypeOK, JobInv, NEW a \in absorbing
  PROVE  /\ a.block \in InBlock /\ a.lines \in Seq(Line) /\ a.next \in Nat
         /\ Len(a.lines) \in Nat /\ Len(a.lines) > 0 /\ IsInjective(a.lines)
         /\ a.next \in 1 .. Len(a.lines) + 1
         /\ Head(a.lines) = a.lines[1]
         /\ \A i \in 1 .. Len(a.lines) : a.lines[i] \in Line /\ a.lines[i] \in Range(a.lines)
         /\ \A i, j \in 1 .. Len(a.lines) : a.lines[i] = a.lines[j] => i = j
         /\ \E r \in Rank : Serves(a, r, line)
         /\ \A b \in absorbing : \A l : b.block = a.block /\ l \in Range(b.lines) /\ l \in Range(a.lines) => b = a
<1>1. a \in Job
  BY Types
<1>2. a.block \in InBlock /\ a.lines \in Seq(Line) /\ a.next \in Nat
  BY <1>1 DEF Job
<1>3. (\E r \in Rank : Serves(a, r, line)) /\ a.next \in 1 .. Len(a.lines) + 1
  BY DEF JobInv, JobsOK
<1>4. Len(a.lines) > 0 /\ IsInjective(a.lines)
  BY <1>3 DEF Serves
<1>5. DOMAIN a.lines = 1 .. Len(a.lines) /\ Len(a.lines) \in Nat /\ Head(a.lines) = a.lines[1]
  BY <1>2, <1>4, HeadTailProperties
<1>6. \A i \in 1 .. Len(a.lines) : a.lines[i] \in Line /\ a.lines[i] \in Range(a.lines)
  BY <1>2, <1>5, ElementOfSeq DEF Range
<1>7. \A i, j \in 1 .. Len(a.lines) : a.lines[i] = a.lines[j] => i = j
  BY <1>4, <1>5 DEF IsInjective
<1>8. \A b \in absorbing : \A l : b.block = a.block /\ l \in Range(b.lines) /\ l \in Range(a.lines) => b = a
  BY DEF JobInv, JobsOK
<1>9. QED
  BY <1>2, <1>3, <1>4, <1>5, <1>6, <1>7, <1>8

LEMMA JobAdvances ==
  ASSUME TypeOK, JobInv, NEW a \in absorbing, a.next <= Len(a.lines),
         NEW full, filled \subseteq full, <<Head(a.lines), a.block>> \in full
  PROVE  /\ Advance(a) \in SUBSET Job
         /\ JobsOK(Advance(a), line, full)
         /\ \A qs : Apart(qs, absorbing) => Apart(qs, Advance(a))
         /\ \A l, b : Absorbs(Advance(a), l, b)
                        <=> Absorbs(absorbing, l, b) /\ ~(a.next > 1 /\ l = a.lines[a.next] /\ b = a.block)
<1> DEFINE n == a.next
           e == [a EXCEPT !.next = @ + 1]
           s == a.lines
           N == Len(s)
<1>1. /\ a.block \in InBlock /\ s \in Seq(Line) /\ n \in Nat /\ N \in Nat /\ N > 0 /\ n \in 1 .. N + 1
      /\ \A i \in 1 .. N : s[i] \in Line /\ s[i] \in Range(s)
      /\ \A i, j \in 1 .. N : s[i] = s[j] => i = j
      /\ \E r \in Rank : Serves(a, r, line)
      /\ \A b \in absorbing : \A l : b.block = a.block /\ l \in Range(b.lines) /\ l \in Range(s) => b = a
  BY JobFields
<1>2. a \in Job /\ absorbing \in SUBSET Job
  BY Types
<1>3. e \in Job /\ e.block = a.block /\ e.lines = s /\ e.next = n + 1
  BY <1>2 DEF Job
<1>4. \A j : j \in Advance(a) <=> (j \in absorbing /\ j # a) \/ j = e
  BY DEF Advance
<1> HIDE DEF e
<1>5. Advance(a) \in SUBSET Job
  BY <1>2, <1>3, <1>4
<1>6. \A j \in Advance(a) : \E k \in absorbing : j.block = k.block /\ j.lines = k.lines /\ (j = e => k = a) /\ (j # e => k = j)
  BY <1>3, <1>4
<1>7. JobsOK(Advance(a), line, full)
  <2>1. \A j \in Advance(a) : \E r \in Rank : Serves(j, r, line)
    BY <1>6 DEF JobInv, JobsOK, Serves
  <2>2. e.next \in 1 .. Len(e.lines) + 1
    <3> HIDE DEF n, N
    <3>1. n + 1 \in 1 .. N + 1
      BY <1>1 DEF n, N
    <3>2. QED
      BY <1>3, <3>1 DEF N
  <2>3. \A j \in Advance(a) : j.next \in 1 .. Len(j.lines) + 1
    BY <1>4, <2>2 DEF JobInv, JobsOK
  <2>4. \A j \in Advance(a) : j.next > 1 => <<Head(j.lines), j.block>> \in full
    BY <1>3, <1>4 DEF JobInv, JobsOK
  <2>5. ASSUME NEW j \in Advance(a), NEW k \in Advance(a), j.block = k.block, Range(j.lines) \cap Range(k.lines) # {}
        PROVE  j = k
    <3>1. PICK u \in absorbing : j.block = u.block /\ j.lines = u.lines /\ (j = e => u = a) /\ (j # e => u = j)
      BY <1>6
    <3>2. PICK v \in absorbing : k.block = v.block /\ k.lines = v.lines /\ (k = e => v = a) /\ (k # e => v = k)
      BY <1>6
    <3>3. u = v
      BY <2>5, <3>1, <3>2 DEF JobInv, JobsOK
    <3>4. (u = a => j = e) /\ (v = a => k = e)
      BY <1>4, <3>1, <3>2
    <3>5. QED
      BY <3>1, <3>2, <3>3, <3>4
  <2>6. QED
    BY <2>1, <2>3, <2>4, <2>5 DEF JobsOK
<1>8. \A qs : Apart(qs, absorbing) => Apart(qs, Advance(a))
  BY <1>6 DEF Apart
<1>9. ASSUME NEW l, NEW b
      PROVE  Absorbs(Advance(a), l, b) <=> Absorbs(absorbing, l, b) /\ ~(n > 1 /\ l = s[n] /\ b = a.block)
  <2>1. ASSUME Absorbs(Advance(a), l, b)
        PROVE  Absorbs(absorbing, l, b) /\ ~(n > 1 /\ l = s[n] /\ b = a.block)
    <3>1. PICK j \in Advance(a) : /\ j.block = b
                                  /\ \E i \in 1 .. Len(j.lines) : j.lines[i] = l /\ (i = 1 \/ i >= j.next)
      BY <2>1 DEF Absorbs
    <3>2. PICK i \in 1 .. Len(j.lines) : j.lines[i] = l /\ (i = 1 \/ i >= j.next)
      BY <3>1
    <3>3. CASE j = e
      <4>1. b = a.block /\ i \in 1 .. N /\ s[i] = l /\ (i = 1 \/ i >= n + 1)
        BY <1>3, <3>1, <3>2, <3>3
      <4>2. i = 1 \/ i >= n
        BY <1>1, <4>1
      <4>3. Absorbs(absorbing, l, b)
        BY <4>1, <4>2 DEF Absorbs
      <4>4. ~(n > 1 /\ l = s[n])
        <5> SUFFICES ASSUME n > 1, l = s[n] PROVE FALSE
          OBVIOUS
        <5>1. n \in 1 .. N
          BY <1>1
        <5>2. n = i
          BY <1>1, <4>1, <5>1
        <5>3. QED
          BY <1>1, <4>1, <5>2
      <4>5. QED
        BY <4>3, <4>4
    <3>4. CASE j # e
      <4>1. j \in absorbing /\ j # a
        BY <1>4, <3>4
      <4>2. Absorbs(absorbing, l, b)
        BY <3>1, <4>1 DEF Absorbs
      <4>3. l \in Range(j.lines)
        BY <3>2, <4>1, JobFields
      <4>4. ~(n > 1 /\ l = s[n] /\ b = a.block)
        <5> SUFFICES ASSUME n > 1, l = s[n], b = a.block PROVE FALSE
          OBVIOUS
        <5>1. n \in 1 .. N
          BY <1>1
        <5>2. l \in Range(s)
          BY <1>1, <5>1
        <5>3. QED
          BY <1>1, <3>1, <4>1, <4>3, <5>2
      <4>5. QED
        BY <4>2, <4>4
    <3>5. QED
      BY <3>3, <3>4
  <2>2. ASSUME Absorbs(absorbing, l, b), ~(n > 1 /\ l = s[n] /\ b = a.block)
        PROVE  Absorbs(Advance(a), l, b)
    <3>1. PICK j \in absorbing : /\ j.block = b
                                 /\ \E i \in 1 .. Len(j.lines) : j.lines[i] = l /\ (i = 1 \/ i >= j.next)
      BY <2>2 DEF Absorbs
    <3>2. CASE j # a
      BY <1>4, <3>1, <3>2 DEF Absorbs
    <3>3. CASE j = a
      <4>1. PICK i \in 1 .. N : s[i] = l /\ (i = 1 \/ i >= n)
        BY <3>1, <3>3
      <4>2. b = a.block
        BY <3>1, <3>3
      <4>3. i # n \/ i = 1
        BY <1>1, <2>2, <4>1, <4>2
      <4>4. i = 1 \/ i >= n + 1
        BY <1>1, <4>1, <4>3
      <4>5. e \in Advance(a) /\ e.block = b /\ i \in 1 .. Len(e.lines) /\ e.lines[i] = l /\ (i = 1 \/ i >= e.next)
        BY <1>3, <1>4, <4>1, <4>2, <4>4
      <4>6. QED
        BY <4>5 DEF Absorbs
    <3>4. QED
      BY <3>2, <3>3
  <2>3. QED
    BY <2>1, <2>2
<1>10. QED
  BY <1>5, <1>7, <1>8, <1>9

LEMMA JobEnds ==
  ASSUME TypeOK, JobInv, NEW a \in absorbing, a.next = Len(a.lines) + 1
  PROVE  /\ JobsOK(absorbing \ {a}, line, filled)
         /\ \A qs : Apart(qs, absorbing) => Apart(qs, absorbing \ {a})
         /\ \A l, b : Absorbs(absorbing \ {a}, l, b)
                        <=> Absorbs(absorbing, l, b) /\ ~(l = Head(a.lines) /\ b = a.block)
<1>1. JobsOK(absorbing \ {a}, line, filled)
  BY DEF JobInv, JobsOK
<1>2. \A qs : Apart(qs, absorbing) => Apart(qs, absorbing \ {a})
  BY DEF Apart
<1>3. ASSUME NEW l, NEW b
      PROVE  Absorbs(absorbing \ {a}, l, b) <=> Absorbs(absorbing, l, b) /\ ~(l = Head(a.lines) /\ b = a.block)
  <2>1. ASSUME Absorbs(absorbing \ {a}, l, b)
        PROVE  Absorbs(absorbing, l, b) /\ ~(l = Head(a.lines) /\ b = a.block)
    <3>1. PICK j \in absorbing \ {a} : /\ j.block = b
                                       /\ \E i \in 1 .. Len(j.lines) : j.lines[i] = l /\ (i = 1 \/ i >= j.next)
      BY <2>1 DEF Absorbs
    <3>2. Absorbs(absorbing, l, b)
      BY <3>1 DEF Absorbs
    <3>3. l \in Range(j.lines)
      BY <3>1, JobFields
    <3>4. Head(a.lines) \in Range(a.lines)
      BY JobFields
    <3>5. ~(l = Head(a.lines) /\ b = a.block)
      BY <3>1, <3>3, <3>4, JobFields
    <3>6. QED
      BY <3>2, <3>5
  <2>2. ASSUME Absorbs(absorbing, l, b), ~(l = Head(a.lines) /\ b = a.block)
        PROVE  Absorbs(absorbing \ {a}, l, b)
    <3>1. PICK j \in absorbing : /\ j.block = b
                                 /\ \E i \in 1 .. Len(j.lines) : j.lines[i] = l /\ (i = 1 \/ i >= j.next)
      BY <2>2 DEF Absorbs
    <3>2. j # a
      <4> SUFFICES ASSUME j = a PROVE FALSE
        OBVIOUS
      <4>1. PICK i \in 1 .. Len(a.lines) : a.lines[i] = l /\ (i = 1 \/ i >= a.next)
        BY <3>1
      <4>2. Len(a.lines) \in Nat /\ Head(a.lines) = a.lines[1]
        BY JobFields
      <4>3. i = 1
        BY <4>1, <4>2
      <4>4. QED
        BY <2>2, <3>1, <4>1, <4>2, <4>3
    <3>3. QED
      BY <3>1, <3>2 DEF Absorbs
  <2>3. QED
    BY <2>1, <2>2
<1>4. QED
  BY <1>1, <1>2, <1>3

\* b is in place for l, and counted: the last one starts the microlines
LEMMA BlockPlaced ==
  ASSUME FlowInv, UNCHANGED settings, NEW l \in Line, NEW b \in InBlock, BlockInPlace(l),
         UNCHANGED <<pc, unscheduled, free, block_requests, immediates, requests, responses, outputs, sends,
                     accumulating, accumulated, countdown, entered, released>>,
         absorbing' \in SUBSET Job, JobsOK(absorbing', line, filled'),
         \A qs : Apart(qs, absorbing) => Apart(qs, absorbing'),
         Absorbs(absorbing, l, b), ~Asks(block_requests[Home(l)], l, b),
         \A k, c : Absorbs(absorbing', k, c) <=> Absorbs(absorbing, k, c) /\ ~(k = l /\ c = b),
         filled \subseteq filled', filled' \subseteq Line \X InBlock, <<l, b>> \in filled'
  PROVE  FlowInv'
<1> USE DEF FlowInv
<1> DEFINE d == line[l]
           e == [d EXCEPT !.missing_input_blocks = @ - 1]
           n == d.missing_input_blocks
           A == AskedOf(block_requests[Home(l)], l)
           M == MissingOf(block_requests[Home(l)], absorbing, l)
           P == MissingOf(block_requests[Home(l)], absorbing', l)
<1>1. /\ line' = [line EXCEPT ![l] = e]
      /\ microjobs' = IF n = 1 THEN [microjobs EXCEPT ![l] = Microlines[l]] ELSE microjobs
  BY DEF BlockInPlace
<1>2. line \in [Line -> LineState] /\ microjobs \in [Line -> Nat]
  BY Types
<1>3. \A k \in Line : LineOK(k, line[k], AskedOf(block_requests[Home(k)], k), MissingOf(block_requests[Home(k)], absorbing, k),
                             microjobs[k], k \in immediates, SentOf(sends, k), filled)
  BY DEF LineInv, LinesHold
<1>4. b \in M /\ P = M \ {b} /\ IsFiniteSet(M)
  BY Finite DEF MissingOf
<1>5. LineOK(l, d, A, M, microjobs[l], l \in immediates, SentOf(sends, l), filled)
  BY <1>3
<1>6. Microlines[l] \in Nat /\ Microlines[l] > 0
  BY Finite
<1> HIDE DEF A, M, P
<1>7. d.state = "allocated"
  BY <1>4, <1>5 DEF LineOK
<1>8. d \in LineDetails
  BY <1>2, <1>7, NoLine
<1>9. n = Cardinality(M) /\ n \in Nat /\ n > 0 /\ n - 1 = Cardinality(P)
  BY <1>4, <1>5, <1>7, Counting DEF LineOK
<1>10. /\ e \in LineDetails /\ e.missing_input_blocks = n - 1
       /\ e.missing_input_responses = d.missing_input_responses
       /\ e.missing_microlines = d.missing_microlines /\ e.unsent_output_blocks = d.unsent_output_blocks
  BY <1>8, <1>9, CountedDown
<1>11. e.state = "allocated" /\ e # Unallocated /\ d # Unallocated
  BY <1>8, <1>10, NoLine
<1>12. /\ microjobs[l] = 0 /\ d.missing_microlines = Microlines[l] /\ l \notin immediates
  <2>1. microjobs[l] = 0 /\ d.missing_microlines = Microlines[l]
    BY <1>5, <1>7, <1>9 DEF LineOK
  <2>2. d.missing_microlines # 0
    BY <1>6, <2>1
  <2>3. l \notin immediates
    BY <1>5, <1>7, <2>2 DEF LineOK
  <2>4. QED
    BY <2>1, <2>3
<1> HIDE DEF d, e, n
<1>13. \A k \in Line : /\ line'[k] = IF k = l THEN e ELSE line[k]
                       /\ microjobs'[k] = IF k = l THEN IF n = 1 THEN Microlines[l] ELSE 0 ELSE microjobs[k]
  BY <1>1, <1>2, <1>12
<1>14. line' \in [Line -> LineState] /\ microjobs' \in [Line -> Nat]
  <2>1. e \in LineState
    BY <1>10 DEF LineState
  <2>2. QED
    BY <1>1, <1>2, <1>6, <2>1
<1>15. TypeOK'
  BY <1>14 DEF TypeOK, settings, LineState, Job
<1>16. \A k \in Line : line'[k] = Unallocated <=> line[k] = Unallocated
  BY <1>11, <1>13 DEF d
<1>17. RequestInv' /\ JobInv' /\ ScheduleInv' /\ MessageInv'
  <2>1. RequestsHold(block_requests, line, absorbing', pc)
    BY DEF RequestInv, RequestsHold
  <2>2. RequestsHold(block_requests, line', absorbing', pc)
    BY <1>16, <2>1, SameLines
  <2>3. JobsOK(absorbing', line', filled')
    BY <1>16, SameLines
  <2>4. ScheduleOK(unscheduled, line')
    BY <1>16, SameLines DEF ScheduleInv
  <2>5. QED
    BY <2>2, <2>3, <2>4, Primed DEF MessageInv
<1>18. LineInv'
  <2>1. \A c \in InputsOf(l) : c \in P \/ <<l, c>> \in filled'
    BY <1>4, <1>5, <1>7 DEF LineOK
  <2>2. n - 1 = 0 <=> n = 1
    BY <1>9
  <2>3. LineOK(l, e, A, P, microjobs'[l], l \in immediates, SentOf(sends, l), filled')
    <3>1. CASE n = 1
      <4>1. microjobs'[l] = Microlines[l] /\ e.missing_input_blocks = 0 /\ e.missing_input_blocks = Cardinality(P)
        BY <1>9, <1>10, <1>13, <3>1
      <4>2. QED
        BY <1>5, <1>6, <1>7, <1>10, <1>11, <1>12, <2>1, <4>1 DEF LineOK
    <3>2. CASE n # 1
      <4>1. /\ microjobs'[l] = 0 /\ e.missing_input_blocks # 0 /\ e.missing_input_blocks > 0
            /\ e.missing_input_blocks = Cardinality(P)
        BY <1>9, <1>10, <1>13, <3>2
      <4>2. QED
        BY <1>5, <1>6, <1>7, <1>10, <1>11, <1>12, <2>1, <4>1 DEF LineOK
    <3>3. QED
      BY <3>1, <3>2
  <2>4. \A k \in Line : LineOK(k, line'[k], AskedOf(block_requests[Home(k)], k), MissingOf(block_requests[Home(k)], absorbing', k),
                               microjobs'[k], k \in immediates, SentOf(sends, k), filled')
    <3> TAKE k \in Line
    <3>1. CASE k = l
      BY <1>13, <2>3, <3>1 DEF A, P
    <3>2. CASE k # l
      <4>1. line'[k] = line[k] /\ microjobs'[k] = microjobs[k]
        BY <1>13, <3>2
      <4>2. MissingOf(block_requests[Home(k)], absorbing', k) = MissingOf(block_requests[Home(k)], absorbing, k)
        BY <3>2 DEF MissingOf
      <4>3. LineOK(k, line[k], AskedOf(block_requests[Home(k)], k), MissingOf(block_requests[Home(k)], absorbing, k),
                   microjobs[k], k \in immediates, SentOf(sends, k), filled)
        BY <1>3
      <4>4. LineOK(k, line[k], AskedOf(block_requests[Home(k)], k), MissingOf(block_requests[Home(k)], absorbing, k),
                   microjobs[k], k \in immediates, SentOf(sends, k), filled')
        BY <4>3 DEF LineOK
      <4>5. QED
        BY <4>1, <4>2, <4>4
    <3>3. QED
      BY <3>1, <3>2
  <2>5. LinesHold(line', block_requests', absorbing', microjobs', immediates', sends', filled')
    BY <2>4 DEF LinesHold
  <2>6. QED
    BY <2>5, Primed
<1>19. \A k \in Line : Issued(k)' <=> Issued(k)
  <2>1. d.missing_microlines # 0 /\ e.missing_microlines # 0
    BY <1>6, <1>10, <1>12
  <2> TAKE k \in Line
  <2>2. CASE k = l
    BY <1>7, <1>11, <1>13, <2>1, <2>2 DEF Issued, IssuedAs, d
  <2>3. CASE k # l
    BY <1>13, <2>3 DEF Issued, IssuedAs
  <2>4. QED
    BY <2>2, <2>3
<1>20. BarrierInv' /\ ResultInv'
  BY <1>19, SameCounts, BarrierKeeps, ResultKeeps DEF TypeOK
<1>21. ResourceInv'
  BY <1>7, <1>10, <1>11, <1>13, ResourceKeeps DEF d
<1>22. QED
  BY <1>15, <1>17, <1>18, <1>20, <1>21

LEMMA absorb_responseStep ==
  ASSUME FlowInv, UNCHANGED settings, NEW r \in Rank, absorb_response(r)
  PROVE  FlowInv'
<1> USE DEF FlowInv
<1>1. UNCHANGED <<pc, unscheduled, free, block_requests, immediates, requests, responses, outputs, sends,
                  accumulating, accumulated, countdown, entered, released>>
  BY DEF absorb_response, comm, barrier
<1>2. PICK a \in absorbing : Uncompress(a) \/ CopyToNext(a) \/ FinishFirst(a)
  BY DEF absorb_response
<1> DEFINE h == Head(a.lines)
<1>3. /\ a.block \in InBlock /\ a.next \in Nat /\ Len(a.lines) \in Nat /\ Len(a.lines) > 0
      /\ a.next \in 1 .. Len(a.lines) + 1 /\ h = a.lines[1]
      /\ \A i \in 1 .. Len(a.lines) : a.lines[i] \in Line /\ a.lines[i] \in Range(a.lines)
      /\ \E s \in Rank : Serves(a, s, line)
  BY JobFields
<1>4. h \in Line /\ h \in Range(a.lines)
  BY <1>3
<1> HIDE DEF h
<1>5. filled \subseteq Line \X InBlock
  BY DEF TypeOK
<1>6. \A i \in 1 .. Len(a.lines) : ~Asks(block_requests[Home(a.lines[i])], a.lines[i], a.block)
  BY <1>3, HomeIs DEF RequestInv, RequestsHold, Apart
<1>7. CASE Uncompress(a)
  <2>1. /\ a.next = 1 /\ filled' = filled \cup {<<h, a.block>>} /\ absorbing' = Advance(a)
        /\ UNCHANGED <<line, microjobs>>
    BY <1>7 DEF Uncompress, h
  <2>2. a.next <= Len(a.lines) /\ ~(a.next > 1)
    BY <1>3, <2>1
  <2>3. /\ absorbing' \in SUBSET Job /\ JobsOK(absorbing', line, filled')
        /\ \A qs : Apart(qs, absorbing) => Apart(qs, absorbing')
        /\ \A l, b : Absorbs(absorbing', l, b)
                       <=> Absorbs(absorbing, l, b) /\ ~(a.next > 1 /\ l = a.lines[a.next] /\ b = a.block)
    <3>1. filled \subseteq filled' /\ <<Head(a.lines), a.block>> \in filled'
      BY <2>1 DEF h
    <3>2. QED
      BY <2>1, <2>2, <3>1, JobAdvances
  <2>4. \A l, b : Absorbs(absorbing', l, b) <=> Absorbs(absorbing, l, b)
    BY <2>2, <2>3
  <2>5. TypeOK'
    <3>1. filled' \subseteq Line \X InBlock
      BY <1>3, <1>4, <1>5, <2>1
    <3>2. QED
      BY <1>1, <2>1, <2>3, <3>1 DEF TypeOK, settings, Job
  <2>6. RequestInv' /\ JobInv' /\ ScheduleInv' /\ MessageInv'
    <3>1. RequestsHold(block_requests, line, absorbing', pc)
      BY <2>3 DEF RequestInv, RequestsHold
    <3>2. QED
      BY <1>1, <2>1, <2>3, <3>1, Primed DEF ScheduleInv, MessageInv
  <2>7. LineInv'
    <3>1. \A qs, l : MissingOf(qs, absorbing', l) = MissingOf(qs, absorbing, l)
      BY <2>4 DEF MissingOf
    <3>2. ASSUME NEW k \in Line
          PROVE  LineOK(k, line[k], AskedOf(block_requests[Home(k)], k), MissingOf(block_requests[Home(k)], absorbing', k),
                        microjobs[k], k \in immediates, SentOf(sends, k), filled')
      <4>1. LineOK(k, line[k], AskedOf(block_requests[Home(k)], k), MissingOf(block_requests[Home(k)], absorbing, k),
                   microjobs[k], k \in immediates, SentOf(sends, k), filled)
        BY DEF LineInv, LinesHold
      <4>2. LineOK(k, line[k], AskedOf(block_requests[Home(k)], k), MissingOf(block_requests[Home(k)], absorbing, k),
                   microjobs[k], k \in immediates, SentOf(sends, k), filled')
        BY <2>1, <4>1 DEF LineOK
      <4>3. QED
        BY <3>1, <4>2
    <3>3. LinesHold(line', block_requests', absorbing', microjobs', immediates', sends', filled')
      BY <1>1, <2>1, <3>2 DEF LinesHold
    <3>4. QED
      BY <3>3, Primed
  <2>8. BarrierInv' /\ ResultInv' /\ ResourceInv'
    BY <1>1, <2>1, SameIssued, SameCounts, BarrierKeeps, ResultKeeps, ResourceKeeps DEF TypeOK
  <2>9. QED
    BY <2>5, <2>6, <2>7, <2>8
<1>8. CASE CopyToNext(a)
  <2> DEFINE n == a.next
             l == a.lines[n]
  <2>1. /\ n \in 2 .. Len(a.lines) /\ filled' = filled \cup {<<l, a.block>>} /\ absorbing' = Advance(a)
        /\ BlockInPlace(l)
    BY <1>8 DEF CopyToNext
  <2>2. n \in 1 .. Len(a.lines) /\ n <= Len(a.lines) /\ n > 1
    BY <1>3, <2>1
  <2>3. l \in Line /\ ~Asks(block_requests[Home(l)], l, a.block)
    BY <1>3, <1>6, <2>2
  <2>4. filled \subseteq filled' /\ <<l, a.block>> \in filled' /\ filled' \subseteq Line \X InBlock
    BY <1>3, <1>5, <2>1, <2>3
  <2>5. <<Head(a.lines), a.block>> \in filled'
    BY <2>2, <2>4 DEF JobInv, JobsOK
  <2>6. Absorbs(absorbing, l, a.block)
    <3>1. \E i \in 1 .. Len(a.lines) : a.lines[i] = l /\ (i = 1 \/ i >= a.next)
      BY <1>3, <2>2
    <3>2. QED
      BY <3>1 DEF Absorbs
  <2>7. /\ absorbing' \in SUBSET Job /\ JobsOK(absorbing', line, filled')
        /\ \A qs : Apart(qs, absorbing) => Apart(qs, absorbing')
        /\ \A k, c : Absorbs(absorbing', k, c)
                       <=> Absorbs(absorbing, k, c) /\ ~(a.next > 1 /\ k = a.lines[a.next] /\ c = a.block)
    BY <2>1, <2>2, <2>4, <2>5, JobAdvances
  <2>8. \A k, c : Absorbs(absorbing', k, c) <=> Absorbs(absorbing, k, c) /\ ~(k = l /\ c = a.block)
    BY <2>2, <2>7
  <2> HIDE DEF l
  <2>9. QED
    BY <1>1, <1>3, <2>1, <2>3, <2>4, <2>6, <2>7, <2>8, BlockPlaced
<1>9. CASE FinishFirst(a)
  <2>1. a.next = Len(a.lines) + 1 /\ absorbing' = absorbing \ {a} /\ BlockInPlace(h) /\ filled' = filled
    BY <1>9 DEF FinishFirst, h
  <2>2. 1 \in 1 .. Len(a.lines) /\ a.next > 1 /\ ~Asks(block_requests[Home(h)], h, a.block)
    BY <1>3, <1>6, <2>1
  <2>3. <<h, a.block>> \in filled'
    BY <2>1, <2>2 DEF JobInv, JobsOK, h
  <2>4. Absorbs(absorbing, h, a.block)
    <3>1. \E i \in 1 .. Len(a.lines) : a.lines[i] = h /\ (i = 1 \/ i >= a.next)
      BY <1>3, <2>2
    <3>2. QED
      BY <3>1 DEF Absorbs
  <2>5. /\ JobsOK(absorbing', line, filled')
        /\ \A qs : Apart(qs, absorbing) => Apart(qs, absorbing')
        /\ \A k, c : Absorbs(absorbing', k, c) <=> Absorbs(absorbing, k, c) /\ ~(k = h /\ c = a.block)
    BY <2>1, JobEnds DEF h
  <2>6. absorbing' \in SUBSET Job
    BY <2>1, Types
  <2>7. QED
    BY <1>1, <1>3, <1>4, <1>5, <2>1, <2>2, <2>3, <2>4, <2>5, <2>6, BlockPlaced
<1>10. QED
  BY <1>2, <1>7, <1>8, <1>9

-----------------------------------------------------------------------------
(***************************************************************************)
(* The actions that call schedule_lines: what the rest of the action makes *)
(* of the state satisfies the invariant, and schedule_lines keeps it.      *)
(***************************************************************************)
LEMMA ScheduleKeeps ==
  ASSUME TypeOK, UNCHANGED settings, NEW r \in Rank,
         NEW available \in Available, NEW lines \in [Line -> LineState], NEW pending \in SUBSET Request,
         schedule_lines(r, available, lines, pending), UNCHANGED <<filled, immediates>>,
         NEW qs, qs = [block_requests EXCEPT ![r] = pending],
         absorbing' \in SUBSET Job, pc'[r] # "init", requests \cup responses' \subseteq Line \X InBlock,
         JobsOK(absorbing', lines, filled), RequestsHold(qs, lines, absorbing', pc'),
         LinesHold(lines, qs, absorbing', microjobs, immediates, sends', filled),
         ScheduleOK(unscheduled, lines), MessagesHold(qs, requests, responses'),
         ResourcesOK(r, lines, available), \A s \in Rank : s # r => ResourcesOK(s, lines, free[s])
  PROVE  /\ unscheduled' \in [Rank -> Seq(Line)] /\ free' \in [Rank -> Available] /\ line' \in [Line -> LineState]
         /\ block_requests' \in [Rank -> SUBSET Request] /\ requests' \subseteq Line \X InBlock
         /\ microjobs' \in [Line -> Nat]
         /\ RequestInv' /\ JobInv' /\ LineInv' /\ ScheduleInv' /\ MessageInv' /\ ResourceInv'
         /\ \A k \in Line : Issued(k)' <=> IssuedAs(lines[k], k \in immediates)
<1>1. /\ unscheduled \in [Rank -> Seq(Line)] /\ block_requests \in [Rank -> SUBSET Request]
      /\ free \in [Rank -> Available] /\ microjobs \in [Line -> Nat] /\ merge_block_requests \in BOOLEAN
  BY Types
<1>2. \A s \in Rank : RequestsOK(s, qs[s], lines)
  BY DEF RequestsHold
<1>3. RequestsOK(r, pending, lines)
  BY <1>1, <1>2
<1>4. PICK A \in SUBSET Line : Scheduled(r, available, lines, pending, A)
  BY <1>1, <1>3, Schedules
<1>5. JobsOK(absorbing', line', filled') /\ RequestsHold(block_requests', line', absorbing', pc')
  <2>1. JobsOK(absorbing', line', filled) /\ RequestsHold(block_requests', line', absorbing', pc')
    BY <1>1, <1>4, ScheduleKeepsRequests DEF Job
  <2>2. QED
    BY <2>1
<1>6. LinesHold(line', block_requests', absorbing', microjobs', immediates', sends', filled')
  <2>1. LinesHold(line', block_requests', absorbing', microjobs', immediates, sends', filled)
    BY <1>1, <1>4, ScheduleKeepsLines
  <2>2. QED
    BY <2>1
<1>7. ScheduleOK(unscheduled', line')
  BY <1>4, ScheduleKeepsSchedule
<1>8. requests' \subseteq Line \X InBlock /\ MessagesHold(block_requests', requests', responses')
  BY <1>1, <1>2, <1>4, ScheduleKeepsMessages
<1>9. free' \in [Rank -> Available] /\ \A s \in Rank : ResourcesOK(s, line', free'[s])
  BY <1>1, <1>4, ScheduleKeepsResources
<1>10. ResourceInv'
  BY <1>9 DEF ResourceInv, ResourcesOK, Own, Waiting
<1>11. /\ unscheduled' \in [Rank -> Seq(Line)] /\ line' \in [Line -> LineState]
       /\ block_requests' \in [Rank -> SUBSET Request]
       /\ microjobs' = [l \in Line |-> IF l \in A /\ InputsOf(l) = {} THEN Microlines[l] ELSE microjobs[l]]
  BY <1>4 DEF Scheduled
<1>12. microjobs' \in [Line -> Nat]
  <2>1. \A l \in Line : Microlines[l] \in Nat /\ microjobs[l] \in Nat
    BY <1>1, Finite
  <2>2. QED
    BY <1>11, <2>1
<1>13. \A k \in Line : Issued(k)' <=> IssuedAs(lines[k], k \in immediates)
  <2>1. \A k \in Line : \A w : IssuedAs(line'[k], w) <=> IssuedAs(lines[k], w)
    BY <1>4, ScheduleKeepsOthers
  <2>2. \A k \in Line : Issued(k)' <=> IssuedAs(line'[k], k \in immediates)
    BY DEF Issued, IssuedAs
  <2>3. QED
    BY <2>1, <2>2
<1>14. QED
  BY <1>5, <1>6, <1>7, <1>8, <1>9, <1>10, <1>11, <1>12, <1>13, Primed

LEMMA StartStep ==
  ASSUME FlowInv, UNCHANGED settings, NEW r \in Rank, Start(r)
  PROVE  FlowInv'
<1> USE DEF FlowInv
<1>1. /\ UNCHANGED <<filled, absorbing, immediates, responses, outputs, sends, accumulating, accumulated, countdown>>
      /\ pc[r] = "init" /\ pc' = [pc EXCEPT ![r] = "loop"]
      /\ schedule_lines(r, free[r], line, {})
      /\ released' = released
      /\ entered' = IF countdown[r] = 0 THEN entered \cup {r} ELSE entered
  BY DEF Start, Barrier!Enter, barrier
<1>2. \A s \in Rank : pc'[s] = IF s = r THEN "loop" ELSE pc[s]
  BY <1>1 DEF TypeOK
<1>3. block_requests[r] = {} /\ block_requests \in [Rank -> SUBSET Request]
  BY <1>1, Types DEF RequestInv, RequestsHold
<1>4. block_requests = [block_requests EXCEPT ![r] = {}]
  BY <1>3
<1>5. free[r] \in Available /\ line \in [Line -> LineState] /\ absorbing \in SUBSET Job
  BY Types
<1>6. RequestsHold(block_requests, line, absorbing, pc')
  BY <1>2 DEF RequestInv, RequestsHold
<1>7. /\ unscheduled' \in [Rank -> Seq(Line)] /\ free' \in [Rank -> Available] /\ line' \in [Line -> LineState]
      /\ block_requests' \in [Rank -> SUBSET Request] /\ requests' \subseteq Line \X InBlock
      /\ microjobs' \in [Line -> Nat]
      /\ RequestInv' /\ JobInv' /\ LineInv' /\ ScheduleInv' /\ MessageInv' /\ ResourceInv'
      /\ \A k \in Line : Issued(k)' <=> Issued(k)
  <2>1. pc'[r] # "init" /\ {} \in SUBSET Request
    BY <1>2
  <2>2. absorbing' \in SUBSET Job /\ requests \cup responses' \subseteq Line \X InBlock
    BY <1>1, <1>5, Types
  <2>3. JobsOK(absorbing', line, filled) /\ RequestsHold(block_requests, line, absorbing', pc')
    BY <1>1, <1>6 DEF JobInv
  <2>4. LinesHold(line, block_requests, absorbing', microjobs, immediates, sends', filled)
    BY <1>1 DEF LineInv
  <2>5. ScheduleOK(unscheduled, line) /\ MessagesHold(block_requests, requests, responses')
    BY <1>1 DEF ScheduleInv, MessageInv
  <2>6. ResourcesOK(r, line, free[r]) /\ \A s \in Rank : s # r => ResourcesOK(s, line, free[s])
    BY DEF ResourceInv
  <2>7. UNCHANGED <<filled, immediates>>
    BY <1>1
  <2>8. \A k \in Line : IssuedAs(line[k], k \in immediates) <=> Issued(k)
    BY DEF Issued
  <2>9. QED
    BY <1>1, <1>4, <1>5, <2>1, <2>2, <2>3, <2>4, <2>5, <2>6, <2>7, <2>8, ScheduleKeeps
<1>8. TypeOK'
  BY <1>1, <1>7 DEF TypeOK, settings, Available, LineState, Request
<1>9. \A s : ToSend(s)' = ToSend(s) /\ ToReceive(s)' = ToReceive(s)
  BY <1>1, <1>7, SameCounts
<1>10. BarrierInv'
  <2>1. \A s \in Rank : countdown'[s] = Cardinality(ToSend(s)') + Cardinality(ToReceive(s)')
    BY <1>1, <1>9 DEF BarrierInv
  <2>2. \A s \in entered' : countdown'[s] = 0 /\ pc'[s] # "init"
    BY <1>1, <1>2 DEF BarrierInv, TypeOK
  <2>3. released' # {} => entered' = Rank
    BY <1>1 DEF BarrierInv
  <2>4. \A s \in Rank : pc'[s] \in {"join", "returned"} => s \in released'
    BY <1>1, <1>2 DEF BarrierInv
  <2>5. QED
    BY <2>1, <2>2, <2>3, <2>4 DEF BarrierInv
<1>11. ResultInv'
  BY <1>1, <1>2, <1>7, ResultKeeps DEF TypeOK
<1>12. QED
  BY <1>7, <1>8, <1>10, <1>11

LEMMA FreedFields ==
  ASSUME NEW f \in Available, NEW m \in Nat, NEW n \in Nat
  PROVE  /\ [f EXCEPT !.lines = n, !.memory = m] = [memory |-> m, gathers |-> f.gathers, lines |-> n]
         /\ [f EXCEPT !.gathers = n] = [memory |-> f.memory, gathers |-> n, lines |-> f.lines]
<1>1. [f EXCEPT !.gathers = n] = [memory |-> f.memory, gathers |-> n, lines |-> f.lines]
  BY DEF Available
<1> DEFINE g == [f EXCEPT !.lines = n]
<1>2. g = [memory |-> f.memory, gathers |-> f.gathers, lines |-> n] /\ g \in Available
  BY DEF Available
<1>3. g.gathers = f.gathers /\ g.lines = n
  BY <1>2
<1> HIDE DEF g
<1>4. [g EXCEPT !.memory = m] = [memory |-> m, gathers |-> g.gathers, lines |-> g.lines]
  BY <1>2 DEF Available
<1>5. [f EXCEPT !.lines = n, !.memory = m] = [g EXCEPT !.memory = m]
  BY Zenon DEF g
<1>6. QED
  BY <1>1, <1>3, <1>4, <1>5

LEMMA finish_output_sendStep ==
  ASSUME FlowInv, UNCHANGED settings, NEW r \in Rank, NEW c \in sends, finish_output_send(r, c)
  PROVE  FlowInv'
<1> USE DEF FlowInv
<1> DEFINE l == c[1]
           d == line[l]
           n == d.unsent_output_blocks
           e == [d EXCEPT !.unsent_output_blocks = @ - 1]
           lines == [line EXCEPT ![l] = Deallocated]
           freed == [free[r] EXCEPT !.lines = @ + 1, !.memory = @ + Memory[l]]
           A == AskedOf(block_requests[Home(l)], l)
           M == MissingOf(block_requests[Home(l)], absorbing, l)
           S == SentOf(sends, l)
<1>1. /\ UNCHANGED <<pc, filled, absorbing, immediates, responses, outputs, accumulating, accumulated>>
      /\ pc[r] = "loop" /\ Home(l) = r /\ sends' = sends \ {c} /\ Decrement(r)
      /\ n = 1 => schedule_lines(r, freed, lines, block_requests[r])
      /\ n # 1 => line' = [line EXCEPT ![l] = e] /\ UNCHANGED <<unscheduled, free, block_requests, requests, microjobs>>
  BY DEF finish_output_send, Reclaimed
<1>2. c \in Contribution /\ l \in Line /\ c[2] \in Outputs[l] /\ c[2] \in OutBlock /\ c = <<l, c[2]>>
  BY Contributions DEF TypeOK
<1>3. line \in [Line -> LineState] /\ block_requests \in [Rank -> SUBSET Request] /\ free \in [Rank -> Available]
  BY Types
<1>4. \A k \in Line : LineOK(k, line[k], AskedOf(block_requests[Home(k)], k), MissingOf(block_requests[Home(k)], absorbing, k),
                             microjobs[k], k \in immediates, SentOf(sends, k), filled)
  BY DEF LineInv, LinesHold
<1>5. LineOK(l, d, A, M, microjobs[l], l \in immediates, S, filled)
  BY <1>2, <1>4
<1>6. c[2] \in S /\ IsFiniteSet(S) /\ IsFiniteSet(M) /\ A \subseteq M /\ Microlines[l] \in Nat /\ Microlines[l] > 0
  BY <1>2, Finite DEF SentOf, AskedOf, MissingOf
<1>7. SentOf(sends', l) = S \ {c[2]} /\ \A k \in Line : k # l => SentOf(sends', k) = SentOf(sends, k)
  BY <1>1, <1>2 DEF SentOf
<1> HIDE DEF A, M, S, l
<1>8. d.state = "allocated" /\ d \in LineDetails
  <2>1. d.state = "allocated"
    BY <1>5, <1>6 DEF LineOK
  <2>2. QED
    BY <1>2, <1>3, <2>1, NoLine
<1> HIDE DEF d
<1>9. /\ d.missing_microlines \in Nat /\ d.missing_input_blocks \in Nat /\ n \in Nat
  BY <1>8 DEF LineDetails
<1>10. d.missing_microlines = 0 /\ l \notin immediates /\ n = Cardinality(S)
  <2>1. ~(d.missing_microlines > 0 \/ l \in immediates)
    BY <1>5, <1>6, <1>8 DEF LineOK
  <2>2. d.missing_microlines = 0
    BY <1>9, <2>1
  <2>3. QED
    BY <1>5, <1>8, <2>1, <2>2 DEF LineOK
<1>11. d.missing_input_blocks = 0 /\ M = {} /\ microjobs[l] = 0
  <2>1. ~(d.missing_input_blocks > 0)
    BY <1>5, <1>6, <1>8, <1>10 DEF LineOK
  <2>2. d.missing_input_blocks = 0
    BY <1>9, <2>1
  <2>3. d.missing_input_blocks = Cardinality(M) /\ microjobs[l] = d.missing_microlines
    BY <1>5, <1>8, <2>2 DEF LineOK
  <2>4. QED
    BY <1>6, <1>10, <2>2, <2>3, Counting
<1>12. n > 0 /\ Cardinality(S \ {c[2]}) = n - 1
  BY <1>6, <1>10, Counting
<1>13. Issued(l)
  BY <1>8, <1>10 DEF Issued, IssuedAs, d
\* In both cases the line stays issued, and the countdown follows
<1>14. ASSUME \A k \in Line : Issued(k)' <=> Issued(k)
       PROVE  /\ BarrierInv' /\ ResultInv'
              /\ countdown' \in [Rank -> Nat] /\ entered' \subseteq Rank /\ released' \subseteq Rank
  <2>1. ResultInv'
    BY <1>1, <1>14, ResultKeeps DEF TypeOK
  <2>2. c \in ToSend(r) /\ ToSend(r)' = ToSend(r) \ {c} /\ ToReceive(r)' = ToReceive(r)
    BY <1>1, <1>2, <1>13, <1>14, Contributions DEF ToSend, ToReceive, l
  <2>3. \A s \in Rank : s # r => ToSend(s)' = ToSend(s) /\ ToReceive(s)' = ToReceive(s)
    BY <1>1, <1>2, <1>13, <1>14, Contributions DEF ToSend, ToReceive, l
  <2>4. QED
    BY <1>1, <2>1, <2>2, <2>3, DecrementKeeps
<1>15. CASE n = 1
  <2>1. S \ {c[2]} = {}
    <3>1. IsFiniteSet(S \ {c[2]})
      BY <1>6, FS_Subset
    <3>2. QED
      BY <1>12, <1>15, <3>1, Counting
  <2>2. \A k \in Line : lines[k] = IF k = l THEN Deallocated ELSE line[k]
    BY <1>2, <1>3
  <2>3. lines \in [Line -> LineState]
    BY <1>2, <1>3 DEF LineState
  <2> HIDE DEF lines
  <2>4. Deallocated.state = "deallocated" /\ Deallocated # Unallocated /\ d # Unallocated
    BY <1>8, NoLine
  <2>5. \A k \in Line : lines[k] # Unallocated <=> line[k] # Unallocated
    BY <2>2, <2>4 DEF d
  <2>6. \A q, s : Range(q.lines) \subseteq Line /\ Serves(q, s, line) => Serves(q, s, lines)
    BY <2>5 DEF Serves
  <2>7. JobsOK(absorbing', lines, filled)
    <3>1. \A q \in absorbing : Range(q.lines) \subseteq Line
      BY Types, RangeIn DEF Job
    <3>2. QED
      BY <1>1, <2>6, <3>1 DEF JobInv, JobsOK
  <2>8. RequestsHold(block_requests, lines, absorbing', pc')
    <3>1. \A s \in Rank : \A q \in block_requests[s] : Range(q.lines) \subseteq Line
      BY Types, RequestFields
    <3>2. QED
      BY <1>1, <2>6, <3>1 DEF RequestInv, RequestsHold, RequestsOK
  <2>9. LinesHold(lines, block_requests, absorbing', microjobs, immediates, sends', filled)
    <3>1. LineOK(l, Deallocated, A, M, microjobs[l], l \in immediates, SentOf(sends', l), filled)
      BY <1>7, <1>10, <1>11, <2>1, <2>4 DEF LineOK
    <3>2. ASSUME NEW k \in Line
          PROVE  LineOK(k, lines[k], AskedOf(block_requests[Home(k)], k), MissingOf(block_requests[Home(k)], absorbing, k),
                        microjobs[k], k \in immediates, SentOf(sends', k), filled)
      <4>1. CASE k = l
        BY <2>2, <3>1, <4>1 DEF A, M
      <4>2. CASE k # l
        <5>1. lines[k] = line[k] /\ SentOf(sends', k) = SentOf(sends, k)
          BY <1>7, <2>2, <4>2
        <5>2. QED
          BY <1>4, <5>1
      <4>3. QED
        BY <4>1, <4>2
    <3>3. QED
      BY <1>1, <3>2 DEF LinesHold
  <2>10. ScheduleOK(unscheduled, lines)
    BY <2>5 DEF ScheduleInv, ScheduleOK
  <2>11. MessagesHold(block_requests, requests, responses')
    BY <1>1 DEF MessageInv
  <2>12. /\ Own(r, line) = Own(r, lines) \cup {l} /\ l \notin Own(r, lines) /\ Own(r, lines) \in SUBSET Line
         /\ \A s \in Rank : s # r => Own(s, lines) = Own(s, line)
    BY <1>1, <1>2, <1>8, <2>2, <2>4 DEF Own, d
  <2>13. d.missing_input_responses = 0
    <3>1. A = {} /\ d.missing_input_responses = Cardinality(A)
      BY <1>5, <1>6, <1>8, <1>11 DEF LineOK
    <3>2. QED
      BY <3>1, FS_EmptySet
  <2>14. \A s \in Rank : Waiting(s, lines) = Waiting(s, line)
    <3>1. \A s \in Rank : l \notin Waiting(s, line)
      BY <2>13 DEF Waiting, d
    <3>2. \A s \in Rank : \A k \in Line : k # l => (k \in Waiting(s, lines) <=> k \in Waiting(s, line))
      BY <2>2 DEF Waiting, Own
    <3>3. \A s \in Rank : l \notin Waiting(s, lines)
      BY <2>2, <2>4 DEF Waiting, Own
    <3>4. QED
      BY <3>1, <3>2, <3>3 DEF Waiting, Own
  <2>15. freed \in Available /\ ResourcesOK(r, lines, freed)
    <3> DEFINE f == free[r]
               mem == MemoryOf[Own(r, lines)]
               own == Cardinality(Own(r, lines))
               w == Cardinality(Waiting(r, lines))
    <3>1. f \in Available /\ ResourcesOK(r, line, f)
      BY <1>3 DEF ResourceInv
    <3>2. f.memory \in Nat /\ f.gathers \in Nat /\ f.lines \in Nat /\ Memory[l] \in Nat /\ MemoryLimit \in Nat /\ LineLimit \in Nat
      BY <1>2, <3>1, LimitsAssumption DEF Available
    <3>3. freed = [memory |-> f.memory + Memory[l], gathers |-> f.gathers, lines |-> f.lines + 1]
      <4>1. f.memory + Memory[l] \in Nat /\ f.lines + 1 \in Nat
        BY <3>2
      <4> DEFINE m == f.memory + Memory[l]
                 n1 == f.lines + 1
      <4>2. m \in Nat /\ n1 \in Nat
        BY <4>1
      <4>3. freed = [f EXCEPT !.lines = n1, !.memory = m]
        OBVIOUS
      <4> HIDE DEF m, n1, f, freed
      <4>4. [f EXCEPT !.lines = n1, !.memory = m] = [memory |-> m, gathers |-> f.gathers, lines |-> n1]
        BY <3>1, <4>2, FreedFields
      <4>5. QED
        BY <4>3, <4>4 DEF m, n1
    <3>4. MemoryOf[Own(r, line)] = Memory[l] + mem /\ mem \in Nat
      <4>1. Own(r, line) \ {l} = Own(r, lines) /\ l \in Own(r, line) /\ Own(r, line) \in SUBSET Line
        BY <1>2, <2>12
      <4>2. QED
        BY <2>12, <4>1, MemoryOfRemoved
    <3>5. Cardinality(Own(r, line)) = own + 1 /\ own \in Nat
      <4>1. IsFiniteSet(Own(r, lines))
        BY <2>12, Finite
      <4>2. QED
        BY <2>12, <4>1, FS_AddElement, Counting
    <3>6. f.memory = MemoryLimit - (Memory[l] + mem) /\ f.gathers = GatherLimit - w /\ f.lines = LineLimit - (own + 1)
      BY <2>14, <3>1, <3>4, <3>5 DEF ResourcesOK
    <3>7. freed.memory = f.memory + Memory[l] /\ freed.gathers = f.gathers /\ freed.lines = f.lines + 1
      BY <3>3
    <3> HIDE DEF freed, f, mem, own, w
    <3>8. freed \in Available
      BY <3>2, <3>3 DEF Available
    <3>9. freed.memory = MemoryLimit - mem /\ freed.gathers = GatherLimit - w /\ freed.lines = LineLimit - own
      <4> DEFINE fm == f.memory
                 fl == f.lines
                 ml == Memory[l]
      <4>1. fm = MemoryLimit - (ml + mem) /\ fl = LineLimit - (own + 1) /\ fm \in Nat /\ fl \in Nat /\ ml \in Nat
        BY <3>2, <3>6
      <4> HIDE DEF fm, fl, ml
      <4>2. fm + ml = MemoryLimit - mem /\ fl + 1 = LineLimit - own
        BY <3>2, <3>4, <3>5, <4>1
      <4>3. QED
        BY <3>6, <3>7, <4>2 DEF fm, fl, ml
    <3>10. QED
      BY <3>8, <3>9 DEF ResourcesOK, mem, own, w
  <2>16. \A s \in Rank : s # r => ResourcesOK(s, lines, free[s])
    BY <2>12, <2>14 DEF ResourceInv, ResourcesOK
  <2>17. \A k \in Line : \A w : k # l => (IssuedAs(lines[k], w) <=> IssuedAs(line[k], w))
    BY <2>2
  <2>18. /\ unscheduled' \in [Rank -> Seq(Line)] /\ free' \in [Rank -> Available] /\ line' \in [Line -> LineState]
         /\ block_requests' \in [Rank -> SUBSET Request] /\ requests' \subseteq Line \X InBlock
         /\ microjobs' \in [Line -> Nat]
         /\ RequestInv' /\ JobInv' /\ LineInv' /\ ScheduleInv' /\ MessageInv' /\ ResourceInv'
         /\ \A k \in Line : Issued(k)' <=> IssuedAs(lines[k], k \in immediates)
    <3>1. pc'[r] # "init" /\ block_requests[r] \in SUBSET Request /\ block_requests = [block_requests EXCEPT ![r] = block_requests[r]]
      BY <1>1, <1>3
    <3>2. absorbing' \in SUBSET Job /\ requests \cup responses' \subseteq Line \X InBlock
      BY <1>1, Types
    <3>3. UNCHANGED <<filled, immediates>> /\ schedule_lines(r, freed, lines, block_requests[r])
      BY <1>1, <1>15 DEF lines
    <3> HIDE DEF freed
    <3>4. QED
      BY <2>3, <2>7, <2>8, <2>9, <2>10, <2>11, <2>15, <2>16, <3>1, <3>2, <3>3, ScheduleKeeps
  <2>19. \A k \in Line : Issued(k)' <=> Issued(k)
    <3>1. IssuedAs(lines[l], l \in immediates)
      BY <1>2, <2>2, <2>4 DEF IssuedAs
    <3>2. QED
      BY <1>13, <2>17, <2>18, <3>1 DEF Issued
  <2>20. TypeOK'
    BY <1>1, <1>14, <2>18, <2>19 DEF TypeOK, settings, Available, LineState, Request
  <2>21. QED
    BY <1>14, <2>18, <2>19, <2>20
<1>16. CASE n # 1
  <2>1. /\ line' = [line EXCEPT ![l] = e] /\ UNCHANGED <<unscheduled, free, block_requests, requests, microjobs>>
    BY <1>1, <1>16
  <2>2. /\ e \in LineDetails /\ e.unsent_output_blocks = n - 1
        /\ e.missing_input_responses = d.missing_input_responses
        /\ e.missing_input_blocks = d.missing_input_blocks /\ e.missing_microlines = d.missing_microlines
    BY <1>8, <1>12, CountedDown
  <2>3. e.state = "allocated" /\ e # Unallocated /\ d # Unallocated
    BY <1>8, <2>2, NoLine
  <2> HIDE DEF e
  <2>4. \A k \in Line : line'[k] = IF k = l THEN e ELSE line[k]
    BY <1>2, <1>3, <2>1
  <2>5. line' \in [Line -> LineState]
    <3>1. e \in LineState
      BY <2>2 DEF LineState
    <3>2. QED
      BY <1>3, <2>1, <3>1
  <2>6. \A k \in Line : line'[k] = Unallocated <=> line[k] = Unallocated
    BY <2>3, <2>4 DEF d
  <2>7. RequestInv' /\ JobInv' /\ ScheduleInv' /\ MessageInv'
    <3>1. RequestsHold(block_requests, line', absorbing, pc) /\ JobsOK(absorbing, line', filled) /\ ScheduleOK(unscheduled, line')
      BY <2>6, SameLines, Types DEF RequestInv, JobInv, ScheduleInv
    <3>2. QED
      BY <1>1, <2>1, <3>1, Primed DEF MessageInv
  <2>8. S \ {c[2]} # {} /\ e.unsent_output_blocks = Cardinality(S \ {c[2]})
    <3>1. IsFiniteSet(S \ {c[2]}) /\ n - 1 # 0
      BY <1>6, <1>9, <1>16, FS_Subset
    <3>2. QED
      BY <1>12, <2>2, <3>1, Counting
  <2>9. LineOK(l, e, A, M, microjobs[l], l \in immediates, SentOf(sends', l), filled)
    <3>1. e.missing_microlines = 0 /\ e.missing_input_blocks = 0 /\ ~(0 > 0)
      BY <1>10, <1>11, <2>2
    <3>2. QED
      BY <1>5, <1>7, <1>8, <1>10, <1>11, <2>2, <2>3, <2>8, <3>1 DEF LineOK
  <2>10. LineInv'
    <3>1. \A k \in Line : LineOK(k, line'[k], AskedOf(block_requests[Home(k)], k), MissingOf(block_requests[Home(k)], absorbing, k),
                                 microjobs[k], k \in immediates, SentOf(sends', k), filled)
      <4> TAKE k \in Line
      <4>1. CASE k = l
        BY <2>4, <2>9, <4>1 DEF A, M
      <4>2. CASE k # l
        <5>1. line'[k] = line[k] /\ SentOf(sends', k) = SentOf(sends, k)
          BY <1>7, <2>4, <4>2
        <5>2. QED
          BY <1>4, <5>1
      <4>3. QED
        BY <4>1, <4>2
    <3>2. LinesHold(line', block_requests', absorbing', microjobs', immediates', sends', filled')
      BY <1>1, <2>1, <3>1 DEF LinesHold
    <3>3. QED
      BY <3>2, Primed
  <2>11. \A k \in Line : Issued(k)' <=> Issued(k)
    BY <1>1, <1>8, <2>2, <2>3, <2>4 DEF Issued, IssuedAs, d
  <2>12. ResourceInv'
    BY <1>8, <2>1, <2>2, <2>3, <2>4, ResourceKeeps DEF d
  <2>13. TypeOK'
    BY <1>1, <1>14, <2>1, <2>5, <2>11 DEF TypeOK, settings, LineState
  <2>14. QED
    BY <1>14, <2>7, <2>10, <2>11, <2>12, <2>13
<1>17. QED
  BY <1>15, <1>16

LEMMA process_responseStep ==
  ASSUME FlowInv, UNCHANGED settings, NEW r \in Rank, NEW q \in block_requests[r], process_response(r, q)
  PROVE  FlowInv'
<1> USE DEF FlowInv
<1> DEFINE g == Gathered(q)
           W == Range(q.lines)
           lines == Responded(q)
           pending == block_requests[r] \ {q}
           qs == [block_requests EXCEPT ![r] = pending]
           job == [block |-> q.block, lines |-> q.lines, next |-> 1]
           given == [free[r] EXCEPT !.gathers = @ + Cardinality(g)]
<1>1. /\ UNCHANGED <<pc, filled, immediates, outputs, sends, accumulating, accumulated, countdown, entered, released>>
      /\ pc[r] = "loop" /\ Id(q) \in responses /\ responses' = responses \ {Id(q)}
      /\ absorbing' = absorbing \cup {job}
      /\ schedule_lines(r, given, lines, pending)
  BY DEF process_response, barrier
<1>2. /\ line \in [Line -> LineState] /\ block_requests \in [Rank -> SUBSET Request] /\ free \in [Rank -> Available]
      /\ absorbing \in SUBSET Job
  BY Types
<1>3. q \in Request /\ q.block \in InBlock /\ q.lines \in Seq(Line) /\ W \subseteq Line
  BY <1>2, RequestFields
<1>4. RequestsOK(r, block_requests[r], line) /\ Apart(block_requests[r], absorbing)
  BY DEF RequestInv, RequestsHold
<1>5. Serves(q, r, line)
  BY <1>4 DEF RequestsOK
<1>6. \A s \in Rank : qs[s] = IF s = r THEN pending ELSE block_requests[s]
  BY <1>2
<1>7. \A l \in W : l \in Line /\ Home(l) = r /\ Asks(block_requests[r], l, q.block)
  BY <1>3, <1>5 DEF Serves, Asks
<1>8. job \in Job /\ job.block = q.block /\ job.lines = q.lines /\ job.next = 1
  BY <1>3 DEF Job
<1>9. \A k \in Line : LineOK(k, line[k], AskedOf(block_requests[Home(k)], k), MissingOf(block_requests[Home(k)], absorbing, k),
                             microjobs[k], k \in immediates, SentOf(sends, k), filled)
  BY DEF LineInv, LinesHold
\* The lines that waited are allocated, and count the response
<1>10. ASSUME NEW l \in W
       PROVE  /\ line[l].state = "allocated" /\ line[l] \in LineDetails
              /\ line[l].missing_input_responses = Cardinality(AskedOf(block_requests[r], l))
              /\ q.block \in AskedOf(block_requests[r], l) /\ line[l].missing_input_responses > 0
  <2>1. l \in Line /\ Home(l) = r /\ Asks(block_requests[r], l, q.block)
    BY <1>7
  <2>2. LineOK(l, line[l], AskedOf(block_requests[r], l), MissingOf(block_requests[r], absorbing, l),
               microjobs[l], l \in immediates, SentOf(sends, l), filled)
    BY <1>9, <2>1
  <2>3. q.block \in AskedOf(block_requests[r], l) /\ q.block \in MissingOf(block_requests[r], absorbing, l)
    BY <1>3, <2>1 DEF AskedOf, MissingOf
  <2>4. line[l].state = "allocated"
    BY <2>2, <2>3 DEF LineOK
  <2>5. line[l] \in LineDetails
    BY <1>2, <2>1, <2>4, NoLine
  <2>6. line[l].missing_input_responses = Cardinality(AskedOf(block_requests[r], l))
    BY <2>2, <2>4 DEF LineOK
  <2>7. line[l].missing_input_responses > 0
    BY <2>3, <2>6, Finite, Counting
  <2>8. QED
    BY <2>3, <2>4, <2>5, <2>6, <2>7
<1>11. \A l \in Line : lines[l] = IF l \in W THEN [line[l] EXCEPT !.missing_input_responses = @ - 1] ELSE line[l]
  BY DEF Responded
<1>12. ASSUME NEW l \in W
       PROVE  LET d == line[l]
                  e == lines[l]
              IN /\ e \in LineDetails /\ e.state = "allocated" /\ e # Unallocated /\ d # Unallocated
                 /\ e.missing_input_responses = d.missing_input_responses - 1
                 /\ e.missing_input_blocks = d.missing_input_blocks
                 /\ e.missing_microlines = d.missing_microlines /\ e.unsent_output_blocks = d.unsent_output_blocks
  <2> DEFINE d == line[l]
             e == lines[l]
  <2>1. e = [d EXCEPT !.missing_input_responses = @ - 1]
    BY <1>7, <1>11
  <2>2. d \in LineDetails /\ d.missing_input_responses > 0
    BY <1>10
  <2> HIDE DEF d, e
  <2>3. /\ e \in LineDetails /\ e.missing_input_responses = d.missing_input_responses - 1
        /\ e.missing_input_blocks = d.missing_input_blocks
        /\ e.missing_microlines = d.missing_microlines /\ e.unsent_output_blocks = d.unsent_output_blocks
    BY <2>1, <2>2, CountedDown
  <2>4. e.state = "allocated" /\ e # Unallocated /\ d # Unallocated
    BY <2>2, <2>3, NoLine
  <2>5. QED
    BY <2>3, <2>4 DEF d, e
<1> HIDE DEF lines
<1>13. lines \in [Line -> LineState]
  <2>1. \A l \in Line : lines[l] \in LineState
    BY <1>2, <1>11, <1>12 DEF LineState
  <2>2. lines = [l \in Line |-> lines[l]]
    BY DEF lines, Responded
  <2>3. QED
    BY <2>1, <2>2
<1>14. \A l \in Line : lines[l] # Unallocated <=> line[l] # Unallocated
  BY <1>11, <1>12
<1>15. \A p, s : Range(p.lines) \subseteq Line /\ Serves(p, s, line) => Serves(p, s, lines)
  BY <1>14 DEF Serves
\* What still waits for a response, and what the new job absorbs
<1>16. \A l, b : Asks(pending, l, b) <=> Asks(block_requests[r], l, b) /\ ~(b = q.block /\ l \in W)
  <2> TAKE l, b
  <2>1. ASSUME Asks(pending, l, b) PROVE Asks(block_requests[r], l, b) /\ ~(b = q.block /\ l \in W)
    <3>1. PICK p \in block_requests[r] : p # q /\ p.block = b /\ l \in Range(p.lines)
      BY <2>1 DEF Asks
    <3>2. b = q.block /\ l \in W => p = q
      BY <1>4, <3>1 DEF RequestsOK
    <3>3. QED
      BY <3>1, <3>2 DEF Asks
  <2>2. ASSUME Asks(block_requests[r], l, b), ~(b = q.block /\ l \in W) PROVE Asks(pending, l, b)
    BY <2>2 DEF Asks
  <2>3. QED
    BY <2>1, <2>2
<1>17. \A l, b : Absorbs(absorbing', l, b) <=> Absorbs(absorbing, l, b) \/ (b = q.block /\ l \in W)
  <2> TAKE l, b
  <2>1. Len(q.lines) \in Nat /\ DOMAIN q.lines = 1 .. Len(q.lines)
    BY <1>3
  <2>2. (\E i \in 1 .. Len(q.lines) : q.lines[i] = l /\ (i = 1 \/ i >= 1)) <=> l \in W
    BY <2>1, RangeIs
  <2>3. Absorbs(absorbing', l, b)
          <=> \/ Absorbs(absorbing, l, b)
              \/ job.block = b /\ \E i \in 1 .. Len(job.lines) : job.lines[i] = l /\ (i = 1 \/ i >= job.next)
    <3> HIDE DEF job
    <3> QED
      BY <1>1 DEF Absorbs
  <2>4. QED
    BY <1>8, <2>2, <2>3
<1> HIDE DEF job, qs
<1>18. JobsOK(absorbing', lines, filled)
  <2>1. \A a \in absorbing' : a \in absorbing \/ a = job
    BY <1>1
  <2>2. Serves(job, r, lines)
    BY <1>3, <1>5, <1>8, <1>15 DEF Serves
  <2>3. \A a \in absorbing : Range(a.lines) \subseteq Line
    BY <1>2, RangeIn DEF Job
  <2>4. \A a \in absorbing' : \E s \in Rank : Serves(a, s, lines)
    BY <1>15, <2>1, <2>2, <2>3 DEF JobInv, JobsOK
  <2>5. job.next \in 1 .. Len(job.lines) + 1 /\ ~(job.next > 1)
    <3>1. Len(q.lines) \in Nat
      BY <1>3
    <3>2. QED
      BY <1>8, <3>1
  <2>6. \A a \in absorbing : a.block = job.block /\ Range(a.lines) \cap Range(job.lines) # {} => FALSE
    <3> SUFFICES ASSUME NEW a \in absorbing, a.block = q.block, NEW l, l \in Range(a.lines), l \in W
                 PROVE  FALSE
      BY <1>8
    <3>1. ~Asks(block_requests[r], l, q.block)
      BY <1>4 DEF Apart
    <3>2. QED
      BY <1>7, <3>1
  <2>7. ASSUME NEW a \in absorbing', NEW b \in absorbing', a.block = b.block, Range(a.lines) \cap Range(b.lines) # {}
        PROVE  a = b
    <3>1. Range(b.lines) \cap Range(a.lines) # {}
      BY <2>7
    <3>2. QED
      BY <2>1, <2>6, <2>7, <3>1 DEF JobInv, JobsOK
  <2>8. /\ \A a \in absorbing' : a.next \in 1 .. Len(a.lines) + 1
        /\ \A a \in absorbing' : a.next > 1 => <<Head(a.lines), a.block>> \in filled
    BY <2>1, <2>5 DEF JobInv, JobsOK
  <2>9. QED
    BY <2>4, <2>7, <2>8 DEF JobsOK
<1>19. RequestsHold(qs, lines, absorbing', pc')
  <2>1. ASSUME NEW s \in Rank PROVE RequestsOK(s, qs[s], lines)
    <3>1. qs[s] \subseteq block_requests[s]
      BY <1>6 DEF qs
    <3>2. RequestsOK(s, block_requests[s], line)
      BY DEF RequestInv, RequestsHold
    <3>3. \A p \in block_requests[s] : Range(p.lines) \subseteq Line
      BY <1>2, RequestFields
    <3>4. QED
      BY <1>15, <3>1, <3>2, <3>3 DEF RequestsOK
  <2>2. ASSUME NEW s \in Rank PROVE Apart(qs[s], absorbing')
    <3>1. \A l, b : Asks(qs[s], l, b) => Asks(block_requests[s], l, b)
      BY <1>6 DEF Asks, qs
    <3>2. Apart(block_requests[s], absorbing) /\ RequestsOK(s, block_requests[s], line)
      BY DEF RequestInv, RequestsHold
    <3>3. \A l \in W : ~Asks(qs[s], l, q.block)
      <4> TAKE l \in W
      <4>1. CASE s = r
        BY <1>6, <1>16, <4>1 DEF qs
      <4>2. CASE s # r
        <5>1. ~Asks(block_requests[s], l, q.block)
          BY <1>7, <3>2, <4>2 DEF Asks, RequestsOK, Serves
        <5>2. QED
          BY <3>1, <5>1
      <4>3. QED
        BY <4>1, <4>2
    <3>4. \A a \in absorbing : \A l \in Range(a.lines) : ~Asks(qs[s], l, a.block)
      BY <3>1, <3>2 DEF Apart
    <3>5. QED
      BY <1>1, <1>8, <3>3, <3>4 DEF Apart
  <2>3. \A s \in Rank : pc'[s] = "init" => qs[s] = {}
    <3>1. \A s \in Rank : qs[s] \subseteq block_requests[s]
      BY <1>6 DEF qs
    <3>2. QED
      BY <1>1, <3>1 DEF RequestInv, RequestsHold
  <2>4. QED
    BY <2>1, <2>2, <2>3 DEF RequestsHold
<1>20. LinesHold(lines, qs, absorbing', microjobs, immediates, sends', filled)
  <2>1. ASSUME NEW l \in Line
        PROVE  LineOK(l, lines[l], AskedOf(qs[Home(l)], l), MissingOf(qs[Home(l)], absorbing', l),
                      microjobs[l], l \in immediates, SentOf(sends, l), filled)
    <3>1. Home(l) \in Rank
      BY HomeIs
    <3>2. LineOK(l, line[l], AskedOf(block_requests[Home(l)], l), MissingOf(block_requests[Home(l)], absorbing, l),
                 microjobs[l], l \in immediates, SentOf(sends, l), filled)
      BY <1>9
    <3>3. CASE l \in W
      <4>1. Home(l) = r /\ qs[Home(l)] = pending
        BY <1>6, <1>7, <3>3 DEF qs
      <4>2. AskedOf(pending, l) = AskedOf(block_requests[r], l) \ {q.block}
        BY <1>16, <3>3 DEF AskedOf
      <4>3. MissingOf(pending, absorbing', l) = MissingOf(block_requests[r], absorbing, l)
        BY <1>7, <1>16, <1>17, <3>3 DEF MissingOf
      <4> DEFINE d == line[l]
                 e == lines[l]
                 A == AskedOf(block_requests[r], l)
                 M == MissingOf(block_requests[r], absorbing, l)
      <4>4. /\ e.state = "allocated" /\ d.state = "allocated"
            /\ e.missing_input_responses = d.missing_input_responses - 1
            /\ e.missing_input_blocks = d.missing_input_blocks
            /\ e.missing_microlines = d.missing_microlines /\ e.unsent_output_blocks = d.unsent_output_blocks
            /\ d.missing_input_responses = Cardinality(A) /\ q.block \in A
        BY <1>10, <1>12, <3>3
      <4>5. IsFiniteSet(A)
        BY Finite
      <4>6. LineOK(l, d, A, M, microjobs[l], l \in immediates, SentOf(sends, l), filled)
        BY <3>2, <4>1
      <4> HIDE DEF d, e, A, M
      <4>7. Cardinality(A \ {q.block}) = e.missing_input_responses
        BY <4>4, <4>5, Counting
      <4>8. LineOK(l, e, A \ {q.block}, M, microjobs[l], l \in immediates, SentOf(sends, l), filled)
        BY <4>4, <4>6, <4>7 DEF LineOK
      <4>9. QED
        BY <4>1, <4>2, <4>3, <4>8 DEF e, A, M
    <3>4. CASE l \notin W
      <4>1. lines[l] = line[l]
        BY <1>11, <3>4
      <4>2. \A b : Asks(qs[Home(l)], l, b) <=> Asks(block_requests[Home(l)], l, b)
        <5>1. CASE Home(l) = r
          BY <1>6, <1>16, <3>4, <5>1 DEF qs
        <5>2. CASE Home(l) # r
          BY <1>6, <3>1, <5>2 DEF qs
        <5>3. QED
          BY <5>1, <5>2
      <4>3. /\ AskedOf(qs[Home(l)], l) = AskedOf(block_requests[Home(l)], l)
            /\ MissingOf(qs[Home(l)], absorbing', l) = MissingOf(block_requests[Home(l)], absorbing, l)
        BY <1>17, <3>4, <4>2 DEF AskedOf, MissingOf
      <4>4. QED
        BY <3>2, <4>1, <4>3
    <3>5. QED
      BY <3>3, <3>4
  <2>2. QED
    BY <1>1, <2>1 DEF LinesHold
<1>21. ScheduleOK(unscheduled, lines)
  BY <1>14 DEF ScheduleInv, ScheduleOK
<1>22. MessagesHold(qs, requests, responses')
  <2>1. requests \cap responses = {} /\ \A id \in requests \cup responses : \E p \in block_requests[Home(id[1])] : Id(p) = id
    BY DEF MessageInv, MessagesHold
  <2>2. requests \cap responses' = {}
    BY <1>1, <2>1
  <2>3. ASSUME NEW id \in requests \cup responses' PROVE \E p \in qs[Home(id[1])] : Id(p) = id
    <3>1. id \in requests \cup responses /\ id # Id(q)
      BY <1>1, <2>1
    <3>2. PICK p \in block_requests[Home(id[1])] : Id(p) = id
      BY <2>1, <3>1
    <3>3. p # q
      BY <3>1, <3>2
    <3>4. id[1] \in Line /\ Home(id[1]) \in Rank
      BY <3>1, HomeIs DEF TypeOK
    <3>5. p \in qs[Home(id[1])]
      BY <1>6, <3>2, <3>3, <3>4 DEF qs
    <3>6. QED
      BY <3>2, <3>5
  <2>4. QED
    BY <2>2, <2>3 DEF MessagesHold
<1>23. \A s \in Rank : Own(s, lines) = Own(s, line)
  BY <1>10, <1>11, <1>12 DEF Own
<1>24. /\ g \subseteq W /\ Waiting(r, line) = Waiting(r, lines) \cup g /\ Waiting(r, lines) \cap g = {}
       /\ \A s \in Rank : s # r => Waiting(s, lines) = Waiting(s, line)
  <2>1. g = {l \in W : line[l].missing_input_responses = 1}
    BY DEF Gathered
  <2>2. ASSUME NEW l \in W
        PROVE  /\ l \in Waiting(r, line)
               /\ l \in Waiting(r, lines) <=> l \notin g
               /\ \A s \in Rank : s # r => l \notin Waiting(s, line) /\ l \notin Waiting(s, lines)
    <3>1. /\ line[l].missing_input_responses > 0 /\ line[l].missing_input_responses \in Nat
          /\ lines[l].missing_input_responses = line[l].missing_input_responses - 1
          /\ line[l].state = "allocated" /\ lines[l].state = "allocated"
          /\ l \in Line /\ Home(l) = r
      BY <1>7, <1>10, <1>12 DEF LineDetails
    <3> DEFINE x == line[l].missing_input_responses
               y == lines[l].missing_input_responses
    <3>2. y > 0 <=> x # 1
      <4>1. x > 0 /\ x \in Nat /\ y = x - 1
        BY <3>1
      <4> HIDE DEF x, y
      <4>2. QED
        BY <4>1
    <3>3. l \in g <=> x = 1
      BY <2>1
    <3>4. QED
      BY <3>1, <3>2, <3>3 DEF Waiting, Own
  <2>3. \A l \in Line : \A s \in Rank : l \notin W => (l \in Waiting(s, line) <=> l \in Waiting(s, lines))
    BY <1>11, <1>23 DEF Waiting
  <2>4. \A s \in Rank : Waiting(s, line) \subseteq Line /\ Waiting(s, lines) \subseteq Line
    BY DEF Waiting, Own
  <2> HIDE DEF g, W
  <2>5. g \subseteq W
    BY <2>1
  <2>6. Waiting(r, line) = Waiting(r, lines) \cup g /\ Waiting(r, lines) \cap g = {}
    BY <1>3, <2>2, <2>3, <2>4, <2>5
  <2>7. \A s \in Rank : s # r => Waiting(s, lines) = Waiting(s, line)
    BY <1>3, <2>2, <2>3, <2>4
  <2>8. QED
    BY <2>5, <2>6, <2>7
<1>25. given \in Available /\ ResourcesOK(r, lines, given)
  <2> DEFINE f == free[r]
             w == Cardinality(Waiting(r, lines))
             n == Cardinality(g)
             fg == f.gathers
             m == fg + n
  <2>1. f \in Available /\ ResourcesOK(r, line, f) /\ fg \in Nat /\ f.memory \in Nat /\ f.lines \in Nat
    BY <1>2 DEF ResourceInv, Available
  <2>2. Cardinality(Waiting(r, line)) = w + n /\ w \in Nat /\ n \in Nat
    <3>1. Waiting(r, lines) \in SUBSET Line /\ g \in SUBSET Line
      BY <1>3, <1>24 DEF Waiting, Own
    <3> HIDE DEF g
    <3>2. QED
      BY <1>24, <3>1, UnionCounts
  <2>3. fg = GatherLimit - (w + n)
    BY <2>1, <2>2 DEF ResourcesOK
  <2>4. given = [f EXCEPT !.gathers = m]
    OBVIOUS
  <2> HIDE DEF given, f, w, n, m, fg
  <2>5. GatherLimit \in Nat
    BY LimitsAssumption
  <2>6. m \in Nat /\ m = GatherLimit - w
    BY <2>1, <2>2, <2>3, <2>5 DEF m
  <2>7. given = [memory |-> f.memory, gathers |-> m, lines |-> f.lines]
    BY <2>1, <2>4, <2>6, FreedFields
  <2>8. given \in Available /\ given.memory = f.memory /\ given.gathers = m /\ given.lines = f.lines
    BY <2>1, <2>6, <2>7 DEF Available
  <2>9. QED
    BY <1>23, <2>1, <2>6, <2>8 DEF ResourcesOK, w
<1>26. \A s \in Rank : s # r => ResourcesOK(s, lines, free[s])
  BY <1>23, <1>24 DEF ResourceInv, ResourcesOK
<1>27. \A k \in Line : \A w : IssuedAs(lines[k], w) <=> IssuedAs(line[k], w)
  BY <1>10, <1>11, <1>12 DEF IssuedAs
<1>28. /\ unscheduled' \in [Rank -> Seq(Line)] /\ free' \in [Rank -> Available] /\ line' \in [Line -> LineState]
       /\ block_requests' \in [Rank -> SUBSET Request] /\ requests' \subseteq Line \X InBlock
       /\ microjobs' \in [Line -> Nat]
       /\ RequestInv' /\ JobInv' /\ LineInv' /\ ScheduleInv' /\ MessageInv' /\ ResourceInv'
       /\ \A k \in Line : Issued(k)' <=> IssuedAs(lines[k], k \in immediates)
  <2>1. absorbing' \in SUBSET Job /\ requests \cup responses' \subseteq Line \X InBlock
    BY <1>1, <1>2, <1>8 DEF TypeOK
  <2>2. pending \in SUBSET Request /\ pc'[r] # "init" /\ UNCHANGED <<filled, immediates>> /\ schedule_lines(r, given, lines, pending)
    BY <1>1, <1>2
  <2>3. qs = [block_requests EXCEPT ![r] = pending]
    BY DEF qs
  <2> HIDE DEF given, pending
  <2>4. QED
    BY <1>13, <1>18, <1>19, <1>20, <1>21, <1>22, <1>25, <1>26, <2>1, <2>2, <2>3, ScheduleKeeps
<1>29. \A k \in Line : Issued(k)' <=> Issued(k)
  BY <1>27, <1>28 DEF Issued
<1>30. TypeOK'
  <2>1. absorbing' \subseteq Job /\ responses' \subseteq Line \X InBlock
    BY <1>1, <1>2, <1>8 DEF TypeOK
  <2>2. QED
    BY <1>1, <1>28, <2>1 DEF TypeOK, settings, Available, LineState, Request, Job
<1>31. BarrierInv' /\ ResultInv'
  BY <1>1, <1>29, SameCounts, BarrierKeeps, ResultKeeps DEF TypeOK
<1>32. QED
  BY <1>28, <1>30, <1>31

-----------------------------------------------------------------------------
(***************************************************************************)
(* The invariant holds of the whole flow.                                  *)
(***************************************************************************)
LEMMA InitFlowInv == Init => FlowInv
<1> SUFFICES ASSUME Init PROVE FlowInv
  OBVIOUS
<1> USE DEF Init
<1>1. \A r \in Rank : ToSend(r) = {c \in Contribution : c[1] \in Range(Order[r])}
  <2>1. \A c \in Contribution : c[1] \in Line /\ ~Issued(c[1])
    BY Contributions, NoLine DEF Issued, IssuedAs
  <2>2. \A r \in Rank : \A l \in Line : Home(l) = r <=> l \in Range(Order[r])
    BY HomeIs, HomeOf
  <2>3. QED
    BY <2>1, <2>2 DEF ToSend
<1>2. \A r \in Rank : ToReceive(r) = {c \in Contribution : ContributionOwner[c] = r}
  BY Contributions, NoLine DEF ToReceive, Issued, IssuedAs
<1>3. \A r \in Rank : countdown[r] = Cardinality(ToSend(r)) + Cardinality(ToReceive(r))
  BY <1>1, <1>2 DEF TotalBlocks, RequiredContributions
<1>4. entered = {} /\ released = {}
  BY DEF Barrier!Init
<1>5. TypeOK
  <2>1. countdown \in [Rank -> Nat]
    <3>1. \A r \in Rank : countdown[r] \in Nat
      BY <1>3, CountsAre
    <3>2. countdown = [r \in Rank |-> countdown[r]]
      OBVIOUS
    <3>3. QED
      BY <3>1, <3>2
  <2>2. free \in [Rank -> [memory : Nat, gathers : Nat, lines : Nat]]
    BY LimitsAssumption
  <2>3. unscheduled \in [Rank -> Seq(Line)]
    BY PartitionAssumption
  <2>4. QED
    BY <1>4, <2>1, <2>2, <2>3 DEF TypeOK
<1>6. RequestInv /\ JobInv /\ MessageInv
  BY DEF RequestInv, RequestsHold, RequestsOK, Apart, JobInv, JobsOK, MessageInv, MessagesHold
<1>7. LineInv
  <2> SUFFICES ASSUME NEW l \in Line
               PROVE  LineOK(l, line[l], AskedOf(block_requests[Home(l)], l), MissingOf(block_requests[Home(l)], absorbing, l),
                             microjobs[l], l \in immediates, SentOf(sends, l), filled)
    BY DEF LineInv, LinesHold
  <2>1. block_requests[Home(l)] = {}
    BY HomeIs
  <2>2. MissingOf(block_requests[Home(l)], absorbing, l) = {} /\ SentOf(sends, l) = {}
    BY <2>1 DEF MissingOf, SentOf, Asks, Absorbs
  <2>3. line[l].state # "allocated" /\ microjobs[l] = 0 /\ l \notin immediates
    BY NoLine
  <2>4. QED
    BY <2>2, <2>3 DEF LineOK
<1>8. ScheduleInv
  <2>1. \A r \in Rank : IsInjective(Order[r]) /\ Range(Order[r]) \subseteq Line
    BY PartitionAssumption, RangeIn
  <2>2. QED
    BY <2>1, HomeIs, HomeOf DEF ScheduleInv, ScheduleOK
<1>9. BarrierInv
  BY <1>3, <1>4 DEF BarrierInv
<1>10. ResultInv
  BY Contributions, NoLine DEF ResultInv, Issued, IssuedAs
<1>11. ResourceInv
  <2>1. \A r : Own(r, line) = {} /\ Waiting(r, line) = {}
    BY NoLine DEF Own, Waiting
  <2>2. MemoryOf[{}] = 0 /\ Cardinality({}) = 0
    BY MemoryOfEach, FS_EmptySet
  <2>3. MemoryLimit - 0 = MemoryLimit /\ GatherLimit - 0 = GatherLimit /\ LineLimit - 0 = LineLimit
    BY LimitsAssumption
  <2>4. \A r \in Rank : free[r].memory = MemoryLimit /\ free[r].gathers = GatherLimit /\ free[r].lines = LineLimit
    OBVIOUS
  <2>5. QED
    BY <2>1, <2>2, <2>3, <2>4 DEF ResourceInv, ResourcesOK
<1>12. QED
  BY <1>5, <1>6, <1>7, <1>8, <1>9, <1>10, <1>11 DEF FlowInv

LEMMA NextFlowInv == FlowInv /\ [Next]_vars => FlowInv'
<1> SUFFICES ASSUME FlowInv, [Next]_vars PROVE FlowInv'
  OBVIOUS
<1>1. ASSUME NEW r \in Rank, Communicate(r) PROVE FlowInv'
  <2>1. UNCHANGED settings
    BY <1>1 DEF Communicate
  <2>2. CASE Start(r)
    BY <2>1, <2>2, StartStep
  <2>3. CASE \E id \in requests : process_request(r, id)
    BY <2>1, <2>3, process_requestStep
  <2>4. CASE \E q \in block_requests[r] : process_response(r, q)
    BY <2>1, <2>4, process_responseStep
  <2>5. CASE wakeup(r)
    BY <2>1, <2>5, wakeupStep
  <2>6. CASE \E c \in sends : finish_output_send(r, c)
    BY <2>1, <2>6, finish_output_sendStep
  <2>7. CASE \E c \in outputs : process_output(r, c)
    BY <2>1, <2>7, process_outputStep
  <2>8. CASE process_barrier(r)
    BY <2>1, <2>8, process_barrierStep
  <2>9. CASE LeaveLoop(r)
    BY <2>1, <2>9, LeaveLoopStep
  <2>10. CASE Return(r)
    BY <2>1, <2>10, ReturnStep
  <2>11. QED
    BY <1>1, <2>2, <2>3, <2>4, <2>5, <2>6, <2>7, <2>8, <2>9, <2>10 DEF Communicate
<1>2. ASSUME NEW r \in Rank, Compute(r) PROVE FlowInv'
  <2>1. UNCHANGED settings
    BY <1>2 DEF Compute
  <2>2. CASE absorb_response(r)
    BY <2>1, <2>2, absorb_responseStep
  <2>3. CASE \E l \in Line : Home(l) = r /\ compute_microline(l)
    BY <2>1, <2>3, compute_microlineStep
  <2>4. CASE \E c \in accumulating : ContributionOwner[c] = r /\ accumulate(c)
    BY <2>1, <2>4, accumulateStep
  <2>5. QED
    BY <1>2, <2>2, <2>3, <2>4 DEF Compute
<1>3. CASE UNCHANGED vars
  <2> USE DEF FlowInv
  <2>1. /\ UNCHANGED <<pc, unscheduled, free, line, filled, block_requests, absorbing, microjobs, immediates,
                       requests, responses, outputs, sends, accumulating, accumulated, countdown, entered, released>>
        /\ UNCHANGED settings
    BY <1>3 DEF vars, comm, barrier
  <2>2. TypeOK'
    BY <2>1 DEF TypeOK, settings
  <2>3. RequestInv' /\ JobInv' /\ LineInv' /\ ScheduleInv' /\ MessageInv'
    BY <2>1, Primed DEF RequestInv, JobInv, LineInv, ScheduleInv, MessageInv
  <2>4. BarrierInv' /\ ResultInv' /\ ResourceInv'
    BY <2>1, SameIssued, SameCounts, BarrierKeeps, ResultKeeps, ResourceKeeps DEF TypeOK
  <2>5. QED
    BY <2>2, <2>3, <2>4
<1>4. QED
  BY <1>1, <1>2, <1>3 DEF Next

(***************************************************************************)
(* In every behaviour, whatever the ranks, lines, limits and orders, the   *)
(* counters of flow.cc count what is really outstanding.                   *)
(***************************************************************************)
THEOREM FlowInvariance == Spec => []FlowInv
<1>1. QED
  BY InitFlowInv, NextFlowInv, PTL DEF Spec

\* The variables of the flow keep their types.
THEOREM FlowTypeCorrect == Spec => []TypeOK
<1>1. FlowInv => TypeOK
  BY DEF FlowInv
<1>2. QED
  BY <1>1, FlowInvariance, PTL

\* A line that a request or a job still waits for has been allocated
LEMMA MissingMeansLive ==
  ASSUME FlowInv, NEW l \in Line,
         \/ \E b \in InBlock : Asks(block_requests[Home(l)], l, b) \/ Absorbs(absorbing, l, b)
         \/ microjobs[l] > 0
         \/ l \in immediates
         \/ \E c \in sends : c[1] = l
  PROVE  l \in Live
<1>1. LineOK(l, line[l], AskedOf(block_requests[Home(l)], l), MissingOf(block_requests[Home(l)], absorbing, l),
             microjobs[l], l \in immediates, SentOf(sends, l), filled)
  BY DEF FlowInv, LineInv, LinesHold
<1> SUFFICES ASSUME line[l].state # "allocated" PROVE FALSE
  BY DEF Live
<1>2. /\ MissingOf(block_requests[Home(l)], absorbing, l) = {} /\ microjobs[l] = 0
      /\ l \notin immediates /\ SentOf(sends, l) = {}
  BY <1>1 DEF LineOK
<1>3. \A c \in sends : c[1] # l
  BY <1>2, Contributions DEF FlowInv, TypeOK, SentOf
<1>4. \A b \in InBlock : ~Asks(block_requests[Home(l)], l, b) /\ ~Absorbs(absorbing, l, b)
  BY <1>2 DEF MissingOf
<1>5. ~(microjobs[l] > 0)
  BY <1>2
<1>6. QED
  BY <1>2, <1>3, <1>4, <1>5

(***************************************************************************)
(* No job, wakeup, send or request of flow.cc reaches a line that has been *)
(* deleted: the line's counters keep it until the last of them is gone.    *)
(***************************************************************************)
THEOREM NothingFreedIsUsed == Spec => []NoUseAfterFree
<1>1. ASSUME FlowInv PROVE NoUseAfterFree
  <2> USE <1>1
  <2> TypeOK /\ RequestInv /\ JobInv
    BY DEF FlowInv
  <2>1. \A a \in absorbing : \A i \in 1 .. Len(a.lines) : i = 1 \/ i >= a.next => a.lines[i] \in Live
    <3> SUFFICES ASSUME NEW a \in absorbing, NEW i \in 1 .. Len(a.lines), i = 1 \/ i >= a.next
                 PROVE  a.lines[i] \in Live
      OBVIOUS
    <3>1. a.lines[i] \in Line /\ a.block \in InBlock
      BY JobFields
    <3>2. Absorbs(absorbing, a.lines[i], a.block)
      BY DEF Absorbs
    <3>3. QED
      BY <3>1, <3>2, MissingMeansLive
  <2>2. \A l \in Line : microjobs[l] > 0 => l \in Live
    BY MissingMeansLive
  <2>3. immediates \subseteq Live
    BY MissingMeansLive DEF TypeOK
  <2>4. \A c \in sends : c[1] \in Live
    BY Contributions, MissingMeansLive DEF TypeOK
  <2>5. \A r \in Rank : \A q \in block_requests[r] : Range(q.lines) \subseteq Live
    <3> SUFFICES ASSUME NEW r \in Rank, NEW q \in block_requests[r], NEW l \in Range(q.lines)
                 PROVE  l \in Live
      OBVIOUS
    <3>1. q \in Request /\ Serves(q, r, line)
      BY Types DEF RequestInv, RequestsHold, RequestsOK
    <3>2. l \in Line /\ q.block \in InBlock /\ Home(l) = r
      BY <3>1, RequestFields DEF Serves
    <3>3. Asks(block_requests[Home(l)], l, q.block)
      BY <3>2 DEF Asks
    <3>4. QED
      BY <3>2, <3>3, MissingMeansLive
  <2>6. QED
    BY <2>1, <2>2, <2>3, <2>4, <2>5 DEF NoUseAfterFree
<1>2. QED
  BY <1>1, FlowInvariance, PTL

(***************************************************************************)
(* decrement_missing_input_blocks starts the microlines of a line after its*)
(* last input block is in place, although absorb_response counts the block *)
(* of the first line last.                                                 *)
(***************************************************************************)
THEOREM InputIsComplete == Spec => []ComputesOnCompleteInput
<1>1. ASSUME FlowInv PROVE ComputesOnCompleteInput
  <2> SUFFICES ASSUME NEW l \in Line, microjobs[l] > 0, NEW b \in InputsOf(l) PROVE <<l, b>> \in filled
    BY DEF ComputesOnCompleteInput
  <2> DEFINE d == line[l]
             M == MissingOf(block_requests[Home(l)], absorbing, l)
  <2>1. LineOK(l, d, AskedOf(block_requests[Home(l)], l), M,
               microjobs[l], l \in immediates, SentOf(sends, l), filled)
    BY <1>1 DEF FlowInv, LineInv, LinesHold
  <2>2. d.state = "allocated"
    BY <1>1, MissingMeansLive DEF Live
  <2>3. IsFiniteSet(M) /\ d.missing_input_blocks = Cardinality(M) /\ Cardinality(M) \in Nat
    BY <2>1, <2>2, Finite, Counting DEF LineOK
  <2> HIDE DEF d, M
  <2>4. microjobs[l] # 0
    OBVIOUS
  <2>5. ~(d.missing_input_blocks > 0)
    BY <2>1, <2>2, <2>4 DEF LineOK
  <2>6. Cardinality(M) = 0
    BY <2>3, <2>5
  <2>7. M = {}
    BY <2>3, <2>6, Counting
  <2>8. QED
    BY <2>1, <2>2, <2>7 DEF LineOK
<1>2. QED
  BY <1>1, FlowInvariance, PTL

(***************************************************************************)
(* free_memory, free_line_gathers and free_lines lose nothing and gain     *)
(* nothing: with what the allocated lines hold they make the limits.       *)
(***************************************************************************)
THEOREM LimitsAreKept == Spec => []ResourcesAddUp
<1>1. ASSUME FlowInv PROVE ResourcesAddUp
  <2> SUFFICES ASSUME NEW r \in Rank
               PROVE  LET own == {l \in Live : Home(l) = r}
                          waiting == {l \in own : line[l].missing_input_responses > 0}
                      IN free[r] = [memory |-> MemoryLimit - MemoryOf[own],
                                    gathers |-> GatherLimit - Cardinality(waiting),
                                    lines |-> LineLimit - Cardinality(own)]
    BY DEF ResourcesAddUp
  <2>1. {l \in Live : Home(l) = r} = Own(r, line)
    BY DEF Live, Own
  <2>2. {l \in Own(r, line) : line[l].missing_input_responses > 0} = Waiting(r, line)
    BY DEF Waiting
  <2>3. free[r] \in Available /\ ResourcesOK(r, line, free[r])
    BY <1>1, Types DEF FlowInv, ResourceInv
  <2>4. free[r] = [memory |-> free[r].memory, gathers |-> free[r].gathers, lines |-> free[r].lines]
    BY <2>3 DEF Available
  <2>5. free[r] = [memory |-> MemoryLimit - MemoryOf[Own(r, line)],
                   gathers |-> GatherLimit - Cardinality(Waiting(r, line)),
                   lines |-> LineLimit - Cardinality(Own(r, line))]
    BY <2>3, <2>4 DEF ResourcesOK
  <2>6. QED
    BY <2>1, <2>2, <2>5
<1>2. QED
  BY <1>1, FlowInvariance, PTL

LEMMA NothingIn ==
  ASSUME NEW s \in Seq(Line), DOMAIN s = {}
  PROVE  s = <<>>
<1>1. DOMAIN s = 1 .. Len(s) /\ Len(s) \in Nat
  OBVIOUS
<1>2. Len(s) = 0
  <2> DEFINE n == Len(s)
  <2>1. n \in Nat /\ 1 \notin 1 .. n
    BY <1>1
  <2> HIDE DEF n
  <2>2. n = 0
    BY <2>1
  <2>3. QED
    BY <2>2 DEF n
<1>3. QED
  BY <1>2, EmptySeq

\* Once a rank has left its loop every line of every rank has come and gone
LEMMA LeavingMeansDone ==
  ASSUME FlowInv, NEW r \in Rank, pc[r] \in {"join", "returned"}
  PROVE  /\ \A c \in Contribution : Issued(c[1]) /\ c \notin sends /\ c \notin outputs
         /\ \A l \in Line : line[l] = Deallocated
<1>1. BarrierInv /\ TypeOK
  BY DEF FlowInv
<1>2. entered = Rank
  BY <1>1 DEF BarrierInv
<1>3. ASSUME NEW s \in Rank PROVE ToSend(s) = {} /\ ToReceive(s) = {}
  <2> DEFINE x == Cardinality(ToSend(s))
             y == Cardinality(ToReceive(s))
  <2>1. x + y = 0 /\ x \in Nat /\ y \in Nat
    BY <1>1, <1>2, CountsAre DEF BarrierInv
  <2>2. x = 0 /\ y = 0
    <3> HIDE DEF x, y
    <3> QED
      BY <2>1
  <2>3. QED
    BY <2>2, CountsAre, Counting
<1>4. \A c \in Contribution : Issued(c[1]) /\ c \notin sends /\ c \notin outputs
  <2> TAKE c \in Contribution
  <2>1. Home(c[1]) \in Rank /\ ContributionOwner[c] \in Rank
    BY Contributions, HomeIs
  <2>2. QED
    BY <1>3, <2>1 DEF ToSend, ToReceive
<1>5. ASSUME NEW l \in Line PROVE line[l] = Deallocated
  <2>1. PICK b : b \in Outputs[l]
    BY Finite
  <2>2. <<l, b>> \in Contribution /\ <<l, b>>[1] = l
    BY <2>1, Contributions
  <2>3. Issued(l)
    BY <1>4, <2>2
  <2>4. line[l] \in LineState
    BY <1>1, Types
  <2>5. CASE line[l].state = "deallocated"
    BY <2>4, <2>5, NoLine
  <2>6. CASE line[l].state = "allocated" /\ line[l].missing_microlines = 0 /\ l \notin immediates
    <3>1. LineOK(l, line[l], AskedOf(block_requests[Home(l)], l), MissingOf(block_requests[Home(l)], absorbing, l),
                 microjobs[l], l \in immediates, SentOf(sends, l), filled)
      BY DEF FlowInv, LineInv, LinesHold
    <3>2. SentOf(sends, l) # {}
      BY <2>6, <3>1 DEF LineOK
    <3>3. PICK o \in OutBlock : <<l, o>> \in sends
      BY <3>2 DEF SentOf
    <3>4. <<l, o>> \in Contribution
      BY <1>1, <3>3 DEF TypeOK
    <3>5. QED
      BY <1>4, <3>3, <3>4
  <2>7. QED
    BY <2>3, <2>5, <2>6 DEF Issued, IssuedAs
<1>6. QED
  BY <1>4, <1>5

(***************************************************************************)
(* When a rank leaves its loop because the barrier is done, no rank has a  *)
(* message in flight, a request, an unscheduled line or a wakeup left.     *)
(***************************************************************************)
THEOREM BarrierMeansQuiet == Spec => []QuietWhenLeaving
<1>1. ASSUME FlowInv PROVE QuietWhenLeaving
  <2> SUFFICES ASSUME NEW r \in Rank, pc[r] \in {"join", "returned"}
               PROVE  /\ comm = <<{}, {}, {}, {}>>
                      /\ \A s \in Rank : unscheduled[s] = <<>> /\ block_requests[s] = {}
                      /\ immediates = {} /\ Live = {}
    BY DEF QuietWhenLeaving
  <2>1. TypeOK /\ RequestInv /\ ScheduleInv /\ MessageInv
    BY <1>1 DEF FlowInv
  <2>2. /\ \A c \in Contribution : c \notin sends /\ c \notin outputs
        /\ \A l \in Line : line[l] = Deallocated
    BY <1>1, LeavingMeansDone
  <2>3. Live = {}
    BY <2>2, NoLine DEF Live
  <2>4. immediates = {}
    BY <1>1, <2>1, <2>3, MissingMeansLive DEF TypeOK
  <2>5. sends = {} /\ outputs = {}
    BY <2>1, <2>2 DEF TypeOK
  <2>6. \A s \in Rank : block_requests[s] = {}
    <3> SUFFICES ASSUME NEW s \in Rank, NEW q \in block_requests[s] PROVE FALSE
      OBVIOUS
    <3>1. q \in Request /\ Serves(q, s, line)
      BY <2>1, Types DEF RequestInv, RequestsHold, RequestsOK
    <3>2. q.lines \in Seq(Line) /\ Len(q.lines) > 0 /\ q.block \in InBlock /\ Range(q.lines) \subseteq Line
      BY <3>1, RequestFields DEF Serves
    <3>3. Head(q.lines) \in Range(q.lines)
      BY <3>2, FirstWaits
    <3>4. Head(q.lines) \in Line /\ Home(Head(q.lines)) = s
      BY <3>1, <3>2, <3>3 DEF Serves
    <3>5. Asks(block_requests[s], Head(q.lines), q.block)
      BY <3>3 DEF Asks
    <3>6. Head(q.lines) \in Live
      BY <1>1, <3>2, <3>4, <3>5, MissingMeansLive
    <3>7. QED
      BY <2>3, <3>6
  <2>7. requests = {} /\ responses = {}
    <3> SUFFICES ASSUME NEW id \in requests \cup responses PROVE FALSE
      OBVIOUS
    <3>1. id[1] \in Line /\ Home(id[1]) \in Rank
      BY <2>1, HomeIs DEF TypeOK
    <3>2. QED
      BY <2>1, <2>6, <3>1 DEF MessageInv, MessagesHold
  <2>8. \A s \in Rank : unscheduled[s] = <<>>
    <3> SUFFICES ASSUME NEW s \in Rank PROVE unscheduled[s] = <<>>
      OBVIOUS
    <3>1. unscheduled[s] \in Seq(Line)
      BY <2>1 DEF TypeOK
    <3>2. \A l \in Range(unscheduled[s]) : l \in Line /\ Home(l) = s
      BY <2>1, <3>1, RangeIn DEF ScheduleInv, ScheduleOK
    <3>3. Range(unscheduled[s]) = {}
      BY <2>1, <2>2, <3>2, NoLine DEF ScheduleInv, ScheduleOK
    <3>4. DOMAIN unscheduled[s] = {}
      BY <3>3 DEF Range
    <3> DEFINE us == unscheduled[s]
    <3>5. us \in Seq(Line) /\ DOMAIN us = {}
      BY <3>1, <3>4
    <3> HIDE DEF us
    <3>6. us = <<>>
      BY <3>5, NothingIn
    <3>7. QED
      BY <3>6 DEF us
  <2>9. QED
    BY <2>3, <2>4, <2>5, <2>6, <2>7, <2>8 DEF comm
<1>2. QED
  BY <1>1, FlowInvariance, PTL

-----------------------------------------------------------------------------
(***************************************************************************)
(* The flow implements ComputeLines, liveness apart: whatever the limits,  *)
(* the orders and the interleaving, every contribution is accumulated once *)
(* and no rank returns before its own blocks are complete.                 *)
(***************************************************************************)
THEOREM FlowRefines == Spec => KeepsPromiseSafely
<1> DEFINE returned == {r \in Rank : pc[r] = "returned"}
<1>1. Init => Promise!Init
  BY DEF Init, Promise!Init
<1>2. ASSUME FlowInv, [Next]_vars PROVE [Promise!Next]_(Promise!vars)
  <2> USE <1>2
  <2> TypeOK /\ ResultInv /\ BarrierInv
    BY DEF FlowInv
  <2>1. ASSUME UNCHANGED <<accumulated, pc>> PROVE UNCHANGED Promise!vars
    BY <2>1 DEF Promise!vars
  <2>2. ASSUME NEW r \in Rank, pc[r] # "returned", NEW v, v # "returned",
               pc' = [pc EXCEPT ![r] = v], UNCHANGED accumulated
        PROVE  UNCHANGED Promise!vars
    <3>1. \A s \in Rank : pc'[s] = IF s = r THEN v ELSE pc[s]
      BY <2>2 DEF TypeOK
    <3>2. {s \in Rank : pc'[s] = "returned"} = {s \in Rank : pc[s] = "returned"}
      BY <2>2, <3>1
    <3>3. QED
      BY <2>2, <3>2 DEF Promise!vars
  <2>3. ASSUME NEW r \in Rank, Return(r) PROVE Promise!Next
    <3>1. pc[r] = "join" /\ JobsOf(r) = {} /\ pc' = [pc EXCEPT ![r] = "returned"] /\ accumulated' = accumulated
      BY <2>3 DEF Return
    <3>2. \A s \in Rank : pc'[s] = IF s = r THEN "returned" ELSE pc[s]
      BY <3>1 DEF TypeOK
    <3>3. {s \in Rank : pc'[s] = "returned"} = {s \in Rank : pc[s] = "returned"} \cup {r}
      BY <3>1, <3>2
    <3>4. ASSUME NEW c \in Contribution, ContributionOwner[c] = r PROVE accumulated[c] = 1
      <4>1. Issued(c[1]) /\ c \notin outputs
        BY <3>1, LeavingMeansDone
      <4>2. c \notin accumulating
        BY <3>1, <3>4 DEF JobsOf
      <4>3. QED
        BY <4>1, <4>2 DEF ResultInv
    <3>5. Promise!Return(r)
      BY <3>1, <3>3, <3>4 DEF Promise!Return
    <3>6. QED
      BY <3>5 DEF Promise!Next
  <2>4. ASSUME NEW c \in accumulating, accumulate(c) PROVE Promise!Next
    <3>1. c \in Contribution /\ accumulated' = [accumulated EXCEPT ![c] = @ + 1] /\ pc' = pc
      BY <2>4 DEF accumulate, TypeOK
    <3>2. accumulated[c] = 0 /\ pc[ContributionOwner[c]] # "returned"
      BY <3>1 DEF ResultInv
    <3>3. accumulated' = [accumulated EXCEPT ![c] = 1]
      BY <3>1, <3>2
    <3>4. Promise!Accumulate(c)
      BY <3>1, <3>2, <3>3 DEF Promise!Accumulate
    <3>5. QED
      BY <3>1, <3>4 DEF Promise!Next
  <2>5. CASE UNCHANGED vars
    BY <2>1, <2>5 DEF vars
  <2>6. ASSUME NEW r \in Rank, Communicate(r) PROVE [Promise!Next]_(Promise!vars)
    <3>1. CASE Start(r)
      BY <2>2, <3>1 DEF Start
    <3>2. CASE LeaveLoop(r)
      BY <2>2, <3>2 DEF LeaveLoop
    <3>3. CASE Return(r)
      BY <2>3, <3>3
    <3>4. CASE \E id \in requests : process_request(r, id)
      BY <2>1, <3>4 DEF process_request
    <3>5. CASE \E q \in block_requests[r] : process_response(r, q)
      BY <2>1, <3>5 DEF process_response
    <3>6. CASE wakeup(r)
      BY <2>1, <3>6 DEF wakeup
    <3>7. CASE \E c \in sends : finish_output_send(r, c)
      BY <2>1, <3>7 DEF finish_output_send
    <3>8. CASE \E c \in outputs : process_output(r, c)
      BY <2>1, <3>8 DEF process_output
    <3>9. CASE process_barrier(r)
      BY <2>1, <3>9 DEF process_barrier
    <3>10. QED
      BY <2>6, <3>1, <3>2, <3>3, <3>4, <3>5, <3>6, <3>7, <3>8, <3>9 DEF Communicate
  <2>7. ASSUME NEW r \in Rank, Compute(r) PROVE [Promise!Next]_(Promise!vars)
    <3>1. CASE absorb_response(r)
      BY <2>1, <3>1 DEF absorb_response
    <3>2. CASE \E l \in Line : Home(l) = r /\ compute_microline(l)
      BY <2>1, <3>2 DEF compute_microline
    <3>3. CASE \E c \in accumulating : ContributionOwner[c] = r /\ accumulate(c)
      BY <2>4, <3>3
    <3>4. QED
      BY <2>7, <3>1, <3>2, <3>3 DEF Compute
  <2>8. QED
    BY <2>5, <2>6, <2>7 DEF Next
<1>3. QED
  BY <1>1, <1>2, FlowInvariance, PTL DEF Spec, KeepsPromiseSafely, Promise!Safety
==============================================================================
