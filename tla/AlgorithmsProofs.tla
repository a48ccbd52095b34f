--------------------------- MODULE AlgorithmsProofs ---------------------------
(***************************************************************************)
(* The parts of Algorithms that are machines of their own, a list of MPI   *)
(* requests and the three block caches, for every memory a block takes,    *)
(* every limit, every list of requests and every sequence of calls:        *)
(* RequestsInv and CacheInv, and from them RequestsMatched and             *)
(* CacheKeepsRecent.  The list and each cache have an invariant about what *)
(* was done to it so far, kept by each of its operations.                  *)
(*                                                                         *)
(* After it, the wavelet; the functions by which slices are divided among  *)
(* ranks are in SlicesProofs.                                              *)
(***************************************************************************)
EXTENDS Algorithms, FiniteSetTheorems, SequenceTheorems, TLAPS

\* A nonempty set of naturals has a least element
LEMMA LeastOf ==
  ASSUME NEW S \in SUBSET Nat, S # {}
  PROVE  \E m \in S : \A k \in S : m <= k
<1> DEFINE Below == {ss \in Nat \X Nat : ss[1] < ss[2]}
<1>1. IsWellFoundedOn(Below, Nat)
  BY NatLessThanWellFounded DEF OpToRel
<1> HIDE DEF Below
<1>2. PICK m \in S : \A k \in S : ~(<<k, m>> \in Below)
  BY <1>1, WFMin
<1>3. \A k \in S : ~(k < m)
  BY <1>2 DEF Below
<1>4. QED
  BY <1>3

\* What is computed in m steps, each from the one before
InSteps(f, X, m, base, step) ==
  f \in [0 .. m -> X] /\ f[0] = base /\ \A n \in 1 .. m : f[n] = step[n][f[n - 1]]

LEMMA Recursion ==
  ASSUME NEW X, NEW m \in Nat, NEW base \in X, NEW step \in [1 .. m -> [X -> X]]
  PROVE  \E f : InSteps(f, X, m, base, step)
<1> DEFINE Steps(f, k) == /\ f \in [0 .. k -> X] /\ f[0] = base
                          /\ \A n \in 1 .. k : f[n] = step[n][f[n - 1]]
           Bad == {k \in 0 .. m : ~ \E f : Steps(f, k)}
<1>1. SUFFICES ASSUME Bad # {} PROVE FALSE
  <2>1. m \in 0 .. m
    OBVIOUS
  <2>2. \E f : Steps(f, m)
    BY <2>1
  <2>3. QED
    BY <2>2 DEF InSteps
<1>2. PICK k \in Bad : \A j \in Bad : k <= j
  <2>1. Bad \in SUBSET Nat
    OBVIOUS
  <2> HIDE DEF Bad
  <2>2. QED
    BY <1>1, <2>1, LeastOf
<1>3. k # 0
  <2> SUFFICES ASSUME k = 0 PROVE FALSE
    OBVIOUS
  <2>1. Steps([n \in 0 .. 0 |-> base], 0)
    OBVIOUS
  <2> HIDE DEF Steps
  <2>2. QED
    BY <1>2, <2>1
<1>4. k \in 1 .. m /\ k - 1 \in 0 .. m /\ ~(k <= k - 1)
  <2> HIDE DEF Steps
  <2> QED
    BY <1>2, <1>3
<1>5. PICK f : Steps(f, k - 1)
  <2> HIDE DEF Steps
  <2> QED
    BY <1>2, <1>4
<1> DEFINE g == [n \in 0 .. k |-> IF n = k THEN step[k][f[k - 1]] ELSE f[n]]
<1>6. step[k] \in [X -> X] /\ f[k - 1] \in X
  <2>1. k - 1 \in 0 .. k - 1
    BY <1>4
  <2>2. QED
    BY <1>4, <1>5, <2>1
<1>7. \A n \in 0 .. k : n # k => n \in 0 .. k - 1
  BY <1>4
<1>8. g \in [0 .. k -> X]
  BY <1>5, <1>6, <1>7
<1>9. g[0] = base
  BY <1>4, <1>5
<1>10. ASSUME NEW n \in 1 .. k PROVE g[n] = step[n][g[n - 1]]
  <2>1. n \in 0 .. k /\ n - 1 \in 0 .. k /\ n - 1 # k
    BY <1>4
  <2>2. g[n - 1] = f[n - 1]
    BY <2>1
  <2>3. CASE n = k
    BY <2>1, <2>2, <2>3
  <2>4. CASE n # k
    <3>1. n \in 1 .. k - 1
      BY <1>4, <2>4
    <3>2. g[n] = f[n]
      BY <2>1, <2>4
    <3> HIDE DEF g
    <3>3. QED
      BY <1>5, <2>2, <3>1, <3>2
  <2>5. QED
    BY <2>3, <2>4
<1>11. Steps(g, k)
  <2> HIDE DEF g
  <2> QED
    BY <1>8, <1>9, <1>10
<1>12. QED
  <2> HIDE DEF Steps, g
  <2> QED
    BY <1>2, <1>11

(***************************************************************************)
(* Sequences.                                                              *)
(***************************************************************************)
LEMMA RangeIs == \A s, x : x \in Range(s) <=> \E i \in DOMAIN s : x = s[i]
BY DEF Range

\* One more member
LEMMA Appended ==
  ASSUME NEW S, NEW s \in Seq(S), NEW l \in S
  PROVE  /\ Append(s, l) \in Seq(S)
         /\ Range(Append(s, l)) = Range(s) \cup {l}
         /\ IsInjective(s) /\ l \notin Range(s) => IsInjective(Append(s, l))
<1> DEFINE t == Append(s, l)
           n == Len(s)
<1>1. n \in Nat /\ DOMAIN s = 1 .. n
  OBVIOUS
<1>2. t \in Seq(S) /\ Len(t) = n + 1 /\ DOMAIN t = 1 .. n + 1
  OBVIOUS
<1>3. t[n + 1] = l /\ \A i \in 1 .. n : t[i] = s[i]
  OBVIOUS
<1> HIDE DEF t, n
<1>4. Range(t) = Range(s) \cup {l}
  <2>1. ASSUME NEW i \in 1 .. n + 1 PROVE t[i] \in Range(s) \cup {l}
    <3>1. i = n + 1 \/ i \in 1 .. n
      BY <1>1
    <3>2. QED
      BY <1>1, <1>3, <3>1, RangeIs
  <2>2. \A i \in 1 .. n : i \in 1 .. n + 1 /\ s[i] \in Range(t)
    BY <1>1, <1>2, <1>3, RangeIs
  <2>3. n + 1 \in 1 .. n + 1 /\ l \in Range(t)
    BY <1>1, <1>2, <1>3, RangeIs
  <2>4. QED
    BY <1>1, <1>2, <2>1, <2>2, <2>3, RangeIs
<1>5. ASSUME IsInjective(s), l \notin Range(s) PROVE IsInjective(t)
  <2> SUFFICES ASSUME NEW a \in 1 .. n + 1, NEW b \in 1 .. n + 1, a < b PROVE t[a] # t[b]
    BY <1>1, <1>2 DEF IsInjective
  <2>1. a \in 1 .. n /\ t[a] = s[a] /\ s[a] \in Range(s)
    BY <1>1, <1>3, RangeIs
  <2>2. CASE b = n + 1
    BY <1>3, <1>5, <2>1, <2>2
  <2>3. CASE b # n + 1
    <3>1. b \in 1 .. n /\ t[b] = s[b] /\ a # b
      BY <1>1, <1>3, <2>3
    <3>2. QED
      BY <1>1, <1>5, <2>1, <3>1 DEF IsInjective
  <2>4. QED
    BY <2>2, <2>3
<1>6. QED
  BY <1>2, <1>4, <1>5 DEF t

\* One sequence after the other
LEMMA Joins ==
  ASSUME NEW S, NEW s \in Seq(S), NEW t \in Seq(S)
  PROVE  /\ s \o t \in Seq(S)
         /\ Range(s \o t) = Range(s) \cup Range(t)
         /\ IsInjective(s) /\ IsInjective(t) /\ Range(s) \cap Range(t) = {} => IsInjective(s \o t)
<1> DEFINE u == s \o t
           n == Len(s)
           m == Len(t)
<1>1. n \in Nat /\ DOMAIN s = 1 .. n /\ m \in Nat /\ DOMAIN t = 1 .. m
  OBVIOUS
<1>2. u \in Seq(S) /\ Len(u) = n + m /\ DOMAIN u = 1 .. n + m
  OBVIOUS
<1>3. /\ \A i \in 1 .. n : u[i] = s[i]
      /\ \A i \in 1 .. n + m : i > n => u[i] = t[i - n] /\ i - n \in 1 .. m
  OBVIOUS
<1>4. \A i \in 1 .. m : n + i \in 1 .. n + m /\ u[n + i] = t[i]
  <2> TAKE i \in 1 .. m
  <2>1. n + i \in 1 .. n + m /\ n + i > n /\ n + i - n = i
    BY <1>1
  <2>2. QED
    BY <1>3, <2>1
<1> HIDE DEF u, n, m
<1>5. Range(u) = Range(s) \cup Range(t)
  <2>1. ASSUME NEW i \in 1 .. n + m PROVE u[i] \in Range(s) \cup Range(t)
    <3>1. i \in 1 .. n \/ i > n
      BY <1>1
    <3>2. QED
      BY <1>1, <1>3, <3>1, RangeIs
  <2>2. \A i \in 1 .. n : i \in 1 .. n + m /\ s[i] \in Range(u)
    BY <1>1, <1>2, <1>3, RangeIs
  <2>3. \A i \in 1 .. m : t[i] \in Range(u)
    BY <1>1, <1>2, <1>4, RangeIs
  <2>4. QED
    BY <1>1, <1>2, <2>1, <2>2, <2>3, RangeIs
<1>6. ASSUME IsInjective(s), IsInjective(t), Range(s) \cap Range(t) = {} PROVE IsInjective(u)
  <2> SUFFICES ASSUME NEW a \in 1 .. n + m, NEW b \in 1 .. n + m, a < b PROVE u[a] # u[b]
    BY <1>1, <1>2 DEF IsInjective
  <2>1. CASE b \in 1 .. n
    <3>1. a \in 1 .. n /\ a # b /\ u[a] = s[a] /\ u[b] = s[b]
      BY <1>1, <1>3, <2>1
    <3>2. QED
      BY <1>1, <1>6, <2>1, <3>1 DEF IsInjective
  <2>2. CASE a \in 1 .. n /\ b > n
    <3>1. u[a] \in Range(s) /\ u[b] \in Range(t)
      BY <1>1, <1>3, <2>2, RangeIs
    <3>2. QED
      BY <1>6, <3>1
  <2>3. CASE a > n
    <3>1. b > n
      BY <1>1, <2>3
    <3>2. /\ a - n \in 1 .. m /\ u[a] = t[a - n]
          /\ b - n \in 1 .. m /\ u[b] = t[b - n]
      BY <1>3, <2>3, <3>1
    <3>3. a - n # b - n
      BY <1>1
    <3>4. QED
      BY <1>1, <1>6, <3>2, <3>3 DEF IsInjective
  <2>4. QED
    BY <1>1, <2>1, <2>2, <2>3
<1>7. QED
  BY <1>2, <1>5, <1>6 DEF u, n

\* A sequence without duplicates has as many members as its length
LEMMA LengthIs ==
  ASSUME NEW S, NEW s \in Seq(S), IsInjective(s)
  PROVE  Len(s) = Cardinality(Range(s))
<1> DEFINE n == Len(s)
<1>1. n \in Nat /\ DOMAIN s = 1 .. n /\ IsFiniteSet(1 .. n) /\ Cardinality(1 .. n) = n
  <2>1. n \in Nat /\ DOMAIN s = 1 .. n
    OBVIOUS
  <2> HIDE DEF n
  <2>2. 1 \in Int /\ n \in Int /\ n - 1 + 1 = n /\ (1 > n => n = 0)
    BY <2>1
  <2>3. QED
    BY <2>1, <2>2, FS_Interval
<1>2. s \in Bijection(1 .. n, Range(s))
  BY <1>1, RangeIs DEF Bijection, Injection, Surjection, IsInjective, Range
<1>3. ExistsBijection(1 .. n, Range(s))
  BY <1>2 DEF ExistsBijection
<1>4. QED
  BY <1>1, <1>3, FS_Bijection

(***************************************************************************)
(* The list of requests.  Of each of its arrays the same places are left:  *)
(* those of the array of all places, once the same indices are removed.    *)
(***************************************************************************)
LEMMA MovedIs ==
  ASSUME NEW S, NEW x \in Seq(S), NEW j \in Nat
  PROVE  /\ MoveLast(x, Len(x), j) \in Seq(S)
         /\ j \in 1 .. Len(x) =>
              /\ Len(MoveLast(x, Len(x), j)) = Len(x) - 1
              /\ \A i \in 1 .. Len(x) - 1 : MoveLast(x, Len(x), j)[i] = x[IF i = j THEN Len(x) ELSE i]
<1> DEFINE n == Len(x)
           y == [x EXCEPT ![j] = x[n]]
           z == SubSeq(y, 1, n - 1)
<1>1. n \in Nat /\ x \in [1 .. n -> S]
  OBVIOUS
<1> HIDE DEF n
<1>2. y \in [1 .. n -> S]
  <2>1. ASSUME n # 0 PROVE x[n] \in S
    <3>1. n \in 1 .. n
      BY <1>1, <2>1
    <3>2. QED
      BY <1>1, <3>1
  <2>2. CASE n = 0
    <3>1. 1 .. n = {}
      BY <2>2
    <3>2. QED
      BY <1>1, <3>1
  <2>3. CASE n # 0
    BY <1>1, <2>1, <2>3
  <2>4. QED
    BY <2>2, <2>3
<1>3. \A i \in 1 .. n : y[i] = IF i = j THEN x[n] ELSE x[i]
  BY <1>1
<1>4. \A i \in 1 .. n - 1 : i \in 1 .. n /\ y[i] \in S
  <2> HIDE DEF y
  <2> QED
    BY <1>1, <1>2
<1> HIDE DEF y
<1>5. /\ z \in Seq(S)
      /\ Len(z) = IF 1 <= n - 1 THEN n - 1 - 1 + 1 ELSE 0
      /\ \A i \in 1 .. n - 1 - 1 + 1 : z[i] = y[1 + i - 1]
  <2>1. 1 \in Int /\ n - 1 \in Int
    BY <1>1
  <2>2. QED
    BY <1>4, <2>1, SubSeqProperties
<1> HIDE DEF z
<1>6. z = MoveLast(x, Len(x), j)
  BY DEF z, y, n, MoveLast
<1>7. \A i \in 1 .. n - 1 : z[i] = y[i]
  <2> TAKE i \in 1 .. n - 1
  <2>1. i \in 1 .. n - 1 - 1 + 1 /\ 1 + i - 1 = i
    BY <1>1
  <2>2. QED
    BY <1>5, <2>1
<1>8. \A i \in 1 .. n - 1 : z[i] = x[IF i = j THEN n ELSE i]
  BY <1>3, <1>4, <1>7
<1>9. j \in 1 .. n => Len(z) = n - 1
  <2> SUFFICES ASSUME j \in 1 .. n PROVE Len(z) = n - 1
    OBVIOUS
  <2>1. n >= 1
    BY <1>1
  <2>2. QED
    BY <1>1, <1>5, <2>1
<1>10. QED
  BY <1>5, <1>6, <1>8, <1>9 DEF n

\* The function that Removed computes
Removes(g, S, array, indices) ==
  /\ g \in [1 .. Len(array) + 1 -> Seq(S)]
  /\ Removed(array, indices) = g[1] /\ g[Len(array) + 1] = array
  /\ \A j \in 1 .. Len(array) :
       g[j] = IF j \in Reported(indices) THEN MoveLast(g[j + 1], Len(g[j + 1]), j) ELSE g[j + 1]

LEMMA RemovedSteps ==
  ASSUME NEW S, NEW array \in Seq(S), NEW indices
  PROVE  \E g : Removes(g, S, array, indices)
<1> DEFINE n == Len(array)
           Next_(x, j) == IF j \in Reported(indices) THEN MoveLast(x, Len(x), j) ELSE x
           Step(g, j) == IF j > n THEN array
                         ELSE IF j \in Reported(indices) THEN MoveLast(g[j + 1], Len(g[j + 1]), j) ELSE g[j + 1]
           gone == CHOOSE g : g = [j \in 1 .. n + 1 |-> Step(g, j)]
           step == [k \in 1 .. n |-> [x \in Seq(S) |-> Next_(x, n + 1 - k)]]
<1>1. n \in Nat /\ array \in Seq(S)
  OBVIOUS
<1>2. Removed(array, indices) = gone[1]
  BY DEF Removed
<1> HIDE DEF n
<1>3. step \in [1 .. n -> [Seq(S) -> Seq(S)]]
  <2>1. ASSUME NEW k \in 1 .. n, NEW x \in Seq(S) PROVE Next_(x, n + 1 - k) \in Seq(S)
    <3>1. n + 1 - k \in Nat
      BY <1>1
    <3>2. QED
      BY <3>1, MovedIs
  <2> HIDE DEF Next_
  <2>2. QED
    BY <2>1
<1> HIDE DEF step
<1>4. PICK f \in [0 .. n -> Seq(S)] : f[0] = array /\ \A k \in 1 .. n : f[k] = step[k][f[k - 1]]
  <2>1. PICK X : X = Seq(S)
    OBVIOUS
  <2>2. array \in X /\ step \in [1 .. n -> [X -> X]]
    BY <1>1, <1>3, <2>1
  <2>3. \E f \in [0 .. n -> X] : f[0] = array /\ \A k \in 1 .. n : f[k] = step[k][f[k - 1]]
    <3>1. PICK m \in Nat : m = n
      BY <1>1
    <3>2. PICK base \in X : base = array
      BY <2>2
    <3>3. PICK next \in [1 .. m -> [X -> X]] : next = step
      BY <2>2, <3>1
    <3>4. PICK f : InSteps(f, X, m, base, next)
      BY Recursion
    <3>5. QED
      BY <3>1, <3>2, <3>3, <3>4 DEF InSteps
  <2>4. QED
    BY <2>1, <2>3
<1>5. \A k \in 1 .. n : f[k] = Next_(f[k - 1], n + 1 - k)
  <2> TAKE k \in 1 .. n
  <2>1. k - 1 \in 0 .. n /\ f[k - 1] \in Seq(S)
    BY <1>1
  <2> HIDE DEF Next_
  <2>2. QED
    BY <1>4, <2>1 DEF step
<1> DEFINE g == [j \in 1 .. n + 1 |-> f[n + 1 - j]]
<1>6. g \in [1 .. n + 1 -> Seq(S)] /\ g[n + 1] = array
  <2>1. \A j \in 1 .. n + 1 : n + 1 - j \in 0 .. n
    BY <1>1
  <2>2. n + 1 \in 1 .. n + 1 /\ n + 1 - (n + 1) = 0
    BY <1>1
  <2>3. QED
    BY <1>4, <2>1, <2>2
<1>7. ASSUME NEW j \in 1 .. n PROVE g[j] = Next_(g[j + 1], j)
  <2>1. PICK k \in 1 .. n : k = n + 1 - j
    BY <1>1
  <2>2. n + 1 - k = j /\ j \in 1 .. n + 1 /\ j + 1 \in 1 .. n + 1 /\ k - 1 = n + 1 - (j + 1)
    BY <1>1, <2>1
  <2>3. g[j] = f[k] /\ g[j + 1] = f[k - 1]
    BY <2>1, <2>2
  <2>4. f[k] = Next_(f[k - 1], n + 1 - k)
    BY <1>5
  <2> HIDE DEF g, Next_
  <2>5. QED
    BY <2>2, <2>3, <2>4
<1> HIDE DEF g
<1>8. g = [j \in 1 .. n + 1 |-> Step(g, j)]
  <2>1. ASSUME NEW j \in 1 .. n + 1 PROVE g[j] = Step(g, j)
    <3>1. CASE j = n + 1
      BY <1>1, <1>6, <3>1
    <3>2. CASE j # n + 1
      <4>1. j \in 1 .. n /\ ~(j > n)
        BY <1>1, <3>2
      <4>2. QED
        BY <1>7, <4>1
    <3>3. QED
      BY <3>1, <3>2
  <2> HIDE DEF Step
  <2>2. QED
    BY <1>6, <2>1
<1>9. gone = [j \in 1 .. n + 1 |-> Step(gone, j)]
  <2> HIDE DEF Step
  <2> QED
    BY <1>8
<1> HIDE DEF gone
<1>10. \A d \in 0 .. n : gone[n + 1 - d] = g[n + 1 - d]
  <2> DEFINE Bad == {d \in 0 .. n : gone[n + 1 - d] # g[n + 1 - d]}
  <2> SUFFICES ASSUME Bad # {} PROVE FALSE
    OBVIOUS
  <2>1. PICK d \in Bad : \A e \in Bad : d <= e
    <3>1. Bad \in SUBSET Nat
      OBVIOUS
    <3> HIDE DEF Bad
    <3>2. QED
      BY <3>1, LeastOf
  <2> DEFINE j == n + 1 - d
  <2>2. j \in 1 .. n + 1 /\ d \in 0 .. n
    BY <1>1, <2>1
  <2>3. gone[j] # g[j]
    BY <2>1
  <2>4. gone[j] = Step(gone, j) /\ g[j] = Step(g, j)
    <3> HIDE DEF Step, j
    <3> QED
      BY <1>8, <1>9, <2>2
  <2>5. CASE d = 0
    <3>1. j > n
      BY <1>1, <2>5
    <3> HIDE DEF j
    <3>2. QED
      BY <2>3, <2>4, <3>1
  <2>6. CASE d # 0
    <3>1. d - 1 \in 0 .. n /\ ~(d <= d - 1) /\ n + 1 - (d - 1) = j + 1
      BY <1>1, <2>2, <2>6
    <3>2. d - 1 \notin Bad
      <4> HIDE DEF Bad
      <4> QED
        BY <2>1, <3>1
    <3>3. gone[j + 1] = g[j + 1]
      BY <3>1, <3>2
    <3> HIDE DEF j, Bad
    <3>4. QED
      BY <2>3, <2>4, <3>3
  <2>7. QED
    BY <2>5, <2>6
<1>11. gone[1] = g[1]
  <2>1. n \in 0 .. n /\ n + 1 - n = 1
    BY <1>1
  <2>2. QED
    BY <1>10, <2>1
<1>12. QED
  BY <1>2, <1>6, <1>7, <1>11 DEF n, Removes

\* Of the places 1 to n, x has those that are not removed from j on, each once, and
\* those before j are where they were
KeptFrom(n, R, x, j) ==
  /\ IsInjective(x)
  /\ \A v \in 1 .. n : v \in Range(x) <=> ~(v \in R /\ v >= j)
  /\ j - 1 <= Len(x) /\ \A i \in 1 .. j - 1 : x[i] = i

LEMMA KeptStep ==
  ASSUME NEW n \in Nat, NEW R, NEW j \in 1 .. n, j \in R,
         NEW x \in Seq(1 .. n), KeptFrom(n, R, x, j + 1)
  PROVE  /\ j \in 1 .. Len(x)
         /\ MoveLast(x, Len(x), j) \in Seq(1 .. n)
         /\ KeptFrom(n, R, MoveLast(x, Len(x), j), j)
<1> DEFINE m == Len(x)
           y == MoveLast(x, m, j)
<1>1. m \in Nat /\ x \in [1 .. m -> 1 .. n] /\ DOMAIN x = 1 .. m
  OBVIOUS
<1>2. j \in Nat /\ j + 1 - 1 = j
  OBVIOUS
<1>3. j \in 1 .. m /\ \A i \in 1 .. j : x[i] = i
  BY <1>1, <1>2 DEF KeptFrom
<1>4. /\ y \in Seq(1 .. n) /\ Len(y) = m - 1
      /\ \A i \in 1 .. m - 1 : y[i] = x[IF i = j THEN m ELSE i]
  BY <1>2, <1>3, MovedIs DEF m
<1> HIDE DEF m, y
<1>5. DOMAIN y = 1 .. m - 1 /\ \A i \in 1 .. m - 1 : y[i] \in 1 .. n
  BY <1>4
<1>6. \A i, k \in 1 .. m : x[i] = x[k] => i = k
  BY <1>1 DEF KeptFrom, IsInjective
<1> DEFINE From(i) == IF i = j THEN m ELSE i
<1>7. \A i \in 1 .. m - 1 : From(i) \in 1 .. m /\ From(i) # j
  BY <1>1, <1>3
<1>8. \A i, k \in 1 .. m - 1 : From(i) = From(k) => i = k
  BY <1>1, <1>3
<1>9. IsInjective(y)
  <2>1. \A i, k \in 1 .. m - 1 : y[i] = y[k] => i = k
    <3> HIDE DEF From
    <3>1. \A i \in 1 .. m - 1 : y[i] = x[From(i)]
      BY <1>4 DEF From
    <3>2. QED
      BY <1>6, <1>7, <1>8, <3>1
  <2>2. QED
    BY <1>5, <2>1 DEF IsInjective
<1>10. x[j] = j
  BY <1>2, <1>3
<1>11. ASSUME NEW v \in 1 .. n PROVE v \in Range(y) <=> ~(v \in R /\ v >= j)
  <2>1. v \in Range(x) <=> ~(v \in R /\ v >= j + 1)
    BY DEF KeptFrom
  <2>2. v \in Range(y) <=> v \in Range(x) /\ v # j
    <3>1. ASSUME v \in Range(y) PROVE v \in Range(x) /\ v # j
      <4>1. PICK i \in 1 .. m - 1 : v = y[i]
        BY <1>5, <3>1, RangeIs
      <4>2. v = x[From(i)] /\ From(i) \in 1 .. m /\ From(i) # j
        BY <1>4, <1>7, <4>1
      <4> HIDE DEF From
      <4>3. QED
        BY <1>1, <1>3, <1>6, <1>10, <4>2, RangeIs
    <3>2. ASSUME v \in Range(x), v # j PROVE v \in Range(y)
      <4>1. PICK i \in 1 .. m : v = x[i]
        BY <1>1, <3>2, RangeIs
      <4>2. i # j
        BY <1>10, <3>2, <4>1
      <4>3. CASE i = m
        <5>1. j \in 1 .. m - 1 /\ y[j] = x[m]
          BY <1>1, <1>3, <1>4, <4>2, <4>3
        <5>2. QED
          BY <1>5, <4>1, <4>3, <5>1, RangeIs
      <4>4. CASE i # m
        <5>1. i \in 1 .. m - 1 /\ y[i] = x[i]
          BY <1>1, <1>4, <4>2, <4>4
        <5>2. QED
          BY <1>5, <4>1, <5>1, RangeIs
      <4>5. QED
        BY <4>3, <4>4
    <3>3. QED
      BY <3>1, <3>2
  <2>3. v >= j <=> v >= j + 1 \/ v = j
    BY <1>2
  <2>4. QED
    BY <2>1, <2>2, <2>3
<1>12. j - 1 <= m - 1 /\ \A i \in 1 .. j - 1 : y[i] = i
  <2>1. j - 1 <= m - 1
    BY <1>1, <1>3
  <2>2. ASSUME NEW i \in 1 .. j - 1 PROVE y[i] = i
    <3>1. i \in 1 .. m - 1 /\ i # j /\ i \in 1 .. j
      BY <1>1, <1>3
    <3>2. QED
      BY <1>3, <1>4, <3>1
  <2>3. QED
    BY <2>1, <2>2
<1>13. KeptFrom(n, R, y, j)
  BY <1>4, <1>9, <1>11, <1>12 DEF KeptFrom
<1>14. QED
  BY <1>3, <1>4, <1>13 DEF y, m

Places(n) == [i \in 1 .. n |-> i]

\* What of the places is left, and that the same is left of any array
LEMMA RemovedIs ==
  ASSUME NEW S, NEW array \in Seq(S), NEW indices
  PROVE  LET n == Len(array)
             places == Removed(Places(n), indices)
         IN /\ places \in Seq(1 .. n) /\ IsInjective(places)
            /\ Range(places) = (1 .. n) \ Reported(indices)
            /\ Removed(array, indices) \in Seq(S) /\ Len(Removed(array, indices)) = Len(places)
            /\ \A i \in 1 .. Len(places) : Removed(array, indices)[i] = array[places[i]]
<1>0. PICK n \in Nat : n = Len(array)
  OBVIOUS
<1> DEFINE R == Reported(indices)
           p == Places(n)
<1>1. n \in Nat /\ array \in [1 .. n -> S]
  BY <1>0
<1>2. p \in Seq(1 .. n) /\ Len(p) = n /\ DOMAIN p = 1 .. n /\ \A i \in 1 .. n : p[i] = i
  BY <1>1 DEF Places
<1> HIDE DEF p
<1>3. PICK a \in [1 .. n + 1 -> Seq(S)] :
        /\ Removed(array, indices) = a[1] /\ a[n + 1] = array
        /\ \A j \in 1 .. n : a[j] = IF j \in R THEN MoveLast(a[j + 1], Len(a[j + 1]), j) ELSE a[j + 1]
  BY <1>0, RemovedSteps DEF Removes
<1>4. PICK x \in [1 .. n + 1 -> Seq(1 .. n)] :
        /\ Removed(p, indices) = x[1] /\ x[n + 1] = p
        /\ \A j \in 1 .. n : x[j] = IF j \in R THEN MoveLast(x[j + 1], Len(x[j + 1]), j) ELSE x[j + 1]
  <2>1. PICK X : X = 1 .. n
    OBVIOUS
  <2>2. PICK s \in Seq(X) : s = p
    BY <1>2, <2>1
  <2>3. Len(s) = n
    BY <1>2, <2>2
  <2>4. PICK x : Removes(x, X, s, indices)
    BY RemovedSteps
  <2>5. QED
    BY <2>1, <2>2, <2>3, <2>4 DEF Removes
<1> HIDE DEF R
<1> DEFINE Good(j) == /\ KeptFrom(n, R, x[j], j)
                      /\ Len(a[j]) = Len(x[j])
                      /\ \A i \in 1 .. Len(x[j]) : a[j][i] = array[x[j][i]]
<1>5. Good(n + 1)
  <2>1. \A v \in 1 .. n : v \in Range(p) /\ ~(v >= n + 1)
    BY <1>1, <1>2, RangeIs
  <2>2. n + 1 - 1 = n
    BY <1>1
  <2>3. IsInjective(p)
    BY <1>2 DEF IsInjective
  <2>4. KeptFrom(n, R, p, n + 1)
    BY <1>1, <1>2, <2>1, <2>2, <2>3 DEF KeptFrom
  <2>5. n + 1 \in 1 .. n + 1 /\ Len(array) = n
    BY <1>0
  <2>6. QED
    BY <1>2, <1>3, <1>4, <2>4, <2>5
<1>6. ASSUME NEW j \in 1 .. n, Good(j + 1) PROVE Good(j)
  <2>1. j + 1 \in 1 .. n + 1 /\ j \in 1 .. n + 1 /\ j \in Nat
    BY <1>1
  <2>2. PICK y \in Seq(1 .. n) : y = x[j + 1]
    BY <2>1
  <2>3. PICK b \in Seq(S) : b = a[j + 1]
    BY <2>1
  <2>4. /\ KeptFrom(n, R, y, j + 1) /\ Len(b) = Len(y)
        /\ \A i \in 1 .. Len(y) : b[i] = array[y[i]]
    BY <1>6, <2>2, <2>3
  <2>5. CASE j \notin R
    <3>1. x[j] = y /\ a[j] = b
      BY <1>3, <1>4, <2>2, <2>3, <2>5
    <3>2. KeptFrom(n, R, y, j)
      <4>1. \A v \in 1 .. n : v \in R => (v >= j <=> v >= j + 1)
        BY <1>1, <2>5
      <4>2. j - 1 <= Len(y) /\ \A i \in 1 .. j - 1 : y[i] = i
        <5>1. j + 1 - 1 = j /\ j - 1 <= j /\ \A i \in 1 .. j - 1 : i \in 1 .. j
          BY <2>1
        <5>2. j <= Len(y) /\ \A i \in 1 .. j : y[i] = i
          <6>1. j + 1 - 1 <= Len(y) /\ \A i \in 1 .. j + 1 - 1 : y[i] = i
            <7>1. PICK k : k = j + 1
              OBVIOUS
            <7>2. KeptFrom(n, R, y, k)
              BY <2>4, <7>1
            <7>3. k - 1 <= Len(y) /\ \A i \in 1 .. k - 1 : y[i] = i
              BY <7>2 DEF KeptFrom
            <7>4. QED
              BY <7>1, <7>3
          <6>2. QED
            BY <5>1, <6>1
        <5>3. PICK m \in Nat : m = Len(y)
          OBVIOUS
        <5>4. j - 1 <= m
          BY <2>1, <5>2, <5>3
        <5>5. QED
          BY <5>1, <5>2, <5>3, <5>4
      <4>3. QED
        BY <2>4, <4>1, <4>2 DEF KeptFrom
    <3>3. QED
      BY <2>4, <3>1, <3>2
  <2>6. CASE j \in R
    <3>1. /\ x[j] = MoveLast(y, Len(y), j)
          /\ a[j] = MoveLast(b, Len(b), j)
      BY <1>3, <1>4, <2>2, <2>3, <2>6
    <3>2. /\ j \in 1 .. Len(y) /\ MoveLast(y, Len(y), j) \in Seq(1 .. n)
          /\ KeptFrom(n, R, MoveLast(y, Len(y), j), j)
      BY <1>1, <2>4, <2>6, KeptStep
    <3>3. PICK m \in Nat : m = Len(y) /\ m = Len(b)
      BY <2>4
    <3>4. /\ Len(x[j]) = m - 1 /\ \A i \in 1 .. m - 1 : x[j][i] = y[IF i = j THEN m ELSE i]
      <4>1. /\ Len(MoveLast(y, Len(y), j)) = Len(y) - 1
            /\ \A i \in 1 .. Len(y) - 1 : MoveLast(y, Len(y), j)[i] = y[IF i = j THEN Len(y) ELSE i]
        <5>1. j \in 1 .. Len(y)
          BY <3>2, <3>3
        <5>2. j \in Nat
          BY <2>1
        <5>3. PICK T : T = 1 .. n
          OBVIOUS
        <5>4. PICK z \in Seq(T) : z = y
          BY <5>3
        <5>5. /\ Len(MoveLast(z, Len(z), j)) = Len(z) - 1
              /\ \A i \in 1 .. Len(z) - 1 : MoveLast(z, Len(z), j)[i] = z[IF i = j THEN Len(z) ELSE i]
          BY <5>1, <5>2, <5>4, MovedIs
        <5>6. QED
          BY <5>4, <5>5
      <4>2. QED
        BY <3>1, <3>3, <4>1
    <3>5. /\ Len(a[j]) = m - 1 /\ \A i \in 1 .. m - 1 : a[j][i] = b[IF i = j THEN m ELSE i]
      <4>1. /\ Len(MoveLast(b, Len(b), j)) = Len(b) - 1
            /\ \A i \in 1 .. Len(b) - 1 : MoveLast(b, Len(b), j)[i] = b[IF i = j THEN Len(b) ELSE i]
        <5>1. j \in 1 .. Len(b)
          BY <3>2, <3>3
        <5>2. j \in Nat
          BY <2>1
        <5>3. PICK T : T = S
          OBVIOUS
        <5>4. PICK z \in Seq(T) : z = b
          BY <5>3
        <5>5. /\ Len(MoveLast(z, Len(z), j)) = Len(z) - 1
              /\ \A i \in 1 .. Len(z) - 1 : MoveLast(z, Len(z), j)[i] = z[IF i = j THEN Len(z) ELSE i]
          BY <5>1, <5>2, <5>4, MovedIs
        <5>6. QED
          BY <5>4, <5>5
      <4>2. QED
        BY <3>1, <3>3, <4>1
    <3>6. \A i \in 1 .. m - 1 : (IF i = j THEN m ELSE i) \in 1 .. m
      BY <3>3
    <3>7. \A i \in 1 .. m - 1 : a[j][i] = array[x[j][i]]
      BY <2>4, <3>3, <3>4, <3>5, <3>6
    <3>8. QED
      BY <3>1, <3>2, <3>4, <3>5, <3>7
  <2>7. QED
    BY <2>5, <2>6
<1>7. Good(1)
  <2> DEFINE Bad == {d \in 0 .. n : ~Good(n + 1 - d)}
  <2>1. SUFFICES ASSUME Bad # {} PROVE FALSE
    <3>1. n \in 0 .. n /\ n + 1 - n = 1
      BY <1>1
    <3> HIDE DEF Good
    <3>2. QED
      BY <3>1
  <2> HIDE DEF Good
  <2>2. PICK d \in Bad : \A e \in Bad : d <= e
    <3>1. Bad \in SUBSET Nat
      OBVIOUS
    <3> HIDE DEF Bad
    <3>2. QED
      BY <2>1, <3>1, LeastOf
  <2>3. PICK j \in 1 .. n + 1 : j = n + 1 - d
    BY <1>1, <2>2
  <2>4. ~Good(j) /\ d \in 0 .. n
    BY <2>2, <2>3
  <2>5. j # n + 1
    BY <1>5, <2>4
  <2>6. d - 1 \in 0 .. n /\ ~(d <= d - 1) /\ n + 1 - (d - 1) = j + 1 /\ j \in 1 .. n
    BY <1>1, <2>3, <2>4, <2>5
  <2>7. d - 1 \notin Bad
    <3> HIDE DEF Bad
    <3> QED
      BY <2>2, <2>6
  <2>8. Good(j + 1)
    BY <2>6, <2>7
  <2>9. QED
    BY <1>6, <2>4, <2>6, <2>8
<1>8. 1 \in 1 .. n + 1 /\ x[1] \in Seq(1 .. n) /\ a[1] \in Seq(S)
  BY <1>1
<1>9. Range(x[1]) = (1 .. n) \ R
  <2>1. \A v \in Range(x[1]) : v \in 1 .. n
    <3>1. PICK y \in Seq(1 .. n) : y = x[1]
      BY <1>8
    <3>2. \A i \in DOMAIN y : y[i] \in 1 .. n
      <4>1. PICK T : T = 1 .. n
        OBVIOUS
      <4>2. PICK z \in Seq(T) : z = y
        BY <4>1
      <4>3. \A i \in DOMAIN z : z[i] \in T
        OBVIOUS
      <4>4. QED
        BY <4>1, <4>2, <4>3
    <3>3. QED
      BY <3>1, <3>2, RangeIs
  <2>2. \A v \in 1 .. n : v \in Range(x[1]) <=> v \notin R
    BY <1>7 DEF KeptFrom
  <2>3. QED
    BY <2>1, <2>2
<1>10. QED
  BY <1>0, <1>3, <1>4, <1>7, <1>8, <1>9 DEF p, R, KeptFrom

(***************************************************************************)
(* What is called: of the first m callbacks of d those that there are, in  *)
(* order.                                                                  *)
(***************************************************************************)
Upto(d, m) == {i \in 1 .. m : d[i] # NoCallback}
CallsUpto(q, d, m) ==
  /\ Len(q) = Cardinality(Upto(d, m))
  /\ \A i \in Upto(d, m) : q[Cardinality(Upto(d, i))] = d[i]

LEMMA UptoFinite ==
  ASSUME NEW d, NEW m \in Nat
  PROVE  IsFiniteSet(Upto(d, m)) /\ Cardinality(Upto(d, m)) \in Nat
<1>1. IsFiniteSet(1 .. m)
  BY FS_Interval
<1>2. Upto(d, m) \subseteq 1 .. m
  BY DEF Upto
<1>3. QED
  BY <1>1, <1>2, FS_Subset, FS_CardinalityType

LEMMA CallsStep ==
  ASSUME NEW S, NEW q \in Seq(S), NEW d, NEW m \in Nat, d[m + 1] \in S, CallsUpto(q, d, m)
  PROVE  CallsUpto(IF d[m + 1] = NoCallback THEN q ELSE Append(q, d[m + 1]), d, m + 1)
<1> DEFINE U == Upto(d, m)
           V == Upto(d, m + 1)
<1>1. m + 1 \in Nat /\ IsFiniteSet(U) /\ Cardinality(U) \in Nat
  BY UptoFinite
<1>2. \A i : i \in 1 .. m + 1 <=> i \in 1 .. m \/ i = m + 1
  OBVIOUS
<1>3. Len(q) = Cardinality(U) /\ \A i \in U : q[Cardinality(Upto(d, i))] = d[i]
  BY DEF CallsUpto
<1>4. CASE d[m + 1] = NoCallback
  <2>1. V = U
    BY <1>2, <1>4 DEF Upto
  <2>2. CallsUpto(q, d, m + 1)
    BY <1>3, <2>1 DEF CallsUpto
  <2>3. QED
    BY <1>4, <2>2
<1>5. CASE d[m + 1] # NoCallback
  <2>1. V = U \cup {m + 1} /\ m + 1 \notin U
    BY <1>2, <1>5 DEF Upto
  <2>2. Cardinality(V) = Cardinality(U) + 1
    <3>1. PICK W : W = U
      OBVIOUS
    <3>2. IsFiniteSet(W) /\ m + 1 \notin W
      BY <1>1, <2>1, <3>1
    <3>3. Cardinality(W \cup {m + 1}) = Cardinality(W) + 1
      BY <3>2, FS_AddElement
    <3>4. QED
      BY <2>1, <3>1, <3>3
  <2>3. PICK n \in Nat : n = Len(q)
    OBVIOUS
  <2>4. PICK x \in S : x = d[m + 1]
    OBVIOUS
  <2>5. Len(Append(q, x)) = n + 1 /\ Append(q, x)[n + 1] = x /\ \A k \in 1 .. n : Append(q, x)[k] = q[k]
    BY <2>3
  <2>6. ASSUME NEW i \in U PROVE Cardinality(Upto(d, i)) \in 1 .. n
    <3>1. i \in Nat /\ i \in 1 .. m
      BY DEF Upto
    <3>2. PICK W : W = Upto(d, i)
      OBVIOUS
    <3>3. W \subseteq U /\ i \in W
      BY <3>1, <3>2 DEF Upto
    <3>4. IsFiniteSet(W) /\ Cardinality(W) \in Nat
      BY <3>1, <3>2, UptoFinite
    <3>5. Cardinality(W) <= Cardinality(U)
      <4>1. PICK T : T = U
        OBVIOUS
      <4>2. Cardinality(W) <= Cardinality(T)
        BY <1>1, <3>3, <4>1, FS_Subset
      <4>3. QED
        BY <4>1, <4>2
    <3>6. Cardinality(W) # 0
      BY <3>3, <3>4, FS_EmptySet
    <3>7. Cardinality(W) <= n
      BY <1>3, <2>3, <3>5
    <3>8. QED
      BY <3>2, <3>4, <3>6, <3>7
  <2>7. Len(Append(q, x)) = Cardinality(V)
    BY <1>3, <2>2, <2>3, <2>5
  <2>8. ASSUME NEW i \in V PROVE Append(q, x)[Cardinality(Upto(d, i))] = d[i]
    <3>1. CASE i \in U
      BY <1>3, <2>5, <2>6, <3>1
    <3>2. CASE i = m + 1
      BY <1>3, <2>2, <2>3, <2>4, <2>5, <3>2
    <3>3. QED
      BY <2>1, <3>1, <3>2
  <2>9. CallsUpto(Append(q, x), d, m + 1)
    BY <2>7, <2>8 DEF CallsUpto
  <2>10. QED
    BY <1>5, <2>4, <2>9
<1>6. QED
  BY <1>4, <1>5

\* The function that Callable computes
Collects(g, S, callbacks) ==
  /\ g \in [0 .. Len(callbacks) -> Seq(S)]
  /\ g[0] = <<>> /\ Callable(callbacks) = g[Len(callbacks)]
  /\ \A i \in 1 .. Len(callbacks) : g[i] = IF callbacks[i] = NoCallback THEN g[i - 1] ELSE Append(g[i - 1], callbacks[i])

LEMMA CallableSteps ==
  ASSUME NEW S, NEW callbacks \in Seq(S)
  PROVE  \E g : Collects(g, S, callbacks)
<1> DEFINE n == Len(callbacks)
           Next_(x, i) == IF callbacks[i] = NoCallback THEN x ELSE Append(x, callbacks[i])
           Step(g, i) == IF i = 0 THEN <<>>
                         ELSE IF callbacks[i] = NoCallback THEN g[i - 1] ELSE Append(g[i - 1], callbacks[i])
           callable == CHOOSE g : g = [i \in 0 .. n |-> Step(g, i)]
           step == [k \in 1 .. n |-> [x \in Seq(S) |-> Next_(x, k)]]
<1>1. n \in Nat /\ \A i \in 1 .. n : callbacks[i] \in S
  OBVIOUS
<1>2. Callable(callbacks) = callable[n]
  BY DEF Callable
<1> HIDE DEF n
<1>3. step \in [1 .. n -> [Seq(S) -> Seq(S)]]
  <2>1. ASSUME NEW k \in 1 .. n, NEW x \in Seq(S) PROVE Next_(x, k) \in Seq(S)
    <3>1. PICK c \in S : c = callbacks[k]
      BY <1>1
    <3>2. Append(x, c) \in Seq(S)
      OBVIOUS
    <3>3. QED
      BY <3>1, <3>2
  <2> HIDE DEF Next_
  <2>2. QED
    BY <2>1
<1> HIDE DEF step
<1>4. PICK g \in [0 .. n -> Seq(S)] : g[0] = <<>> /\ \A k \in 1 .. n : g[k] = step[k][g[k - 1]]
  <2>1. PICK X : X = Seq(S)
    OBVIOUS
  <2>2. <<>> \in X /\ step \in [1 .. n -> [X -> X]]
    BY <1>1, <1>3, <2>1
  <2>3. \E f \in [0 .. n -> X] : f[0] = <<>> /\ \A k \in 1 .. n : f[k] = step[k][f[k - 1]]
    <3>1. PICK m \in Nat : m = n
      BY <1>1
    <3>2. PICK base \in X : base = <<>>
      BY <2>2
    <3>3. PICK next \in [1 .. m -> [X -> X]] : next = step
      BY <2>2, <3>1
    <3>4. PICK f : InSteps(f, X, m, base, next)
      BY Recursion
    <3>5. QED
      BY <3>1, <3>2, <3>3, <3>4 DEF InSteps
  <2>4. QED
    BY <2>1, <2>3
<1>5. \A k \in 1 .. n : g[k] = Next_(g[k - 1], k)
  <2> TAKE k \in 1 .. n
  <2>1. k - 1 \in 0 .. n /\ g[k - 1] \in Seq(S)
    BY <1>1
  <2> HIDE DEF Next_
  <2>2. QED
    BY <1>4, <2>1 DEF step
<1>6. g = [i \in 0 .. n |-> Step(g, i)]
  <2>1. ASSUME NEW i \in 0 .. n PROVE g[i] = Step(g, i)
    <3>1. CASE i = 0
      BY <1>4, <3>1
    <3>2. CASE i # 0
      <4>1. i \in 1 .. n
        BY <1>1, <3>2
      <4>2. QED
        BY <1>5, <3>2, <4>1
    <3>3. QED
      BY <3>1, <3>2
  <2> HIDE DEF Step
  <2>2. QED
    BY <1>4, <2>1
<1>7. callable = [i \in 0 .. n |-> Step(callable, i)]
  <2> HIDE DEF Step
  <2> QED
    BY <1>6
<1> HIDE DEF callable
<1>8. \A i \in 0 .. n : callable[i] = g[i]
  <2> DEFINE Bad == {i \in 0 .. n : callable[i] # g[i]}
  <2> SUFFICES ASSUME Bad # {} PROVE FALSE
    OBVIOUS
  <2>1. PICK i \in Bad : \A e \in Bad : i <= e
    <3>1. Bad \in SUBSET Nat
      OBVIOUS
    <3> HIDE DEF Bad
    <3>2. QED
      BY <3>1, LeastOf
  <2>2. i \in 0 .. n /\ callable[i] # g[i]
    BY <2>1
  <2>3. callable[i] = Step(callable, i) /\ g[i] = Step(g, i)
    <3> HIDE DEF Step
    <3> QED
      BY <1>6, <1>7, <2>2
  <2>4. i # 0
    BY <2>2, <2>3
  <2>5. i - 1 \in 0 .. n /\ ~(i <= i - 1)
    BY <1>1, <2>2, <2>4
  <2>6. callable[i - 1] = g[i - 1]
    BY <2>1, <2>5
  <2>7. QED
    BY <2>2, <2>3, <2>4, <2>6
<1>9. n \in 0 .. n
  BY <1>1
<1>10. QED
  BY <1>2, <1>4, <1>5, <1>8, <1>9 DEF n, Collects

\* What has been called, followed by what a report puts aside
LEMMA CallsJoined ==
  ASSUME NEW S, NEW q \in Seq(S), NEW c \in Seq(S), NEW callbacks \in Seq(S), CallsUpto(q, c, Len(c))
  PROVE  /\ q \o Callable(callbacks) \in Seq(S)
         /\ CallsUpto(q \o Callable(callbacks), c \o callbacks, Len(c \o callbacks))
<1>1. PICK g : Collects(g, S, callbacks)
  BY CallableSteps
<1>2. PICK n \in Nat : n = Len(callbacks)
  OBVIOUS
<1>3. PICK m \in Nat : m = Len(c)
  OBVIOUS
<1>4. PICK d \in Seq(S) : d = c \o callbacks
  BY Joins
<1>5. /\ Len(d) = m + n
      /\ \A i \in 1 .. m : d[i] = c[i]
      /\ \A i \in 1 .. n : d[m + i] = callbacks[i]
  <2>1. ASSUME NEW i \in 1 .. n PROVE d[m + i] = callbacks[i]
    <3>1. m + i \in 1 .. m + n /\ m + i > m /\ m + i - m = i
      OBVIOUS
    <3>2. QED
      BY <1>2, <1>3, <1>4, <3>1
  <2>2. QED
    BY <1>2, <1>3, <1>4, <2>1
<1>6. /\ g \in [0 .. n -> Seq(S)] /\ g[0] = <<>> /\ Callable(callbacks) = g[n]
      /\ \A i \in 1 .. n : g[i] = IF callbacks[i] = NoCallback THEN g[i - 1] ELSE Append(g[i - 1], callbacks[i])
  BY <1>1, <1>2 DEF Collects
<1> DEFINE Good(i) == CallsUpto(q \o g[i], d, m + i)
<1>7. Good(0)
  <2>1. q \o g[0] = q /\ m + 0 = m
    BY <1>6
  <2>2. \A i : i \in 1 .. m => d[i] = c[i] /\ \A k \in 1 .. i : k \in 1 .. m
    BY <1>5
  <2>3. \A i \in 1 .. m : Upto(d, i) = Upto(c, i)
    BY <2>2 DEF Upto
  <2>4. Upto(d, m) = Upto(c, m)
    BY <2>2 DEF Upto
  <2>5. CallsUpto(q, c, m)
    BY <1>3
  <2>6. \A i \in Upto(d, m) : i \in 1 .. m
    BY DEF Upto
  <2>7. CallsUpto(q, d, m)
    BY <2>2, <2>3, <2>4, <2>5, <2>6 DEF CallsUpto
  <2>8. QED
    BY <2>1, <2>7
<1>8. ASSUME NEW i \in 1 .. n, Good(i - 1) PROVE Good(i)
  <2>1. i - 1 \in 0 .. n /\ m + (i - 1) \in Nat /\ m + (i - 1) + 1 = m + i
    OBVIOUS
  <2>2. PICK h \in Seq(S) : h = g[i - 1]
    BY <1>6, <2>1
  <2>3. PICK k \in Nat : k = m + (i - 1)
    BY <2>1
  <2>4. PICK x \in S : x = callbacks[i]
    BY <1>2
  <2>5. d[k + 1] = x
    BY <1>5, <2>1, <2>3, <2>4
  <2>6. PICK r \in Seq(S) : r = q \o h
    BY Joins
  <2>7. CallsUpto(r, d, k)
    BY <1>8, <2>2, <2>3, <2>6
  <2>8. CallsUpto(IF d[k + 1] = NoCallback THEN r ELSE Append(r, d[k + 1]), d, k + 1)
    BY <2>5, <2>7, CallsStep
  <2>9. Append(r, x) = q \o Append(h, x)
    <3>1. PICK v \in Seq(S) : v = Append(h, x)
      BY AppendProperties
    <3>2. PICK u \in Seq(S) : u = q \o v
      BY Joins
    <3>3. PICK t \in Seq(S) : t = Append(r, x)
      BY AppendProperties
    <3>4. PICK a \in Nat : a = Len(q)
      OBVIOUS
    <3>5. PICK b \in Nat : b = Len(h)
      OBVIOUS
    <3>6. Len(v) = b + 1 /\ v[b + 1] = x /\ \A j \in 1 .. b : v[j] = h[j]
      BY <3>1, <3>5
    <3>7. Len(r) = a + b /\ \A j \in 1 .. a + b : r[j] = IF j <= a THEN q[j] ELSE h[j - a]
      <4>1. Len(r) = Len(q) + Len(h) /\ \A j \in 1 .. Len(q) + Len(h) : r[j] = IF j <= Len(q) THEN q[j] ELSE h[j - Len(q)]
        BY <2>6, ConcatProperties
      <4>2. QED
        BY <3>4, <3>5, <4>1
    <3>8. Len(u) = a + (b + 1) /\ \A j \in 1 .. a + (b + 1) : u[j] = IF j <= a THEN q[j] ELSE v[j - a]
      <4>1. Len(u) = Len(q) + Len(v) /\ \A j \in 1 .. Len(q) + Len(v) : u[j] = IF j <= Len(q) THEN q[j] ELSE v[j - Len(q)]
        BY <3>2, ConcatProperties
      <4>2. QED
        BY <3>4, <3>6, <4>1
    <3>9. /\ Len(t) = a + b + 1 /\ t[a + b + 1] = x
          /\ \A j \in 1 .. a + b : t[j] = r[j]
      <4>1. Len(t) = Len(r) + 1 /\ t[Len(r) + 1] = x /\ \A j \in 1 .. Len(r) : t[j] = r[j]
        BY <3>3, AppendProperties
      <4>2. PICK l \in Nat : l = Len(r)
        OBVIOUS
      <4>3. l = a + b
        BY <3>7, <4>2
      <4>4. QED
        BY <4>1, <4>2, <4>3
    <3>10. Len(t) = Len(u)
      BY <3>8, <3>9
    <3>11. ASSUME NEW j \in 1 .. a + b + 1 PROVE t[j] = u[j]
      <4>1. j \in 1 .. a + (b + 1)
        OBVIOUS
      <4>2. CASE j <= a
        <5>1. j \in 1 .. a + b
          BY <4>2
        <5>2. QED
          BY <3>7, <3>8, <3>9, <4>1, <4>2, <5>1
      <4>3. CASE j > a /\ j <= a + b
        <5>1. j \in 1 .. a + b /\ j - a \in 1 .. b /\ ~(j <= a)
          BY <4>3
        <5>2. QED
          BY <3>6, <3>7, <3>8, <3>9, <4>1, <5>1
      <4>4. CASE j = a + b + 1
        <5>1. j - a = b + 1 /\ ~(j <= a)
          BY <4>4
        <5>2. t[j] = x
          BY <3>9, <4>4
        <5>3. u[j] = v[j - a]
          BY <3>8, <4>1, <5>1
        <5>4. QED
          BY <3>6, <5>1, <5>2, <5>3
      <4>5. j <= a \/ (j > a /\ j <= a + b) \/ j = a + b + 1
        OBVIOUS
      <4>6. QED
        BY <4>2, <4>3, <4>4, <4>5
    <3>12. t \in [1 .. a + b + 1 -> S] /\ u \in [1 .. a + b + 1 -> S]
      BY <3>9, <3>10
    <3>13. t = u
      BY <3>11, <3>12
    <3>14. QED
      BY <3>1, <3>2, <3>3, <3>13
  <2>10. q \o g[i] = IF x = NoCallback THEN r ELSE Append(r, x)
    BY <1>6, <2>2, <2>4, <2>6, <2>9
  <2>11. QED
    BY <2>1, <2>3, <2>5, <2>8, <2>10
<1>9. Good(n)
  <2> DEFINE Bad == {i \in 0 .. n : ~Good(i)}
  <2>1. SUFFICES ASSUME Bad # {} PROVE FALSE
    <3>1. n \in 0 .. n
      OBVIOUS
    <3> HIDE DEF Good
    <3>2. QED
      BY <3>1
  <2> HIDE DEF Good
  <2>2. PICK i \in Bad : \A e \in Bad : i <= e
    <3>1. Bad \in SUBSET Nat
      OBVIOUS
    <3> HIDE DEF Bad
    <3>2. QED
      BY <2>1, <3>1, LeastOf
  <2>3. i \in 0 .. n /\ ~Good(i) /\ i # 0
    BY <1>7, <2>2
  <2>4. i \in 1 .. n /\ i - 1 \in 0 .. n /\ ~(i <= i - 1)
    BY <2>3
  <2>5. Good(i - 1)
    BY <2>2, <2>4
  <2>6. QED
    BY <1>8, <2>3, <2>4, <2>5
<1>10. n \in 0 .. n /\ g[n] \in Seq(S)
  BY <1>6
<1>11. q \o g[n] \in Seq(S)
  BY <1>10
<1>12. QED
  BY <1>4, <1>5, <1>6, <1>9, <1>11

(***************************************************************************)
(* The list after any number of steps: each place of its three arrays is   *)
(* about one request, requests are in the list or have completed, and what *)
(* has been called is what those completed have to call, in that order.    *)
(***************************************************************************)
CallbackSet == {CallbackOf(i) : i \in Nat}
CallbacksOf(c) == [i \in DOMAIN c |-> CallbackOf(c[i])]
MayCancel(i) == CallbackOf(i) = NoCallback \/ Cancellable(i)

InParallel(requests, callbacks, cancellables) ==
  /\ requests \in Seq(Nat) /\ callbacks \in Seq(CallbackSet) /\ cancellables \in Seq(BOOLEAN)
  /\ Len(callbacks) = Len(requests) /\ Len(cancellables) = Len(requests)
  /\ \A i \in 1 .. Len(requests) : callbacks[i] = CallbackOf(requests[i]) /\ cancellables[i] = MayCancel(requests[i])

EachOnce(steps, requests, completed) ==
  /\ steps \in Nat /\ completed \in Seq(Nat)
  /\ IsInjective(requests) /\ IsInjective(completed)
  /\ Range(completed) \subseteq 1 .. steps
  /\ Range(requests) = (1 .. steps) \ Range(completed)

AllCalled(completed, called) ==
  called \in Seq(CallbackSet) /\ CallsUpto(called, CallbacksOf(completed), Len(completed))

LEMMA CallbacksAre ==
  ASSUME NEW c \in Seq(Nat)
  PROVE  CallbacksOf(c) \in Seq(CallbackSet) /\ Len(CallbacksOf(c)) = Len(c)
<1>1. PICK n \in Nat : n = Len(c)
  OBVIOUS
<1>2. DOMAIN c = 1 .. n /\ \A i \in 1 .. n : c[i] \in Nat
  BY <1>1
<1>3. \A i \in 1 .. n : CallbackOf(c[i]) \in CallbackSet
  BY <1>2 DEF CallbackSet
<1>4. CallbacksOf(c) \in [1 .. n -> CallbackSet]
  BY <1>2, <1>3 DEF CallbacksOf
<1>5. QED
  BY <1>1, <1>4

LEMMA ParallelAdded ==
  ASSUME NEW requests, NEW callbacks, NEW cancellables, InParallel(requests, callbacks, cancellables), NEW k \in Nat
  PROVE  InParallel(Append(requests, k), Append(callbacks, CallbackOf(k)), Append(cancellables, MayCancel(k)))
<1>1. PICK r \in Seq(Nat) : r = requests
  BY DEF InParallel
<1>2. PICK s \in Seq(CallbackSet) : s = callbacks
  BY DEF InParallel
<1>3. PICK t \in Seq(BOOLEAN) : t = cancellables
  BY DEF InParallel
<1>4. PICK c \in CallbackSet : c = CallbackOf(k)
  BY DEF CallbackSet
<1>5. PICK b \in BOOLEAN : b = MayCancel(k)
  BY DEF MayCancel, Cancellable
<1>6. PICK n \in Nat : n = Len(r)
  OBVIOUS
<1>7. Len(r) = n /\ Len(s) = n /\ Len(t) = n /\ \A i \in 1 .. n : s[i] = CallbackOf(r[i]) /\ t[i] = MayCancel(r[i])
  BY <1>1, <1>2, <1>3, <1>6 DEF InParallel
<1>8. /\ Append(r, k) \in Seq(Nat) /\ Len(Append(r, k)) = n + 1
      /\ Append(r, k)[n + 1] = k /\ \A i \in 1 .. n : Append(r, k)[i] = r[i]
  BY <1>7, AppendProperties
<1>9. /\ Append(s, c) \in Seq(CallbackSet) /\ Len(Append(s, c)) = n + 1
      /\ Append(s, c)[n + 1] = c /\ \A i \in 1 .. n : Append(s, c)[i] = s[i]
  BY <1>7, AppendProperties
<1>10. /\ Append(t, b) \in Seq(BOOLEAN) /\ Len(Append(t, b)) = n + 1
       /\ Append(t, b)[n + 1] = b /\ \A i \in 1 .. n : Append(t, b)[i] = t[i]
  BY <1>7, AppendProperties
<1>11. ASSUME NEW i \in 1 .. n + 1
       PROVE  Append(s, c)[i] = CallbackOf(Append(r, k)[i]) /\ Append(t, b)[i] = MayCancel(Append(r, k)[i])
  <2>1. i \in 1 .. n \/ i = n + 1
    OBVIOUS
  <2>2. QED
    BY <1>4, <1>5, <1>7, <1>8, <1>9, <1>10, <2>1
<1>12. InParallel(Append(r, k), Append(s, c), Append(t, b))
  BY <1>8, <1>9, <1>10, <1>11 DEF InParallel
<1>13. QED
  BY <1>1, <1>2, <1>3, <1>4, <1>5, <1>12

LEMMA OnceAdded ==
  ASSUME NEW steps, NEW requests \in Seq(Nat), NEW completed, EachOnce(steps, requests, completed)
  PROVE  EachOnce(steps + 1, Append(requests, steps + 1), completed)
<1>1. PICK n \in Nat : n = steps
  BY DEF EachOnce
<1>2. PICK k \in Nat : k = n + 1
  OBVIOUS
<1>3. k \notin 1 .. n /\ 1 .. k = (1 .. n) \cup {k}
  BY <1>2
<1>4. /\ completed \in Seq(Nat) /\ IsInjective(requests) /\ IsInjective(completed)
      /\ Range(completed) \subseteq 1 .. n /\ Range(requests) = (1 .. n) \ Range(completed)
  BY <1>1 DEF EachOnce
<1>5. k \notin Range(requests)
  BY <1>3, <1>4
<1>6. /\ Append(requests, k) \in Seq(Nat) /\ IsInjective(Append(requests, k))
      /\ Range(Append(requests, k)) = Range(requests) \cup {k}
  BY <1>4, <1>5, Appended, SMTT(30)
<1>7. EachOnce(k, Append(requests, k), completed)
  BY <1>3, <1>4, <1>6 DEF EachOnce
<1>8. QED
  BY <1>1, <1>2, <1>7

LEMMA ParallelReported ==
  ASSUME NEW requests, NEW callbacks, NEW cancellables, InParallel(requests, callbacks, cancellables), NEW indices
  PROVE  InParallel(Removed(requests, indices), Removed(callbacks, indices), Removed(cancellables, indices))
<1>1. PICK r \in Seq(Nat) : r = requests
  BY DEF InParallel
<1>2. PICK s \in Seq(CallbackSet) : s = callbacks
  BY DEF InParallel
<1>3. PICK t \in Seq(BOOLEAN) : t = cancellables
  BY DEF InParallel
<1>4. PICK n \in Nat : n = Len(r)
  OBVIOUS
<1>5. Len(r) = n /\ Len(s) = n /\ Len(t) = n /\ \A i \in 1 .. n : s[i] = CallbackOf(r[i]) /\ t[i] = MayCancel(r[i])
  BY <1>1, <1>2, <1>3, <1>4 DEF InParallel
<1>6. PICK places : places = Removed(Places(n), indices)
  OBVIOUS
<1>7. /\ Removed(r, indices) \in Seq(Nat) /\ Len(Removed(r, indices)) = Len(places)
      /\ \A i \in 1 .. Len(places) : Removed(r, indices)[i] = r[places[i]]
      /\ places \in Seq(1 .. n)
  BY <1>5, <1>6, RemovedIs
<1>8. /\ Removed(s, indices) \in Seq(CallbackSet) /\ Len(Removed(s, indices)) = Len(places)
      /\ \A i \in 1 .. Len(places) : Removed(s, indices)[i] = s[places[i]]
  <2>1. PICK X : X = CallbackSet
    OBVIOUS
  <2>2. s \in Seq(X)
    BY <2>1
  <2>3. QED
    BY <1>5, <1>6, <2>1, <2>2, RemovedIs, SMTT(30)
<1>9. /\ Removed(t, indices) \in Seq(BOOLEAN) /\ Len(Removed(t, indices)) = Len(places)
      /\ \A i \in 1 .. Len(places) : Removed(t, indices)[i] = t[places[i]]
  <2>1. PICK X : X = BOOLEAN
    OBVIOUS
  <2>2. t \in Seq(X)
    BY <2>1
  <2>3. QED
    BY <1>5, <1>6, <2>1, <2>2, RemovedIs
<1>10. \A i \in 1 .. Len(places) : places[i] \in 1 .. n
  BY <1>7
<1>11. InParallel(Removed(r, indices), Removed(s, indices), Removed(t, indices))
  <2>1. PICK l \in Nat : l = Len(places)
    BY <1>7
  <2>2. PICK r2 \in Seq(Nat) : r2 = Removed(r, indices)
    BY <1>7
  <2>3. PICK s2 \in Seq(CallbackSet) : s2 = Removed(s, indices)
    BY <1>8
  <2>4. PICK t2 \in Seq(BOOLEAN) : t2 = Removed(t, indices)
    BY <1>9
  <2>5. Len(r2) = l /\ Len(s2) = l /\ Len(t2) = l
    BY <1>7, <1>8, <1>9, <2>1, <2>2, <2>3, <2>4
  <2>6. ASSUME NEW i \in 1 .. l PROVE s2[i] = CallbackOf(r2[i]) /\ t2[i] = MayCancel(r2[i])
    <3>1. PICK v \in 1 .. n : v = places[i]
      BY <1>10, <2>1
    <3>2. r2[i] = r[v] /\ s2[i] = s[v] /\ t2[i] = t[v]
      BY <1>7, <1>8, <1>9, <2>1, <2>2, <2>3, <2>4, <3>1
    <3>3. QED
      BY <1>5, <3>2
  <2>7. InParallel(r2, s2, t2)
    BY <2>5, <2>6 DEF InParallel
  <2>8. QED
    BY <2>2, <2>3, <2>4, <2>7
<1>12. QED
  BY <1>1, <1>2, <1>3, <1>11

\* The requests at the indices that are reported
At(x, indices) == [i \in DOMAIN indices |-> x[indices[i]]]

LEMMA AtIs ==
  ASSUME NEW S, NEW x \in Seq(S), NEW m \in Nat, NEW indices \in [1 .. m -> DOMAIN x]
  PROVE  /\ At(x, indices) \in Seq(S) /\ Len(At(x, indices)) = m
         /\ Range(At(x, indices)) = {x[v] : v \in Reported(indices)}
         /\ IsInjective(indices) /\ IsInjective(x) => IsInjective(At(x, indices))
<1>1. PICK n \in Nat : n = Len(x)
  OBVIOUS
<1>2. DOMAIN x = 1 .. n /\ \A i \in 1 .. n : x[i] \in S
  BY <1>1
<1>3. DOMAIN indices = 1 .. m /\ \A i \in 1 .. m : indices[i] \in 1 .. n
  BY <1>2
<1>4. PICK y : y = At(x, indices)
  OBVIOUS
<1>5. y \in [1 .. m -> S] /\ \A i \in 1 .. m : y[i] = x[indices[i]]
  BY <1>2, <1>3, <1>4 DEF At
<1>6. y \in Seq(S) /\ Len(y) = m /\ DOMAIN y = 1 .. m
  BY <1>5
<1>7. Range(y) = {x[v] : v \in Reported(indices)}
  <2>1. Range(y) = {y[i] : i \in 1 .. m}
    BY <1>6 DEF Range
  <2>2. Reported(indices) = {indices[i] : i \in 1 .. m}
    BY <1>3 DEF Reported
  <2>3. \A z : z \in Range(y) <=> \E i \in 1 .. m : z = x[indices[i]]
    BY <1>5, <2>1
  <2>4. \A z : z \in {x[v] : v \in Reported(indices)} <=> \E i \in 1 .. m : z = x[indices[i]]
    BY <2>2
  <2>5. QED
    BY <2>3, <2>4
<1>8. IsInjective(indices) /\ IsInjective(x) => IsInjective(y)
  BY <1>2, <1>3, <1>5, <1>6 DEF IsInjective
<1>9. QED
  BY <1>4, <1>6, <1>7, <1>8

LEMMA OnceReported ==
  ASSUME NEW steps, NEW requests \in Seq(Nat), NEW completed, EachOnce(steps, requests, completed),
         NEW m \in Nat, NEW indices \in [1 .. m -> DOMAIN requests], IsInjective(indices)
  PROVE  EachOnce(steps, Removed(requests, indices), completed \o At(requests, indices))
<1>1. PICK n \in Nat : n = Len(requests)
  OBVIOUS
<1>2. DOMAIN requests = 1 .. n /\ \A i \in 1 .. n : requests[i] \in Nat
  BY <1>1
<1>3. /\ steps \in Nat /\ completed \in Seq(Nat) /\ IsInjective(requests) /\ IsInjective(completed)
      /\ Range(completed) \subseteq 1 .. steps /\ Range(requests) = (1 .. steps) \ Range(completed)
  BY DEF EachOnce
<1>4. PICK places : places = Removed(Places(n), indices)
  OBVIOUS
<1>5. PICK left : left = Removed(requests, indices)
  OBVIOUS
<1>6. /\ places \in Seq(1 .. n) /\ IsInjective(places) /\ Range(places) = (1 .. n) \ Reported(indices)
      /\ left \in Seq(Nat) /\ Len(left) = Len(places)
      /\ \A i \in 1 .. Len(places) : left[i] = requests[places[i]]
  <2>1. PICK S : S = Nat
    OBVIOUS
  <2>2. PICK r \in Seq(S) : r = requests
    BY <2>1
  <2>3. PICK z : z = Places(Len(r)) /\ places = Removed(z, indices)
    BY <1>1, <1>4, <2>2
  <2>4. LET t == Len(r) IN
        /\ Removed(Places(t), indices) \in Seq(1 .. t) /\ IsInjective(Removed(Places(t), indices))
        /\ Range(Removed(Places(t), indices)) = (1 .. t) \ Reported(indices)
        /\ Removed(r, indices) \in Seq(S) /\ Len(Removed(r, indices)) = Len(Removed(Places(t), indices))
        /\ \A i \in 1 .. Len(Removed(Places(t), indices)) : Removed(r, indices)[i] = r[Removed(Places(t), indices)[i]]
    BY RemovedIs
  <2>5. QED
    BY <1>1, <1>5, <2>1, <2>2, <2>3, <2>4
<1>7. PICK l \in Nat : l = Len(places)
  BY <1>6
<1>8. /\ DOMAIN places = 1 .. l /\ DOMAIN left = 1 .. l
      /\ \A i \in 1 .. l : places[i] \in 1 .. n /\ left[i] = requests[places[i]]
  <2>1. DOMAIN places = 1 .. l
    BY <1>6, <1>7
  <2>2. DOMAIN left = 1 .. l
    BY <1>6, <1>7
  <2>3. \A i \in 1 .. l : places[i] \in 1 .. n
    BY <1>6, <2>1
  <2>4. QED
    BY <1>6, <1>7, <2>1, <2>2, <2>3
<1>9. IsInjective(left)
  BY <1>2, <1>3, <1>6, <1>8 DEF IsInjective
<1>10. PICK done \in Seq(Nat) : done = At(requests, indices)
  BY AtIs
<1>11. IsInjective(done) /\ Range(done) = {requests[v] : v \in Reported(indices)}
  BY <1>3, <1>10, AtIs
<1>12. Reported(indices) \subseteq 1 .. n
  BY <1>2 DEF Reported
<1>13. Range(left) = {requests[v] : v \in (1 .. n) \ Reported(indices)}
  <2>1. \A y : y \in Range(left) <=> \E i \in 1 .. l : y = requests[places[i]]
    BY <1>8, RangeIs
  <2>2. \A v : v \in (1 .. n) \ Reported(indices) <=> \E i \in 1 .. l : v = places[i]
    <3>1. \A v : v \in Range(places) <=> \E i \in 1 .. l : v = places[i]
      BY <1>8, RangeIs
    <3>2. QED
      BY <1>6, <3>1
  <2>3. ASSUME NEW y \in Range(left) PROVE y \in {requests[v] : v \in (1 .. n) \ Reported(indices)}
    <3>1. PICK i \in 1 .. l : y = requests[places[i]]
      BY <2>1
    <3>2. places[i] \in (1 .. n) \ Reported(indices)
      BY <2>2
    <3>3. QED
      BY <3>1, <3>2
  <2>4. ASSUME NEW v \in (1 .. n) \ Reported(indices) PROVE requests[v] \in Range(left)
    <3>1. PICK i \in 1 .. l : v = places[i]
      BY <2>2
    <3>2. QED
      BY <2>1, <3>1
  <2>5. QED
    BY <2>3, <2>4
<1>14. Range(requests) = {requests[v] : v \in 1 .. n}
  BY <1>2, RangeIs
<1>15. Range(left) = Range(requests) \ Range(done)
  <2>1. \A u, v \in 1 .. n : requests[u] = requests[v] => u = v
    BY <1>2, <1>3 DEF IsInjective
  <2>2. \A v \in 1 .. n : requests[v] \in Range(done) <=> v \in Reported(indices)
    BY <1>11, <1>12, <2>1
  <2>3. QED
    BY <1>13, <1>14, <2>2
<1>16. Range(done) \subseteq Range(requests)
  BY <1>11, <1>12, <1>14
<1>17. /\ completed \o done \in Seq(Nat) /\ IsInjective(completed \o done)
       /\ Range(completed \o done) = Range(completed) \cup Range(done)
  <2>1. Range(completed) \cap Range(done) = {}
    BY <1>3, <1>16
  <2>2. QED
    BY <1>3, <1>11, <2>1, Joins
<1>18. /\ Range(completed \o done) \subseteq 1 .. steps
       /\ Range(left) = (1 .. steps) \ Range(completed \o done)
  BY <1>3, <1>15, <1>16, <1>17
<1>19. EachOnce(steps, left, completed \o done)
  BY <1>3, <1>9, <1>17, <1>18 DEF EachOnce
<1>20. QED
  BY <1>5, <1>10, <1>19

LEMMA CalledReported ==
  ASSUME NEW requests \in Seq(Nat), NEW callbacks \in Seq(CallbackSet), Len(callbacks) = Len(requests),
         \A i \in 1 .. Len(requests) : callbacks[i] = CallbackOf(requests[i]),
         NEW completed \in Seq(Nat), NEW called, AllCalled(completed, called),
         NEW m \in Nat, NEW indices \in [1 .. m -> DOMAIN requests]
  PROVE  AllCalled(completed \o At(requests, indices), called \o Callable(At(callbacks, indices)))
<1>1. PICK n \in Nat : n = Len(requests)
  OBVIOUS
<1>2. DOMAIN requests = 1 .. n /\ DOMAIN callbacks = 1 .. n
  BY <1>1
<1>3. PICK done \in Seq(Nat) : done = At(requests, indices)
  BY AtIs
<1>4. PICK X : X = CallbackSet
  OBVIOUS
<1>5. callbacks \in Seq(X) /\ indices \in [1 .. m -> DOMAIN callbacks]
  BY <1>2, <1>4
<1>6. PICK pending \in Seq(X) : pending = At(callbacks, indices)
  BY <1>5, AtIs
<1>7. Len(done) = m
  BY <1>3, AtIs
<1>8. Len(pending) = m
  BY <1>5, <1>6, AtIs
<1>9. \A i \in 1 .. m : pending[i] = CallbackOf(done[i])
  BY <1>1, <1>2, <1>3, <1>6 DEF At
<1>10. PICK c \in Seq(X) : c = CallbacksOf(completed)
  BY <1>4, CallbacksAre
<1>11. PICK a \in Nat : a = Len(completed) /\ a = Len(c) /\ DOMAIN completed = 1 .. a
  <2>1. PICK b \in Nat : b = Len(completed)
    OBVIOUS
  <2>2. DOMAIN completed = 1 .. b
    BY <2>1
  <2>3. Len(c) = Len(completed)
    BY <1>10, CallbacksAre
  <2>4. QED
    BY <2>1, <2>2, <2>3
<1>12. PICK q \in Seq(X) : q = called
  BY <1>4 DEF AllCalled
<1>13. CallsUpto(q, c, Len(c))
  BY <1>10, <1>11, <1>12 DEF AllCalled
<1>14. /\ q \o Callable(pending) \in Seq(X)
       /\ CallsUpto(q \o Callable(pending), c \o pending, Len(c \o pending))
  BY <1>13, CallsJoined
<1>15. PICK all \in Seq(Nat) : all = completed \o done
  BY Joins
<1>16. Len(all) = a + m /\ \A i \in 1 .. a + m : all[i] = IF i <= a THEN completed[i] ELSE done[i - a]
  <2>1. Len(all) = Len(completed) + Len(done)
        /\ \A i \in 1 .. Len(completed) + Len(done) : all[i] = IF i <= Len(completed) THEN completed[i] ELSE done[i - Len(completed)]
    BY <1>15, ConcatProperties
  <2>2. QED
    BY <1>7, <1>11, <2>1
<1>17. PICK d \in Seq(X) : d = c \o pending
  BY Joins
<1>18. Len(d) = a + m /\ \A i \in 1 .. a + m : d[i] = IF i <= a THEN c[i] ELSE pending[i - a]
  <2>1. Len(d) = Len(c) + Len(pending)
        /\ \A i \in 1 .. Len(c) + Len(pending) : d[i] = IF i <= Len(c) THEN c[i] ELSE pending[i - Len(c)]
    BY <1>17, ConcatProperties
  <2>2. QED
    BY <1>8, <1>11, <2>1
<1>19. CallbacksOf(all) = d
  <2>1. CallbacksOf(all) \in Seq(X) /\ Len(CallbacksOf(all)) = a + m
    BY <1>4, <1>16, CallbacksAre
  <2>2. ASSUME NEW i \in 1 .. a + m PROVE CallbacksOf(all)[i] = d[i]
    <3>1. CallbacksOf(all)[i] = CallbackOf(all[i])
      BY <1>16 DEF CallbacksOf
    <3>2. CASE i <= a
      <4>1. i \in DOMAIN completed
        <5>1. DOMAIN completed = 1 .. a
          BY <1>11
        <5>2. i \in 1 .. a
          BY <3>2
        <5>3. QED
          BY <5>1, <5>2
      <4>2. c[i] = CallbackOf(completed[i])
        BY <1>10, <4>1 DEF CallbacksOf
      <4>3. QED
        BY <1>16, <1>18, <3>1, <3>2, <4>2
    <3>3. CASE ~(i <= a)
      <4>1. i - a \in 1 .. m
        BY <3>3
      <4>2. QED
        BY <1>9, <1>16, <1>18, <3>1, <3>3, <4>1
    <3>4. QED
      BY <3>2, <3>3
  <2>3. CallbacksOf(all) \in [1 .. a + m -> X] /\ d \in [1 .. a + m -> X]
    BY <1>18, <2>1
  <2>4. QED
    BY <2>2, <2>3
<1>20. AllCalled(all, q \o Callable(pending))
  BY <1>4, <1>14, <1>16, <1>17, <1>18, <1>19 DEF AllCalled
<1>21. QED
  BY <1>3, <1>6, <1>12, <1>15, <1>20

Lists == [steps : Nat, list : [requests : Seq(Nat), callbacks : Seq(CallbackSet), cancellables : Seq(BOOLEAN)],
          completed : Seq(Nat), called : Seq(CallbackSet)]

ListRight(r) ==
  /\ r \in Lists
  /\ InParallel(r.list.requests, r.list.callbacks, r.list.cancellables)
  /\ EachOnce(r.steps, r.list.requests, r.completed)
  /\ AllCalled(r.completed, r.called)

NoList == [steps |-> 0, list |-> EmptyList, completed |-> <<>>, called |-> <<>>]

LEMMA NoListRight == ListRight(NoList)
<1>1. <<>> \in Seq(Nat) /\ <<>> \in Seq(CallbackSet) /\ <<>> \in Seq(BOOLEAN) /\ Len(<<>>) = 0 /\ DOMAIN <<>> = {}
  OBVIOUS
<1>2. NoList \in Lists
  BY <1>1 DEF NoList, EmptyList, Lists
<1>3. InParallel(<<>>, <<>>, <<>>)
  BY <1>1 DEF InParallel
<1>4. EachOnce(0, <<>>, <<>>)
  <2>1. \A x : x \notin Range(<<>>)
    BY <1>1, RangeIs
  <2>2. IsInjective(<<>>)
    BY <1>1 DEF IsInjective
  <2>3. \A x : x \notin 1 .. 0
    OBVIOUS
  <2>4. QED
    BY <1>1, <2>1, <2>2, <2>3 DEF EachOnce
<1>5. AllCalled(<<>>, <<>>)
  <2>1. PICK d : d = CallbacksOf(<<>>)
    OBVIOUS
  <2>2. Upto(d, 0) = {}
    BY DEF Upto
  <2>3. Cardinality({}) = 0
    BY FS_EmptySet
  <2>4. QED
    BY <1>1, <2>1, <2>2, <2>3 DEF AllCalled, CallsUpto
<1>6. QED
  BY <1>2, <1>3, <1>4, <1>5 DEF NoList, EmptyList, ListRight

LEMMA AddedRight ==
  ASSUME NEW r, ListRight(r)
  PROVE  LET t == [steps |-> r.steps + 1, list |-> Added(r.list, r.steps + 1), completed |-> r.completed, called |-> r.called]
         IN ListRight(t) /\ [r EXCEPT !.steps = r.steps + 1, !.list = Added(r.list, r.steps + 1)] = t
<1>1. r \in Lists
  BY DEF ListRight
<1>2. PICK k \in Nat : k = r.steps + 1
  BY <1>1 DEF Lists
<1>3. PICK requests \in Seq(Nat) : requests = r.list.requests
  BY <1>1 DEF Lists
<1>4. PICK callbacks \in Seq(CallbackSet) : callbacks = r.list.callbacks
  BY <1>1 DEF Lists
<1>5. PICK cancellables \in Seq(BOOLEAN) : cancellables = r.list.cancellables
  BY <1>1 DEF Lists
<1>6. PICK list : list = [requests |-> Append(requests, k), callbacks |-> Append(callbacks, CallbackOf(k)),
                          cancellables |-> Append(cancellables, MayCancel(k))]
  OBVIOUS
<1>7. Added(r.list, k) = list
  <2>1. CASE CallbackOf(k) = NoCallback
    <3>1. MayCancel(k) = TRUE
      BY <2>1 DEF MayCancel
    <3>2. QED
      BY <1>3, <1>4, <1>5, <1>6, <2>1, <3>1 DEF Added, free_request, add_request
  <2>2. CASE CallbackOf(k) # NoCallback
    <3>1. MayCancel(k) = Cancellable(k)
      BY <2>2 DEF MayCancel, Cancellable
    <3>2. QED
      BY <1>3, <1>4, <1>5, <1>6, <2>2, <3>1 DEF Added, add_request
  <2>3. QED
    BY <2>1, <2>2
<1>8. InParallel(list.requests, list.callbacks, list.cancellables)
  <2>1. InParallel(requests, callbacks, cancellables)
    BY <1>3, <1>4, <1>5 DEF ListRight
  <2>2. QED
    BY <1>6, <2>1, ParallelAdded
<1>9. EachOnce(k, list.requests, r.completed)
  <2>1. PICK steps : steps = r.steps
    OBVIOUS
  <2>2. PICK completed : completed = r.completed
    OBVIOUS
  <2>3. EachOnce(steps, requests, completed)
    BY <1>3, <2>1, <2>2 DEF ListRight
  <2>4. EachOnce(steps + 1, Append(requests, steps + 1), completed)
    BY <2>3, OnceAdded
  <2>5. QED
    BY <1>2, <1>6, <2>1, <2>2, <2>4
<1>10. list \in [requests : Seq(Nat), callbacks : Seq(CallbackSet), cancellables : Seq(BOOLEAN)]
  <2>1. list.requests \in Seq(Nat) /\ list.callbacks \in Seq(CallbackSet) /\ list.cancellables \in Seq(BOOLEAN)
    BY <1>8 DEF InParallel
  <2>2. QED
    BY <1>6, <2>1
<1>11. PICK t : t = [steps |-> k, list |-> list, completed |-> r.completed, called |-> r.called]
  OBVIOUS
<1>16. [r EXCEPT !.steps = k, !.list = list] = t
  <2>1. PICK x : x = [r EXCEPT !.steps = k, !.list = list]
    OBVIOUS
  <2>2. x \in Lists /\ x.steps = k /\ x.list = list /\ x.completed = r.completed /\ x.called = r.called
    BY <1>1, <1>10, <2>1 DEF Lists
  <2>3. x = [steps |-> x.steps, list |-> x.list, completed |-> x.completed, called |-> x.called]
    BY <2>2 DEF Lists
  <2>4. QED
    BY <1>11, <2>1, <2>2, <2>3
<1>12. t \in Lists /\ t.steps = k /\ t.list = list /\ t.completed = r.completed /\ t.called = r.called
  BY <1>1, <1>10, <1>11 DEF Lists
<1>13. AllCalled(t.completed, t.called)
  BY <1>12 DEF ListRight
<1>14. ListRight(t)
  BY <1>8, <1>9, <1>12, <1>13 DEF ListRight
<1>15. QED
  BY <1>2, <1>7, <1>11, <1>14, <1>16

LEMMA ReportedRight ==
  ASSUME NEW r, ListRight(r), NEW done \in SUBSET DOMAIN r.list.requests,
         NEW indices \in [1 .. Cardinality(done) -> done], Range(indices) = done
  PROVE  ListRight([steps |-> r.steps, list |-> waitsome(r.list, indices).list,
                    completed |-> r.completed \o At(r.list.requests, indices),
                    called |-> r.called \o waitsome(r.list, indices).pending])
<1>1. r \in Lists
  BY DEF ListRight
<1>2. PICK requests \in Seq(Nat) : requests = r.list.requests
  BY <1>1 DEF Lists
<1>3. PICK callbacks \in Seq(CallbackSet) : callbacks = r.list.callbacks
  BY <1>1 DEF Lists
<1>4. PICK cancellables \in Seq(BOOLEAN) : cancellables = r.list.cancellables
  BY <1>1 DEF Lists
<1>5. PICK n \in Nat : n = Len(requests)
  OBVIOUS
<1>6. IsFiniteSet(done) /\ Cardinality(done) \in Nat
  <2>1. IsFiniteSet(1 .. n)
    BY FS_Interval
  <2>2. done \subseteq 1 .. n
    BY <1>2, <1>5
  <2>3. QED
    BY <2>1, <2>2, FS_Subset, FS_CardinalityType
<1>7. PICK m \in Nat : m = Cardinality(done)
  BY <1>6
<1>8. indices \in [1 .. m -> DOMAIN requests]
  BY <1>2, <1>7
<1>9. IsInjective(indices)
  <2>1. indices \in [1 .. m -> done] /\ DOMAIN indices = 1 .. m
    BY <1>7
  <2>2. \A x \in done : \E i \in 1 .. m : indices[i] = x
    BY <2>1, RangeIs
  <2>3. PICK I : I = 1 .. m
    OBVIOUS
  <2>4. indices \in Surjection(I, done)
    BY <2>1, <2>2, <2>3 DEF Surjection
  <2>5. IsFiniteSet(I) /\ Cardinality(I) = Cardinality(done)
    <3>1. 1 \in Int /\ m \in Int /\ m - 1 + 1 = m /\ (1 > m => m = 0)
      OBVIOUS
    <3>2. IsFiniteSet(1 .. m) /\ Cardinality(1 .. m) = m
      BY <3>1, FS_Interval
    <3>3. QED
      BY <1>7, <2>3, <3>2
  <2>6. indices \in Injection(I, done)
    BY <2>4, <2>5, FS_SurjSameCardinalityImpliesInj
  <2>7. QED
    BY <2>6 DEF Injection
<1>10. PICK list : list = [requests |-> Removed(requests, indices), callbacks |-> Removed(callbacks, indices),
                           cancellables |-> Removed(cancellables, indices)]
  OBVIOUS
<1>11. waitsome(r.list, indices).list = list /\ waitsome(r.list, indices).pending = Callable(At(callbacks, indices))
  BY <1>2, <1>3, <1>4, <1>10 DEF waitsome, At
<1>12. InParallel(requests, callbacks, cancellables)
  BY <1>2, <1>3, <1>4 DEF ListRight
<1>13. InParallel(list.requests, list.callbacks, list.cancellables)
  BY <1>10, <1>12, ParallelReported
<1>14. PICK steps : steps = r.steps
  OBVIOUS
<1>15. PICK completed \in Seq(Nat) : completed = r.completed
  BY <1>1 DEF Lists
<1>16. PICK called : called = r.called
  OBVIOUS
<1>17. PICK after : after = completed \o At(requests, indices)
  OBVIOUS
<1>18. PICK calls : calls = called \o Callable(At(callbacks, indices))
  OBVIOUS
<1>19. EachOnce(steps, list.requests, after)
  <2>1. EachOnce(steps, requests, completed)
    BY <1>2, <1>14, <1>15 DEF ListRight
  <2>2. EachOnce(steps, Removed(requests, indices), completed \o At(requests, indices))
    BY <1>8, <1>9, <2>1, OnceReported
  <2>3. QED
    BY <1>10, <1>17, <2>2
<1>20. AllCalled(after, calls)
  <2>1. AllCalled(completed, called)
    BY <1>15, <1>16 DEF ListRight
  <2>2. Len(callbacks) = Len(requests) /\ \A i \in 1 .. Len(requests) : callbacks[i] = CallbackOf(requests[i])
    BY <1>12 DEF InParallel
  <2>3. AllCalled(completed \o At(requests, indices), called \o Callable(At(callbacks, indices)))
    BY <1>8, <2>1, <2>2, CalledReported
  <2>4. QED
    BY <1>17, <1>18, <2>3
<1>21. list \in [requests : Seq(Nat), callbacks : Seq(CallbackSet), cancellables : Seq(BOOLEAN)]
  <2>1. list.requests \in Seq(Nat) /\ list.callbacks \in Seq(CallbackSet) /\ list.cancellables \in Seq(BOOLEAN)
    BY <1>13 DEF InParallel
  <2>2. QED
    BY <1>10, <2>1
<1>22. steps \in Nat /\ after \in Seq(Nat) /\ calls \in Seq(CallbackSet)
  BY <1>19, <1>20 DEF EachOnce, AllCalled
<1>23. PICK t : t = [steps |-> steps, list |-> list, completed |-> after, called |-> calls]
  OBVIOUS
<1>24. t \in Lists
  BY <1>21, <1>22, <1>23 DEF Lists
<1>25. ListRight(t)
  BY <1>13, <1>19, <1>20, <1>23, <1>24 DEF ListRight
<1>26. QED
  BY <1>2, <1>11, <1>14, <1>15, <1>16, <1>17, <1>18, <1>23, <1>25

\* The calls that are not about a list
OtherCalls ==
  \/ Score \/ Near \/ ListMoves \/ Transform \/ Standardize
  \/ IndexQuadrants \/ MoveSection \/ EnumerateBoards \/ EnumerateSections \/ DescendSections
  \/ PartitionSimply \/ PartitionRandomly \/ Permute \/ DivideLoop \/ Balance
  \/ WriteFile \/ WriteSmallFiles \/ Scatter \/ Filter \/ Wavelet
  \/ LookUp \/ Locate \/ ComputeMicroline \/ ShowBoard \/ ShowSection \/ ShowValue

LEMMA OthersCall == OtherCalls => call' = call /\ call.op \notin {"requests", "cache"}
<1>1. Score => call' = call /\ call.op = "score"
  BY DEF Score, Called
<1>2. Near => call' = call /\ call.op = "near"
  BY DEF Near, Called
<1>3. ListMoves => call' = call /\ call.op = "moves"
  BY DEF ListMoves, Called
<1>4. Transform => call' = call /\ call.op = "transform"
  BY DEF Transform, Called
<1>5. Standardize => call' = call /\ call.op = "standardize"
  BY DEF Standardize, Called
<1>6. IndexQuadrants => call' = call /\ call.op = "quadrants"
  BY DEF IndexQuadrants, Called
<1>7. MoveSection => call' = call /\ call.op = "section"
  BY DEF MoveSection, Called
<1>8. EnumerateBoards => call' = call /\ call.op = "boards"
  BY DEF EnumerateBoards, Called
<1>9. EnumerateSections => call' = call /\ call.op = "sections"
  BY DEF EnumerateSections, Called
<1>10. DescendSections => call' = call /\ call.op = "descend"
  BY DEF DescendSections, Called
<1>11. PartitionSimply => call' = call /\ call.op = "simple"
  BY DEF PartitionSimply, Called
<1>12. PartitionRandomly => call' = call /\ call.op = "random"
  <2> SUFFICES ASSUME PartitionRandomly PROVE call' = call /\ call.op = "random"
    OBVIOUS
  <2>1. Called("random")
    BY Zenon DEF PartitionRandomly
  <2>2. QED
    BY <2>1 DEF Called
<1>13. Permute => call' = call /\ call.op = "permute"
  BY DEF Permute, Called
<1>14. DivideLoop => call' = call /\ call.op = "loop"
  BY DEF DivideLoop, Called
<1>15. Balance => call' = call /\ call.op = "balance"
  BY DEF Balance, Called
<1>16. WriteFile => call' = call /\ call.op = "file"
  BY DEF WriteFile, Called
<1>17. WriteSmallFiles => call' = call /\ call.op = "counts"
  BY DEF WriteSmallFiles, Called
<1>18. Scatter => call' = call /\ call.op = "scatter"
  BY DEF Scatter, Called
<1>19. Filter => call' = call /\ call.op = "filter"
  BY DEF Filter, Called
<1>20. Wavelet => call' = call /\ call.op = "wavelet"
  BY DEF Wavelet, Called
<1>21. LookUp => call' = call /\ call.op = "lookup"
  BY DEF LookUp, Called
<1>22. Locate => call' = call /\ call.op = "index"
  BY DEF Locate, Called
<1>23. ComputeMicroline => call' = call /\ call.op = "microline"
  BY DEF ComputeMicroline, Called
<1>24. ShowBoard => call' = call /\ call.op = "page"
  BY DEF ShowBoard, Called
<1>25. ShowSection => call' = call /\ call.op = "matrix"
  BY DEF ShowSection, Called
<1>26. ShowValue => call' = call /\ call.op = "value"
  BY DEF ShowValue, Called
<1>27. QED
  BY <1>1, <1>2, <1>3, <1>4, <1>5, <1>6, <1>7, <1>8, <1>9, <1>10, <1>11, <1>12, <1>13, <1>14, <1>15, <1>16, <1>17,
     <1>18, <1>19, <1>20, <1>21, <1>22, <1>23, <1>24, <1>25, <1>26 DEF OtherCalls

RequestsInv == call.op = "requests" => result = NoResult \/ ListRight(result)

LEMMA RequestsStart == Init => RequestsInv
BY DEF Init, RequestsInv

LEMMA RequestsStep == RequestsInv /\ [Next]_<<call, result>> => RequestsInv'
<1> SUFFICES ASSUME RequestsInv, [Next]_<<call, result>> PROVE RequestsInv'
  OBVIOUS
<1>1. CASE UNCHANGED <<call, result>>
  BY <1>1 DEF RequestsInv, NoResult, ListRight
<1>2. CASE OtherCalls
  BY <1>2, OthersCall DEF RequestsInv
<1>3. CASE LoadBlock
  <2>1. call' = call /\ call.op = "cache"
    BY <1>3 DEF LoadBlock
  <2>2. QED
    BY <2>1 DEF RequestsInv
<1>4. ASSUME call.op = "requests" PROVE ListRight(Listed)
  BY <1>4, NoListRight DEF RequestsInv, Listed, NoList
<1>5. PICK r : r = Listed
  OBVIOUS
<1>6. CASE AddRequest
  <2>1. call.op = "requests" /\ result' = [r EXCEPT !.steps = r.steps + 1, !.list = Added(r.list, r.steps + 1)]
    BY <1>5, <1>6 DEF AddRequest
  <2>2. ListRight(r)
    BY <1>4, <1>5, <2>1
  <2>3. ListRight([r EXCEPT !.steps = r.steps + 1, !.list = Added(r.list, r.steps + 1)])
    <3>1. PICK x : x = [steps |-> r.steps + 1, list |-> Added(r.list, r.steps + 1), completed |-> r.completed, called |-> r.called]
      OBVIOUS
    <3>2. ListRight(x) /\ [r EXCEPT !.steps = r.steps + 1, !.list = Added(r.list, r.steps + 1)] = x
      BY <2>2, <3>1, AddedRight
    <3>3. QED
      BY <3>2
  <2>4. PICK t : t = result'
    OBVIOUS
  <2>5. ListRight(t)
    BY <2>1, <2>3, <2>4
  <2>6. ListRight(result)'
    BY <2>4, <2>5 DEF ListRight
  <2>7. QED
    BY <2>6 DEF RequestsInv
<1>7. CASE Waitsome
  <2>1. PICK done \in (SUBSET DOMAIN r.list.requests) \ {{}}, more \in 0 .. 1 :
          \E indices \in {p \in [1 .. Cardinality(done) -> done] : Range(p) = done} :
            LET w == waitsome(r.list, indices) IN
              /\ more = 1 => w.pending # <<>> /\ r.steps < MaxRequests
              /\ result' = [steps |-> r.steps + more,
                            list |-> IF more = 1 THEN Added(w.list, r.steps + 1) ELSE w.list,
                            completed |-> r.completed \o [i \in DOMAIN indices |-> r.list.requests[indices[i]]],
                            called |-> r.called \o w.pending]
    BY <1>5, <1>7, ZenonT(40) DEF Waitsome
  <2>2. PICK indices \in [1 .. Cardinality(done) -> done] :
          /\ Range(indices) = done
          /\ LET w == waitsome(r.list, indices) IN
               result' = [steps |-> r.steps + more,
                          list |-> IF more = 1 THEN Added(w.list, r.steps + 1) ELSE w.list,
                          completed |-> r.completed \o At(r.list.requests, indices),
                          called |-> r.called \o w.pending]
    BY <2>1 DEF At
  <2>3. call.op = "requests"
    BY <1>7 DEF Waitsome
  <2>4. ListRight(r)
    BY <1>4, <1>5, <2>3
  <2>5. PICK w : w = waitsome(r.list, indices)
    OBVIOUS
  <2>9. PICK u : u = result'
    OBVIOUS
  <2>13. PICK next : next = r.steps + more
    OBVIOUS
  <2>14. u = [steps |-> next, list |-> IF more = 1 THEN Added(w.list, r.steps + 1) ELSE w.list,
              completed |-> r.completed \o At(r.list.requests, indices), called |-> r.called \o w.pending]
    BY <2>2, <2>5, <2>9, <2>13
  <2>6. PICK t : t = [steps |-> r.steps, list |-> w.list, completed |-> r.completed \o At(r.list.requests, indices),
                      called |-> r.called \o w.pending]
    OBVIOUS
  <2>7. ListRight(t)
    BY <2>2, <2>4, <2>5, <2>6, ReportedRight
  <2>8. r.steps \in Nat
    BY <2>4 DEF ListRight, Lists
  <2>10. CASE more = 0
    <3>1. u = t
      <4>1. next = r.steps
        BY <2>8, <2>10, <2>13
      <4>2. QED
        BY <2>6, <2>10, <2>14, <4>1
    <3>2. ListRight(u)
      BY <2>7, <3>1
    <3>3. QED
      BY <2>9, <3>2 DEF ListRight, RequestsInv
  <2>11. CASE more = 1
    <3>1. u = [steps |-> t.steps + 1, list |-> Added(t.list, t.steps + 1), completed |-> t.completed, called |-> t.called]
      BY <2>6, <2>11, <2>13, <2>14
    <3>2. ListRight([steps |-> t.steps + 1, list |-> Added(t.list, t.steps + 1), completed |-> t.completed, called |-> t.called])
      BY <2>7, AddedRight
    <3>3. ListRight(u)
      BY <3>1, <3>2
    <3>4. QED
      BY <2>9, <3>3 DEF ListRight, RequestsInv
  <2>12. QED
    BY <2>10, <2>11
<1>8. QED
  BY <1>1, <1>2, <1>3, <1>6, <1>7 DEF Next, OtherCalls

LEMMA ListMatched == RequestsInv => RequestsMatched
<1> SUFFICES ASSUME RequestsInv, call.op = "requests", result # NoResult PROVE RequestsMatched
  BY DEF RequestsMatched
<1>1. PICK r : r = result
  OBVIOUS
<1>2. ListRight(r)
  BY <1>1 DEF RequestsInv
<1>3. PICK requests \in Seq(Nat) : requests = r.list.requests
  BY <1>2 DEF ListRight, Lists
<1>4. PICK completed \in Seq(Nat) : completed = r.completed
  BY <1>2 DEF ListRight, Lists
<1>5. PICK called : called = r.called
  OBVIOUS
<1>6. EachOnce(r.steps, requests, completed)
  BY <1>2, <1>3, <1>4 DEF ListRight
<1>7. Cardinality(Range(requests)) = Len(requests) /\ Len(completed) = Cardinality(Range(completed))
  BY <1>6, LengthIs DEF EachOnce
<1>8. PICK n \in Nat : n = Len(completed)
  OBVIOUS
<1>9. DOMAIN completed = 1 .. n
  BY <1>8
<1>10. PICK c : c = CallbacksOf(completed)
  OBVIOUS
<1>11. \A i \in 1 .. n : c[i] = CallbackOf(completed[i])
  BY <1>9, <1>10 DEF CallbacksOf
<1>12. CallsUpto(called, c, n)
  BY <1>2, <1>4, <1>5, <1>8, <1>10 DEF ListRight, AllCalled
<1>13. PICK calling : calling = {i \in DOMAIN completed : CallbackOf(completed[i]) # NoCallback}
  OBVIOUS
<1>14. calling = Upto(c, n)
  BY <1>9, <1>11, <1>13 DEF Upto
<1>15. ASSUME NEW i \in calling PROVE {j \in calling : j <= i} = Upto(c, i)
  <2>1. i \in 1 .. n /\ \A j : j \in 1 .. i <=> j \in 1 .. n /\ j <= i
    BY <1>9, <1>13
  <2>2. QED
    BY <1>14, <2>1 DEF Upto
<1>16. /\ Len(called) = Cardinality(calling)
       /\ \A i \in calling : called[Cardinality({j \in calling : j <= i})] = CallbackOf(completed[i])
  <2>1. ASSUME NEW i \in calling PROVE called[Cardinality({j \in calling : j <= i})] = CallbackOf(completed[i])
    <3>1. called[Cardinality(Upto(c, i))] = c[i]
      BY <1>12, <1>14 DEF CallsUpto
    <3>2. c[i] = CallbackOf(completed[i])
      BY <1>9, <1>11, <1>13
    <3>3. QED
      BY <1>15, <3>1, <3>2
  <2>2. QED
    BY <1>12, <1>14, <2>1 DEF CallsUpto
<1>17. PICK list : list = r.list
  OBVIOUS
<1>18. /\ Len(list.callbacks) = Len(list.requests) /\ Len(list.cancellables) = Len(list.requests)
       /\ \A i \in 1 .. Len(list.requests) :
            /\ list.callbacks[i] = CallbackOf(list.requests[i])
            /\ list.cancellables[i] = (list.callbacks[i] = NoCallback \/ Cancellable(list.requests[i]))
  BY <1>2, <1>17 DEF ListRight, InParallel, MayCancel
<1>19. Range(list.requests) = (1 .. r.steps) \ Range(completed) /\ Cardinality(Range(list.requests)) = Len(list.requests)
  BY <1>3, <1>6, <1>7, <1>17 DEF EachOnce
<1>20. QED
  BY <1>1, <1>4, <1>5, <1>7, <1>13, <1>16, <1>17, <1>18, <1>19 DEF RequestsMatched

\* However many requests a list is given and in whatever order MPI reports them,
\* those not completed stay in it, each with its own callback and permission to be
\* cancelled, and the callbacks of the others have been called once each, in the
\* order of their completion (requests.cc:38)
THEOREM RequestsAreMatched == Spec => []RequestsMatched
<1>1. Init => RequestsInv
  BY RequestsStart
<1>2. RequestsInv /\ [Next]_<<call, result>> => RequestsInv'
  BY RequestsStep
<1>3. RequestsInv => RequestsMatched
  BY ListMatched
<1>4. QED
  BY <1>1, <1>2, <1>3, PTL DEF Spec

(***************************************************************************)
(* The caches.                                                             *)
(***************************************************************************)
Key == DOMAIN Memory

LEMMA KeysFinite ==
  ASSUME NEW S \in SUBSET Key
  PROVE  /\ IsFiniteSet(S) /\ Cardinality(S) \in Nat
         /\ \A x \in S : S \ {x} \in SUBSET Key /\ Cardinality(S \ {x}) = Cardinality(S) - 1
         /\ S # {} => Cardinality(S) > 0
<1>1. IsFiniteSet(S)
  <2>1. PICK K : K = Key
    OBVIOUS
  <2>2. IsFiniteSet(K) /\ S \subseteq K
    BY <2>1, AlgorithmsAssumption DEF Key
  <2>3. QED
    BY <2>2, FS_Subset
<1>2. Cardinality(S) \in Nat
  BY <1>1, FS_CardinalityType
<1>3. \A x \in S : S \ {x} \in SUBSET Key /\ Cardinality(S \ {x}) = Cardinality(S) - 1
  BY <1>1, FS_RemoveElement
<1>4. S # {} => Cardinality(S) > 0
  BY <1>1, <1>2, FS_EmptySet
<1>5. QED
  BY <1>1, <1>2, <1>3, <1>4

LEMMA MemoryIs == MemoryLimit \in Nat /\ \A x \in Key : Memory[x] \in Nat /\ Memory[x] > 0
BY AlgorithmsAssumption DEF Key

LEMMA WeightEach ==
  \A S \in SUBSET Key :
    Weight[S] = IF S = {} THEN 0
                  ELSE LET key == CHOOSE k \in S : TRUE IN Memory[key] + Weight[S \ {key}]
<1> DEFINE Pick(S) == CHOOSE k \in S : TRUE
           Small(n) == {S \in SUBSET Key : Cardinality(S) <= n}
           Sum(f, S) == IF S = {} THEN 0 ELSE Memory[Pick(S)] + f[S \ {Pick(S)}]
           Sums(f, n) == f = [S \in Small(n) |-> Sum(f, S)]
<1>1. \A S \in SUBSET Key : S # {} => Pick(S) \in S
  OBVIOUS
<1> HIDE DEF Pick
<1>2. \A n \in Nat : \E f : Sums(f, n)
  <2> DEFINE Bad == {n \in Nat : ~ \E f : Sums(f, n)}
  <2> SUFFICES ASSUME Bad # {} PROVE FALSE
    OBVIOUS
  <2>1. PICK n \in Bad : \A k \in Bad : n <= k
    <3> HIDE DEF Sums
    <3> QED
      BY LeastOf
  <2>2. n # 0
    <3> SUFFICES ASSUME n = 0 PROVE FALSE
      OBVIOUS
    <3>1. \A S \in Small(0) : S = {}
      BY KeysFinite
    <3>2. Sums([S \in Small(0) |-> 0], 0)
      BY <3>1
    <3>3. QED
      BY <3>2
  <2>3. n \in Nat /\ n - 1 \in Nat /\ ~(n <= n - 1)
    <3> HIDE DEF Sums
    <3> QED
      BY <2>1, <2>2
  <2>4. PICK f : Sums(f, n - 1)
    <3> HIDE DEF Sums
    <3> QED
      BY <2>1, <2>3
  <2> DEFINE g == [S \in Small(n) |-> Sum(f, S)]
  <2>5. Small(n - 1) \subseteq Small(n)
    BY KeysFinite, <2>1, <2>3
  <2>6. \A S \in Small(n - 1) : g[S] = f[S]
    BY <2>4, <2>5
  <2>7. \A S \in Small(n) : S # {} => S \ {Pick(S)} \in Small(n - 1)
    BY <1>1, <2>1, KeysFinite
  <2>8. \A S \in Small(n) : Sum(f, S) = Sum(g, S)
    <3> HIDE DEF g, Small
    <3> QED
      BY <2>6, <2>7
  <2>9. Sums(g, n)
    <3> HIDE DEF Sum, Small
    <3> QED
      BY <2>8
  <2>10. QED
    BY <2>9
<1>3. Small(Cardinality(Key)) = SUBSET Key /\ Cardinality(Key) \in Nat
  BY FS_Subset, KeysFinite, AlgorithmsAssumption
<1>4. \E f : f = [S \in SUBSET Key |-> Sum(f, S)]
  <2> HIDE DEF Sum, Small
  <2>1. PICK f : Sums(f, Cardinality(Key))
    <3> HIDE DEF Sums
    <3> QED
      BY <1>2, <1>3
  <2>2. f = [S \in SUBSET Key |-> Sum(f, S)]
    BY <1>3, <2>1
  <2>3. QED
    BY <2>2
<1>5. Weight = CHOOSE f : f = [S \in SUBSET Key |-> Sum(f, S)]
  BY DEF Weight, Pick, Key
<1>6. Weight = [S \in SUBSET Key |-> Sum(Weight, S)]
  <2> HIDE DEF Sum
  <2> QED
    BY <1>4, <1>5
<1>7. QED
  BY <1>6 DEF Pick

LEMMA WeightRemoved ==
  \A S \in SUBSET Key : /\ Weight[S] \in Nat
                         /\ \A x \in S : Weight[S] = Memory[x] + Weight[S \ {x}]
<1> DEFINE P(S) == /\ Weight[S] \in Nat
                   /\ \A x \in S : Weight[S] = Memory[x] + Weight[S \ {x}]
           Bad == {n \in Nat : \E S \in SUBSET Key : Cardinality(S) = n /\ ~P(S)}
<1>1. SUFFICES ASSUME Bad # {} PROVE FALSE
  BY KeysFinite
<1>2. PICK n \in Bad : \A k \in Bad : n <= k
  <2> HIDE DEF P
  <2> QED
    BY <1>1, LeastOf
<1>3. PICK S \in SUBSET Key : Cardinality(S) = n /\ ~P(S)
  BY <1>2
<1>4. \A x \in S : /\ Memory[x] \in Nat
                   /\ S \ {x} \in SUBSET Key /\ P(S \ {x})
  <2> TAKE x \in S
  <2>1. S \ {x} \in SUBSET Key /\ Cardinality(S \ {x}) = n - 1 /\ n - 1 \in Nat
    BY <1>3, KeysFinite
  <2>2. n - 1 \notin Bad
    BY <1>2, <2>1
  <2>3. QED
    BY <2>1, <2>2, MemoryIs
<1>5. S # {}
  <2> SUFFICES ASSUME S = {} PROVE P({})
    BY <1>3
  <2>1. {} \in SUBSET Key
    OBVIOUS
  <2>2. Weight[{}] = 0
    BY <2>1, WeightEach
  <2>3. QED
    BY <2>2
<1> DEFINE c == CHOOSE k \in S : TRUE
<1>6. c \in S /\ Weight[S] = Memory[c] + Weight[S \ {c}]
  BY <1>5, WeightEach
<1> HIDE DEF c
<1>7. ASSUME NEW x \in S PROVE Weight[S] = Memory[x] + Weight[S \ {x}]
  <2>1. CASE x = c
    BY <1>6, <2>1
  <2>2. CASE x # c
    <3> DEFINE T == S \ {x, c}
    <3>1. x \in S \ {c} /\ c \in S \ {x} /\ (S \ {c}) \ {x} = T /\ (S \ {x}) \ {c} = T
      BY <1>6, <2>2
    <3>2. T \in SUBSET Key /\ Weight[T] \in Nat
      <4>1. x \in S \ {c} /\ S \ {c} \in SUBSET Key
        BY <3>1
      <4>2. Cardinality(T) = n - 2 /\ n - 2 \in Nat /\ T \in SUBSET Key
        <5>1. Cardinality(S \ {c}) = n - 1
          BY <1>3, <1>6, KeysFinite
        <5>2. Cardinality((S \ {c}) \ {x}) = n - 2
          BY <4>1, <5>1, KeysFinite
        <5>3. T \in SUBSET Key
          OBVIOUS
        <5>4. QED
          BY <3>1, <5>2, <5>3, KeysFinite
      <4>3. ~(n <= n - 2) /\ n - 2 \notin Bad
        <5> HIDE DEF P
        <5>1. n \in Nat /\ ~(n <= n - 2)
          BY <1>2
        <5>2. QED
          BY <1>2, <5>1
      <4>4. QED
        BY <4>2, <4>3
    <3>3. Weight[S \ {c}] = Memory[x] + Weight[T]
      BY <1>4, <1>6, <3>1
    <3>4. Weight[S \ {x}] = Memory[c] + Weight[T]
      BY <1>4, <1>6, <3>1
    <3>5. Memory[x] \in Nat /\ Memory[c] \in Nat
      BY <1>4, <1>6
    <3> HIDE DEF T
    <3>6. QED
      BY <1>6, <3>2, <3>3, <3>4, <3>5
  <2>3. QED
    BY <2>1, <2>2
<1>8. Weight[S] \in Nat
  <2>1. Memory[c] \in Nat /\ Weight[S \ {c}] \in Nat
    BY <1>4, <1>6
  <2>2. QED
    BY <1>6, <2>1
<1>9. QED
  BY <1>3, <1>7, <1>8

LEMMA WeightIs ==
  /\ Weight[{}] = 0
  /\ \A S \in SUBSET Key : Weight[S] \in Nat
  /\ \A S \in SUBSET Key, x \in Key : x \notin S => Weight[S \cup {x}] = Memory[x] + Weight[S]
<1>1. Weight[{}] = 0
  <2>1. {} \in SUBSET Key
    OBVIOUS
  <2>2. QED
    BY <2>1, WeightEach
<1>2. ASSUME NEW S \in SUBSET Key, NEW x \in Key, x \notin S PROVE Weight[S \cup {x}] = Memory[x] + Weight[S]
  <2>1. S \cup {x} \in SUBSET Key /\ x \in S \cup {x} /\ (S \cup {x}) \ {x} = S
    BY <1>2
  <2>2. QED
    BY <2>1, WeightRemoved
<1>3. QED
  BY <1>1, <1>2, WeightRemoved

LEMMA WeightGrows == \A T \in SUBSET Key : \A S \in SUBSET T : Weight[S] <= Weight[T]
<1> DEFINE P(T) == \A S \in SUBSET T : Weight[S] <= Weight[T]
           Bad == {n \in Nat : \E T \in SUBSET Key : Cardinality(T) = n /\ ~P(T)}
<1>1. SUFFICES ASSUME Bad # {} PROVE FALSE
  BY KeysFinite
<1>2. PICK n \in Bad : \A k \in Bad : n <= k
  <2> HIDE DEF P
  <2> QED
    BY <1>1, LeastOf
<1>3. PICK T \in SUBSET Key : Cardinality(T) = n /\ ~P(T)
  BY <1>2
<1>4. PICK S \in SUBSET T : ~(Weight[S] <= Weight[T])
  BY <1>3
<1>5. Weight[S] \in Nat /\ Weight[T] \in Nat
  BY WeightRemoved
<1>6. PICK x \in T : x \notin S
  <2>1. S # T
    BY <1>4, <1>5
  <2>2. QED
    BY <2>1
<1>7. S \in SUBSET (T \ {x}) /\ T \ {x} \in SUBSET Key
  BY <1>6
<1>8. Cardinality(T \ {x}) = n - 1 /\ n - 1 \in Nat
  BY <1>3, <1>6, <1>7, KeysFinite
<1>9. P(T \ {x})
  <2>1. n - 1 \notin Bad
    <3> HIDE DEF Bad
    <3>1. n \in Nat
      BY <1>2 DEF Bad
    <3>2. ~(n <= n - 1)
      BY <3>1
    <3>3. QED
      BY <1>2, <3>2
  <2>2. QED
    BY <1>7, <1>8, <2>1
<1>10. PICK w \in Nat : w = Weight[T \ {x}]
  BY <1>7, WeightRemoved
<1>11. Weight[S] <= w
  BY <1>7, <1>9, <1>10
<1>12. Weight[T] = Memory[x] + w /\ Memory[x] \in Nat
  BY <1>6, <1>10, WeightRemoved, MemoryIs
<1>13. QED
  BY <1>4, <1>5, <1>11, <1>12

(***************************************************************************)
(* Since: a key is at the end of what has been asked for since it was, and *)
(* of two keys one was asked for after the other.                          *)
(***************************************************************************)
LastOf(asked, k) == Max({i \in DOMAIN asked : asked[i] = k})

LEMMA LastIs ==
  ASSUME NEW S, NEW asked \in Seq(S), NEW k \in Range(asked)
  PROVE  /\ LastOf(asked, k) \in DOMAIN asked /\ asked[LastOf(asked, k)] = k
         /\ \A i \in DOMAIN asked : asked[i] = k => i <= LastOf(asked, k)
<1>1. PICK n \in Nat : n = Len(asked)
  OBVIOUS
<1>2. DOMAIN asked = 1 .. n
  BY <1>1
<1>3. PICK I : I = {i \in DOMAIN asked : asked[i] = k}
  OBVIOUS
<1>4. \E m \in I : \A i \in I : m >= i
  <2> DEFINE J == {n - i : i \in I}
  <2>1. J \in SUBSET Nat
    BY <1>2, <1>3
  <2>2. J # {}
    BY <1>3, RangeIs
  <2>3. PICK j \in J : \A i \in J : j <= i
    <3> HIDE DEF J
    <3> QED
      BY <2>1, <2>2, LeastOf
  <2>4. PICK m \in I : j = n - m
    BY <2>3
  <2>5. ASSUME NEW i \in I PROVE m >= i
    <3>1. i \in Nat /\ m \in Nat
      BY <1>2, <1>3
    <3>2. n - m <= n - i
      BY <2>3, <2>4
    <3>3. QED
      BY <3>1, <3>2
  <2>6. QED
    BY <2>5
<1>5. PICK m : m = LastOf(asked, k)
  OBVIOUS
<1>6. m = CHOOSE x \in I : \A y \in I : x >= y
  BY <1>3, <1>5 DEF LastOf, Max
<1>7. m \in I /\ \A i \in I : m >= i
  BY <1>4, <1>6
<1>8. \A i \in I : i \in Nat
  BY <1>2, <1>3
<1>9. \A i \in I : i <= m
  BY <1>7, <1>8
<1>10. QED
  BY <1>3, <1>5, <1>7, <1>9

LEMMA SinceIs ==
  ASSUME NEW S, NEW asked \in Seq(S), NEW k \in Range(asked)
  PROVE  /\ Since(asked, k) \subseteq Range(asked)
         /\ \A x \in Range(asked) : x \in Since(asked, k) <=> LastOf(asked, k) <= LastOf(asked, x)
<1>1. PICK n \in Nat : n = Len(asked)
  OBVIOUS
<1>2. DOMAIN asked = 1 .. n
  BY <1>1
<1>3. PICK l \in 1 .. n : l = LastOf(asked, k)
  BY <1>2, LastIs
<1>4. Since(asked, k) = {asked[i] : i \in l .. n}
  BY <1>1, <1>3 DEF Since, LastOf
<1>5. \A i \in l .. n : i \in 1 .. n
  OBVIOUS
<1>6. Since(asked, k) \subseteq Range(asked)
  BY <1>2, <1>4, <1>5, RangeIs
<1>7. ASSUME NEW x \in Range(asked) PROVE x \in Since(asked, k) <=> l <= LastOf(asked, x)
  <2>1. PICK m \in 1 .. n : m = LastOf(asked, x)
    BY <1>2, LastIs
  <2>2. asked[m] = x /\ \A i \in 1 .. n : asked[i] = x => i <= m
    BY <1>2, <2>1, LastIs
  <2>3. ASSUME l <= m PROVE x \in Since(asked, k)
    <3>1. m \in l .. n
      BY <2>3
    <3>2. QED
      BY <1>4, <2>2, <3>1
  <2>4. ASSUME x \in Since(asked, k) PROVE l <= m
    <3>1. PICK i \in l .. n : x = asked[i]
      BY <1>4, <2>4
    <3>2. i <= m /\ l <= i
      BY <1>5, <2>2, <3>1
    <3>3. QED
      BY <3>2
  <2>5. QED
    BY <2>1, <2>3, <2>4
<1>8. QED
  BY <1>3, <1>6, <1>7

\* One of two keys was asked for after the other
LEMMA SinceOrdered ==
  ASSUME NEW S, NEW asked \in Seq(S), NEW x \in Range(asked), NEW y \in Range(asked)
  PROVE  /\ x \in Since(asked, x)
         /\ x \in Since(asked, y) \/ y \in Since(asked, x)
         /\ x \in Since(asked, y) /\ y \in Since(asked, x) => x = y
         /\ x \in Since(asked, y) => Since(asked, x) \subseteq Since(asked, y)
<1>1. PICK n \in Nat : n = Len(asked)
  OBVIOUS
<1>2. DOMAIN asked = 1 .. n
  BY <1>1
<1>3. PICK l \in 1 .. n : l = LastOf(asked, x) /\ asked[l] = x
  BY <1>2, LastIs
<1>4. PICK m \in 1 .. n : m = LastOf(asked, y) /\ asked[m] = y
  BY <1>2, LastIs
<1>5. x \in Since(asked, x)
  BY <1>3, SinceIs
<1>6. x \in Since(asked, y) <=> m <= l
  BY <1>3, <1>4, SinceIs
<1>7. y \in Since(asked, x) <=> l <= m
  BY <1>3, <1>4, SinceIs
<1>8. ASSUME m <= l, NEW z \in Since(asked, x) PROVE z \in Since(asked, y)
  <2>1. z \in Range(asked)
    BY SinceIs
  <2>2. PICK p \in 1 .. n : p = LastOf(asked, z)
    BY <1>2, <2>1, LastIs
  <2>3. l <= p
    BY <1>3, <2>1, <2>2, SinceIs
  <2>4. m <= p
    BY <1>8, <2>3
  <2>5. QED
    BY <1>4, <2>1, <2>2, <2>4, SinceIs
<1>9. QED
  BY <1>3, <1>4, <1>5, <1>6, <1>7, <1>8

LEMMA SinceAppended ==
  ASSUME NEW S, NEW asked \in Seq(S), NEW k \in S
  PROVE  /\ Append(asked, k) \in Seq(S) /\ Range(Append(asked, k)) = Range(asked) \cup {k}
         /\ Since(Append(asked, k), k) = {k}
         /\ \A x \in Range(asked) \ {k} : Since(Append(asked, k), x) = Since(asked, x) \cup {k}
<1>1. PICK n \in Nat : n = Len(asked)
  OBVIOUS
<1>2. PICK next \in Seq(S) : next = Append(asked, k)
  BY AppendProperties
<1>3. DOMAIN asked = 1 .. n /\ Len(next) = n + 1 /\ next[n + 1] = k /\ \A i \in 1 .. n : next[i] = asked[i]
  BY <1>1, <1>2, AppendProperties
<1>4. DOMAIN next = 1 .. n + 1
  BY <1>3
<1>5. Range(next) = Range(asked) \cup {k}
  BY <1>2, Appended
<1>6. Since(next, k) = {k}
  <2>1. PICK l \in 1 .. n + 1 : l = LastOf(next, k)
    BY <1>4, <1>5, LastIs
  <2>2. n + 1 <= l
    BY <1>3, <1>4, <1>5, <2>1, LastIs
  <2>3. l = n + 1
    BY <2>2
  <2>4. Since(next, k) = {next[i] : i \in l .. n + 1}
    BY <1>3, <2>1 DEF Since, LastOf
  <2>5. \A i : i \in l .. n + 1 <=> i = n + 1
    BY <2>3
  <2>6. QED
    BY <1>3, <2>4, <2>5
<1>7. ASSUME NEW x \in Range(asked) \ {k} PROVE Since(next, x) = Since(asked, x) \cup {k}
  <2>1. PICK l \in 1 .. n : l = LastOf(asked, x)
    BY <1>3, LastIs
  <2>2. x \in Range(next)
    BY <1>5
  <2>3. PICK m \in 1 .. n + 1 : m = LastOf(next, x)
    BY <1>4, <2>2, LastIs
  <2>4. asked[l] = x /\ \A i \in 1 .. n : asked[i] = x => i <= l
    BY <1>3, <2>1, LastIs
  <2>5. next[m] = x /\ \A i \in 1 .. n + 1 : next[i] = x => i <= m
    BY <1>4, <2>2, <2>3, LastIs
  <2>6. m \in 1 .. n
    BY <1>3, <2>5
  <2>7. m <= l /\ l <= m
    BY <1>3, <2>4, <2>5, <2>6
  <2>8. m = l
    BY <2>7
  <2>9. Since(next, x) = {next[i] : i \in l .. n + 1}
    BY <1>3, <2>3, <2>8 DEF Since, LastOf
  <2>10. Since(asked, x) = {asked[i] : i \in l .. n}
    BY <1>1, <2>1 DEF Since, LastOf
  <2>11. \A i : i \in l .. n + 1 <=> i \in l .. n \/ i = n + 1
    OBVIOUS
  <2>12. \A i \in l .. n : i \in 1 .. n /\ next[i] = asked[i]
    BY <1>3
  <2>13. QED
    BY <1>3, <2>9, <2>10, <2>11, <2>12
<1>8. QED
  BY <1>2, <1>5, <1>6, <1>7

\* A block larger than the cache was asked for among the first i
LargeUpto(asked, i) == \E j \in 1 .. i : Memory[asked[j]] > MemoryLimit

LEMMA LargeIs ==
  ASSUME NEW asked \in Seq(Key), NEW k \in Key
  PROVE  LargeUpto(Append(asked, k), Len(Append(asked, k))) <=> LargeUpto(asked, Len(asked)) \/ Memory[k] > MemoryLimit
<1>1. PICK n \in Nat : n = Len(asked)
  OBVIOUS
<1>2. PICK next \in Seq(Key) : next = Append(asked, k)
  BY AppendProperties
<1>3. Len(next) = n + 1 /\ next[n + 1] = k /\ \A i \in 1 .. n : next[i] = asked[i]
  BY <1>1, <1>2, AppendProperties
<1>4. \A j : j \in 1 .. n + 1 <=> j \in 1 .. n \/ j = n + 1
  OBVIOUS
<1>5. LargeUpto(next, n + 1) <=> LargeUpto(asked, n) \/ Memory[k] > MemoryLimit
  BY <1>3, <1>4 DEF LargeUpto
<1>6. QED
  BY <1>1, <1>2, <1>3, <1>5

(***************************************************************************)
(* The order of a cache: what follows a key in it has been asked for since *)
(* that key was.                                                           *)
(***************************************************************************)
Rest(order, i) == {order[j] : j \in i .. Len(order)}
After(order, m) == SubSeq(order, m + 1, Len(order))

InOrder(asked, order) ==
  /\ IsInjective(order) /\ Range(order) \subseteq Range(asked)
  /\ \A i \in 1 .. Len(order) : Since(asked, order[i]) = Rest(order, i)

Fits(asked, held) ==
  \A k \in Range(asked) : k \in held <=> Weight[Since(asked, k)] <= MemoryLimit

LEMMA RestIs ==
  ASSUME NEW S, NEW order \in Seq(S)
  PROVE  /\ Rest(order, 1) = Range(order) /\ Rest(order, Len(order) + 1) = {}
         /\ \A i \in 1 .. Len(order) : Rest(order, i) = {order[i]} \cup Rest(order, i + 1)
         /\ \A i \in 1 .. Len(order) + 1 : Rest(order, i) \subseteq Range(order)
         /\ IsInjective(order) => \A i \in 1 .. Len(order) : order[i] \notin Rest(order, i + 1)
         /\ \A i, j \in 1 .. Len(order) + 1 : i <= j => Rest(order, j) \subseteq Rest(order, i)
<1>1. PICK n \in Nat : n = Len(order)
  OBVIOUS
<1>2. DOMAIN order = 1 .. n
  BY <1>1
<1>3. Rest(order, 1) = Range(order)
  BY <1>1, <1>2, RangeIs DEF Rest
<1>4. Rest(order, n + 1) = {}
  BY <1>1 DEF Rest
<1>5. ASSUME NEW i \in 1 .. n PROVE Rest(order, i) = {order[i]} \cup Rest(order, i + 1)
  <2>1. \A j : j \in i .. n <=> j = i \/ j \in i + 1 .. n
    OBVIOUS
  <2>2. QED
    BY <1>1, <2>1 DEF Rest
<1>6. ASSUME NEW i \in 1 .. n + 1, NEW j \in i .. n PROVE j \in 1 .. n
  OBVIOUS
<1>7. \A i \in 1 .. n + 1 : Rest(order, i) \subseteq Range(order)
  BY <1>1, <1>2, <1>6, RangeIs DEF Rest
<1>8. ASSUME IsInjective(order), NEW i \in 1 .. n, order[i] \in Rest(order, i + 1) PROVE FALSE
  <2>1. PICK j \in i + 1 .. n : order[i] = order[j]
    BY <1>1, <1>8 DEF Rest
  <2>2. j \in 1 .. n /\ i # j
    OBVIOUS
  <2>3. QED
    BY <1>2, <1>8, <2>1, <2>2 DEF IsInjective
<1>9. ASSUME NEW i \in 1 .. n + 1, NEW j \in 1 .. n + 1, i <= j PROVE Rest(order, j) \subseteq Rest(order, i)
  <2>1. \A k \in j .. n : k \in i .. n
    BY <1>9
  <2>2. QED
    BY <1>1, <2>1 DEF Rest
<1>10. QED
  BY <1>1, <1>3, <1>4, <1>5, <1>7, <1>8, <1>9

LEMMA AfterIs ==
  ASSUME NEW S, NEW order \in Seq(S), NEW m \in 0 .. Len(order)
  PROVE  /\ After(order, m) \in Seq(S) /\ Len(After(order, m)) = Len(order) - m
         /\ \A i \in 1 .. Len(order) - m : After(order, m)[i] = order[m + i]
         /\ Range(After(order, m)) = Rest(order, m + 1)
<1>1. PICK n \in Nat : n = Len(order)
  OBVIOUS
<1>2. PICK l \in Int : l = m + 1
  BY <1>1
<1>3. \A i \in l .. n : order[i] \in S
  <2> TAKE i \in l .. n
  <2>1. i \in 1 .. n
    BY <1>1, <1>2
  <2>2. QED
    BY <1>1, <2>1
<1>4. /\ SubSeq(order, l, n) \in Seq(S)
      /\ Len(SubSeq(order, l, n)) = IF l <= n THEN n - l + 1 ELSE 0
      /\ \A i \in 1 .. n - l + 1 : SubSeq(order, l, n)[i] = order[l + i - 1]
  <2>1. PICK h \in Int : h = n
    OBVIOUS
  <2>2. /\ SubSeq(order, l, h) \in Seq(S)
        /\ Len(SubSeq(order, l, h)) = IF l <= h THEN h - l + 1 ELSE 0
        /\ \A i \in 1 .. h - l + 1 : SubSeq(order, l, h)[i] = order[l + i - 1]
    BY <1>3, <2>1, SubSeqProperties
  <2>3. QED
    BY <2>1, <2>2
<1>5. PICK a \in Seq(S) : a = SubSeq(order, l, n)
  BY <1>4
<1>6. PICK b \in Nat : b = Len(a)
  OBVIOUS
<1>7. b = n - m
  BY <1>1, <1>2, <1>4, <1>5, <1>6
<1>8. \A i \in 1 .. n - m : a[i] = order[m + i]
  <2> TAKE i \in 1 .. n - m
  <2>1. i \in 1 .. n - l + 1 /\ l + i - 1 = m + i
    BY <1>1, <1>2
  <2>2. QED
    BY <1>4, <1>5, <2>1
<1>9. After(order, m) = a
  BY <1>1, <1>2, <1>5 DEF After
<1>10. DOMAIN a = 1 .. n - m
  <2>1. DOMAIN a = 1 .. b
    BY <1>6
  <2>2. QED
    BY <1>7, <2>1
<1>11. ASSUME NEW y \in Range(a) PROVE y \in Rest(order, m + 1)
  <2>1. PICK i \in 1 .. n - m : y = a[i]
    BY <1>10, RangeIs
  <2>2. m + i \in m + 1 .. n /\ y = order[m + i]
    BY <1>1, <1>8, <2>1
  <2>3. QED
    BY <1>1, <2>2 DEF Rest
<1>12. ASSUME NEW y \in Rest(order, m + 1) PROVE y \in Range(a)
  <2>1. PICK j \in m + 1 .. n : y = order[j]
    BY <1>1 DEF Rest
  <2>2. j - m \in 1 .. n - m /\ m + (j - m) = j
    BY <1>1
  <2>3. a[j - m] = y
    BY <1>8, <2>1, <2>2
  <2>4. QED
    BY <1>10, <2>2, <2>3, RangeIs
<1>13. Range(a) = Rest(order, m + 1)
  BY <1>11, <1>12
<1>14. QED
  BY <1>1, <1>6, <1>7, <1>8, <1>9, <1>13

\* Dropping the oldest key
LEMMA AfterDrop ==
  ASSUME NEW S, NEW order \in Seq(S), NEW m \in 1 .. Len(order)
  PROVE  /\ Head(After(order, m - 1)) = order[m]
         /\ Tail(After(order, m - 1)) = After(order, m)
<1>1. PICK n \in Nat : n = Len(order)
  OBVIOUS
<1>2. PICK l \in 0 .. Len(order) : l = m - 1
  BY <1>1
<1>3. PICK a \in Seq(S) : a = After(order, l)
  BY AfterIs
<1>4. Len(a) = n - l /\ \A i \in 1 .. n - l : a[i] = order[l + i]
  BY <1>1, <1>3, AfterIs
<1>5. PICK k \in 0 .. Len(order) : k = m
  BY <1>1
<1>6. PICK b \in Seq(S) : b = After(order, k)
  BY AfterIs
<1>7. Len(b) = n - k /\ \A i \in 1 .. n - k : b[i] = order[k + i]
  BY <1>1, <1>6, AfterIs
<1>8. 1 \in 1 .. n - l /\ l + 1 = m /\ n - l # 0 /\ n - l - 1 = n - k /\ n - k \in Nat
  BY <1>1, <1>2, <1>5
<1>9. a # <<>>
  BY <1>4, <1>8
<1>10. Head(a) = order[m]
  BY <1>4, <1>8, <1>9
<1>11. Tail(a) \in Seq(S) /\ Len(Tail(a)) = Len(a) - 1 /\ \A i \in 1 .. Len(Tail(a)) : Tail(a)[i] = a[i + 1]
  BY <1>9, HeadTailProperties
<1>12. PICK t \in Seq(S) : t = Tail(a)
  BY <1>11
<1>13. PICK e \in Nat : e = n - k
  BY <1>8
<1>14. Len(t) = e /\ Len(b) = e
  BY <1>4, <1>7, <1>8, <1>11, <1>12, <1>13
<1>15. \A i \in 1 .. e : t[i] = b[i]
  <2> TAKE i \in 1 .. e
  <2>1. i + 1 \in 1 .. n - l /\ l + (i + 1) = k + i
    BY <1>1, <1>2, <1>5, <1>8, <1>13
  <2>2. t[i] = a[i + 1]
    BY <1>11, <1>12, <1>14
  <2>3. QED
    BY <1>4, <1>7, <1>13, <2>1, <2>2
<1>16. t \in [1 .. e -> S] /\ b \in [1 .. e -> S]
  BY <1>14
<1>17. t = b
  BY <1>15, <1>16
<1>18. QED
  BY <1>2, <1>3, <1>5, <1>6, <1>10, <1>12, <1>17

LEMMA AfterOrdered ==
  ASSUME NEW S, NEW order \in Seq(S), NEW m \in 0 .. Len(order), IsInjective(order)
  PROVE  /\ IsInjective(After(order, m))
         /\ \A i \in 1 .. Len(order) - m : Rest(After(order, m), i) = Rest(order, m + i)
<1>1. PICK n \in Nat : n = Len(order)
  OBVIOUS
<1>2. PICK t \in Seq(S) : t = After(order, m)
  BY AfterIs
<1>3. PICK l \in Nat : l = n - m
  <2>1. m \in 0 .. n
    BY <1>1
  <2>2. n - m \in Nat
    BY <1>1, <2>1
  <2>3. QED
    BY <2>2
<1>4. Len(t) = l /\ DOMAIN t = 1 .. l /\ \A i \in 1 .. l : t[i] = order[m + i]
  <2>1. Len(t) = l /\ \A i \in 1 .. l : t[i] = order[m + i]
    BY <1>1, <1>2, <1>3, AfterIs
  <2>2. DOMAIN t = 1 .. l
    BY <2>1
  <2>3. QED
    BY <2>1, <2>2
<1>5. DOMAIN order = 1 .. n /\ \A i \in 1 .. l : m + i \in 1 .. n
  BY <1>1, <1>3
<1>6. IsInjective(t)
  <2>1. ASSUME NEW i \in 1 .. l, NEW j \in 1 .. l, t[i] = t[j] PROVE i = j
    <3>1. m + i = m + j
      BY <1>4, <1>5, <2>1 DEF IsInjective
    <3>2. QED
      BY <1>1, <3>1
  <2>2. QED
    BY <1>4, <2>1 DEF IsInjective
<1>7. ASSUME NEW i \in 1 .. l PROVE Rest(t, i) = Rest(order, m + i)
  <2>1. ASSUME NEW y \in Rest(t, i) PROVE y \in Rest(order, m + i)
    <3>1. PICK j \in i .. l : y = t[j]
      BY <1>4 DEF Rest
    <3>2. j \in 1 .. l /\ m + j \in m + i .. n
      BY <1>1, <1>3
    <3>3. y = order[m + j]
      BY <1>4, <3>1, <3>2
    <3>4. QED
      BY <1>1, <3>2, <3>3 DEF Rest
  <2>2. ASSUME NEW y \in Rest(order, m + i) PROVE y \in Rest(t, i)
    <3>1. PICK j \in m + i .. n : y = order[j]
      BY <1>1 DEF Rest
    <3>2. j - m \in i .. l /\ j - m \in 1 .. l /\ m + (j - m) = j
      BY <1>1, <1>3
    <3>3. y = t[j - m]
      BY <1>4, <3>1, <3>2
    <3>4. QED
      BY <1>4, <3>2, <3>3 DEF Rest
  <2>3. QED
    BY <2>1, <2>2
<1>8. QED
  BY <1>1, <1>2, <1>3, <1>6, <1>7

\* A key that is found taken out of the order
Without(order, p, t) ==
  /\ IsInjective(t) /\ Range(t) = Range(order) \ {order[p]}
  /\ \A i \in 1 .. Len(t) :
       \E j \in 1 .. Len(order) : t[i] = order[j] /\ Rest(t, i) = Rest(order, j) \ {order[p]}

LEMMA WithoutIs ==
  ASSUME NEW S, NEW order \in Seq(S), IsInjective(order), NEW p \in 1 .. Len(order)
  PROVE  RemoveAt(order, p) \in Seq(S) /\ Without(order, p, RemoveAt(order, p))
<1>1. PICK n \in Nat : n = Len(order)
  OBVIOUS
<1>2. DOMAIN order = 1 .. n /\ p \in 1 .. n /\ \A i \in 1 .. n : order[i] \in S
  BY <1>1
<1>3. PICK a \in Seq(S) : a = SubSeq(order, 1, p - 1) /\ Len(a) = p - 1 /\ \A i \in 1 .. p - 1 : a[i] = order[i]
  <2>1. PICK h \in Int : h = p - 1
    BY <1>2
  <2>2. PICK l \in Int : l = 1
    OBVIOUS
  <2>3. \A i \in l .. h : order[i] \in S
    BY <1>2, <2>1, <2>2
  <2>4. /\ SubSeq(order, l, h) \in Seq(S)
        /\ Len(SubSeq(order, l, h)) = IF l <= h THEN h - l + 1 ELSE 0
        /\ \A i \in 1 .. h - l + 1 : SubSeq(order, l, h)[i] = order[l + i - 1]
    BY <2>3, SubSeqProperties
  <2>5. PICK b \in Seq(S) : b = SubSeq(order, l, h)
    BY <2>4
  <2>6. Len(b) = h
    <3>1. PICK m \in Nat : m = Len(b)
      OBVIOUS
    <3>2. m = IF l <= h THEN h - l + 1 ELSE 0
      BY <2>4, <2>5, <3>1
    <3>3. m = h
      BY <1>2, <2>1, <2>2, <3>2
    <3>4. QED
      BY <3>1, <3>3
  <2>7. \A i \in 1 .. h : b[i] = order[i]
    <3> TAKE i \in 1 .. h
    <3>1. i \in 1 .. h - l + 1 /\ l + i - 1 = i
      BY <2>2
    <3>2. QED
      BY <2>4, <2>5, <3>1
  <2>8. QED
    BY <2>1, <2>2, <2>5, <2>6, <2>7
<1>4. PICK c \in Seq(S) : c = SubSeq(order, p + 1, Len(order)) /\ Len(c) = n - p /\ \A i \in 1 .. n - p : c[i] = order[p + i]
  <2>1. PICK m \in 0 .. Len(order) : m = p
    BY <1>1
  <2>2. After(order, m) \in Seq(S) /\ Len(After(order, m)) = n - m /\ \A i \in 1 .. n - m : After(order, m)[i] = order[m + i]
    BY <1>1, AfterIs
  <2>3. QED
    BY <2>1, <2>2 DEF After
<1>5. PICK t \in Seq(S) : t = a \o c
  BY Joins
<1>6. t = RemoveAt(order, p)
  BY <1>3, <1>4, <1>5 DEF RemoveAt
<1>7. Len(t) = Len(a) + Len(c) /\ \A i \in 1 .. Len(a) + Len(c) : t[i] = IF i <= Len(a) THEN a[i] ELSE c[i - Len(a)]
  BY <1>5, ConcatProperties
<1>8. PICK l \in Nat : l = n - 1
  BY <1>2
<1>9. Len(t) = l /\ DOMAIN t = 1 .. l
  <2>1. Len(t) = l
    BY <1>2, <1>3, <1>4, <1>7, <1>8
  <2>2. QED
    BY <2>1
<1> DEFINE From(i) == IF i < p THEN i ELSE i + 1
<1>10. \A i \in 1 .. l : From(i) \in 1 .. n /\ From(i) # p
  BY <1>2, <1>8
<1>11. \A i \in 1 .. l : t[i] = order[From(i)]
  <2> TAKE i \in 1 .. l
  <2>1. t[i] = IF i <= p - 1 THEN a[i] ELSE c[i - (p - 1)]
    <3> DEFINE e == Len(a) f == Len(c)
    <3>0. e \in Nat /\ f \in Nat /\ e = p - 1 /\ f = n - p
      BY <1>3, <1>4
    <3> HIDE DEF e, f
    <3>1. Len(a) + Len(c) = l /\ Len(a) = p - 1
      <4>1. e + f = l
        BY <1>1, <1>2, <1>8, <3>0
      <4>2. QED
        BY <3>0, <4>1 DEF e, f
    <3>2. PICK b \in Nat : b = Len(a) + Len(c)
      OBVIOUS
    <3>3. i \in 1 .. b /\ b = l
      BY <3>1, <3>2
    <3>4. QED
      BY <1>7, <3>1, <3>2, <3>3
  <2>2. CASE i < p
    <3>1. i \in 1 .. p - 1
      BY <1>2, <2>2
    <3>2. QED
      BY <1>3, <2>1, <2>2, <3>1
  <2>3. CASE ~(i < p)
    <3>1. i - (p - 1) \in 1 .. n - p /\ p + (i - (p - 1)) = i + 1 /\ ~(i <= p - 1)
      BY <1>2, <1>8, <2>3
    <3>2. QED
      BY <1>4, <2>1, <2>3, <3>1
  <2>4. QED
    BY <2>2, <2>3
<1>12. \A j \in 1 .. n : j # p => \E i \in 1 .. l : From(i) = j /\ t[i] = order[j]
  <2> TAKE j \in 1 .. n
  <2>1. CASE j < p
    <3>1. j \in 1 .. l /\ From(j) = j
      BY <1>2, <1>8, <2>1
    <3>2. QED
      BY <1>11, <3>1
  <2>2. CASE j > p
    <3>1. j - 1 \in 1 .. l /\ From(j - 1) = j
      BY <1>2, <1>8, <2>2
    <3>2. QED
      BY <1>11, <3>1
  <2>3. QED
    BY <1>2, <2>1, <2>2
<1>13. \A i, j \in 1 .. l : (i <= j <=> From(i) <= From(j)) /\ (From(i) = From(j) => i = j)
  BY <1>2
<1> HIDE DEF From
<1>14. IsInjective(t)
  BY <1>2, <1>9, <1>10, <1>11, <1>13 DEF IsInjective
<1>15. Range(t) = Range(order) \ {order[p]}
  <2>1. ASSUME NEW y \in Range(t) PROVE y \in Range(order) /\ y # order[p]
    <3>1. PICK i \in 1 .. l : y = order[From(i)]
      BY <1>9, <1>11, RangeIs
    <3>2. QED
      BY <1>2, <1>10, <3>1, RangeIs DEF IsInjective
  <2>2. ASSUME NEW y \in Range(order), y # order[p] PROVE y \in Range(t)
    <3>1. PICK j \in 1 .. n : y = order[j]
      BY <1>2, RangeIs
    <3>2. PICK i \in 1 .. l : t[i] = order[j]
      BY <1>12, <2>2, <3>1
    <3>3. QED
      BY <1>9, <3>1, <3>2, RangeIs
  <2>3. QED
    BY <2>1, <2>2
<1>16. ASSUME NEW i \in 1 .. l PROVE Rest(t, i) = Rest(order, From(i)) \ {order[p]}
  <2>1. PICK f \in 1 .. n : f = From(i)
    BY <1>10
  <2>2. ASSUME NEW y \in Rest(t, i) PROVE y \in Rest(order, f) /\ y # order[p]
    <3>1. PICK j \in i .. l : y = t[j]
      BY <1>9 DEF Rest
    <3>2. j \in 1 .. l /\ i <= j
      OBVIOUS
    <3>3. PICK g \in 1 .. n : g = From(j) /\ g # p
      BY <1>10, <3>2
    <3>4. f <= g /\ y = order[g]
      BY <1>11, <1>13, <2>1, <3>1, <3>2, <3>3
    <3>5. g \in f .. n
      BY <3>4
    <3>6. QED
      BY <1>1, <1>2, <3>3, <3>4, <3>5 DEF Rest, IsInjective
  <2>3. ASSUME NEW y \in Rest(order, f), y # order[p] PROVE y \in Rest(t, i)
    <3>1. PICK g \in f .. n : y = order[g]
      BY <1>1 DEF Rest
    <3>2. g \in 1 .. n /\ f <= g /\ g # p
      BY <2>3, <3>1
    <3>3. PICK j \in 1 .. l : From(j) = g /\ t[j] = order[g]
      BY <1>12, <3>2
    <3>4. i <= j
      BY <1>13, <2>1, <3>2, <3>3
    <3>5. j \in i .. l
      BY <3>4
    <3>6. QED
      BY <1>9, <3>1, <3>3, <3>5 DEF Rest
  <2>4. QED
    BY <2>1, <2>2, <2>3
<1>17. ASSUME NEW i \in 1 .. l PROVE \E j \in 1 .. n : t[i] = order[j] /\ Rest(t, i) = Rest(order, j) \ {order[p]}
  BY <1>10, <1>11, <1>16
<1>18. Without(order, p, t)
  BY <1>1, <1>9, <1>14, <1>15, <1>17 DEF Without
<1>19. QED
  BY <1>6, <1>18

\* A key at the end of the order, as it is asked for
LEMMA OrderAppended ==
  ASSUME NEW S, NEW asked \in Seq(S), NEW k \in S, NEW t \in Seq(S),
         IsInjective(t), k \notin Range(t), Range(t) \subseteq Range(asked),
         \A i \in 1 .. Len(t) : Since(asked, t[i]) \cup {k} = Rest(t, i) \cup {k}
  PROVE  /\ Append(t, k) \in Seq(S) /\ Range(Append(t, k)) = Range(t) \cup {k}
         /\ InOrder(Append(asked, k), Append(t, k))
<1>1. PICK n \in Nat : n = Len(t)
  OBVIOUS
<1>2. PICK u \in Seq(S) : u = Append(t, k)
  BY AppendProperties
<1>3. Len(u) = n + 1 /\ u[n + 1] = k /\ \A i \in 1 .. n : u[i] = t[i]
  BY <1>1, <1>2, AppendProperties
<1>4. Range(u) = Range(t) \cup {k} /\ IsInjective(u)
  BY <1>2, Appended
<1>5. PICK next \in Seq(S) : next = Append(asked, k)
  BY AppendProperties
<1>6. /\ Range(next) = Range(asked) \cup {k} /\ Since(next, k) = {k}
      /\ \A x \in Range(asked) \ {k} : Since(next, x) = Since(asked, x) \cup {k}
  BY <1>5, SinceAppended
<1>7. ASSUME NEW i \in 1 .. n + 1 PROVE Since(next, u[i]) = Rest(u, i)
  <2>1. Rest(u, n + 1) = {k}
    <3>1. \A j : j \in n + 1 .. n + 1 <=> j = n + 1
      OBVIOUS
    <3>2. QED
      BY <1>3, <3>1 DEF Rest
  <2>2. CASE i = n + 1
    BY <1>3, <1>6, <2>1, <2>2
  <2>3. CASE i # n + 1
    <3>1. i \in 1 .. n
      BY <2>3
    <3>2. DOMAIN t = 1 .. n
      BY <1>1
    <3>3. u[i] = t[i] /\ t[i] \in Range(t)
      BY <1>3, <3>1, <3>2, RangeIs
    <3>4. Since(next, u[i]) = Since(asked, t[i]) \cup {k}
      BY <1>6, <3>3
    <3>5. \A j : j \in i .. n + 1 <=> j \in i .. n \/ j = n + 1
      <4>1. PICK e \in Nat : e = n + 1
        BY <1>1
      <4>2. i \in 1 .. n /\ n \in Nat
        BY <1>1, <3>1
      <4>3. \A j : j \in i .. e <=> j \in i .. n \/ j = e
        BY <4>1, <4>2
      <4>4. QED
        BY <4>1, <4>3
    <3>6. \A j \in i .. n : u[j] = t[j]
      <4> TAKE j \in i .. n
      <4>1. j \in 1 .. n
        BY <3>1
      <4>2. QED
        BY <1>3, <4>1
    <3>7. Rest(u, i) = Rest(t, i) \cup {k}
      <4>1. Len(u) = n + 1 /\ Len(t) = n
        BY <1>1, <1>3
      <4>2. Rest(u, i) = {u[j] : j \in i .. n + 1} /\ Rest(t, i) = {t[j] : j \in i .. n}
        BY <4>1 DEF Rest
      <4>3. \A x : x \in Rest(u, i) <=> (\E j \in i .. n : x = u[j]) \/ x = u[n + 1]
        BY <3>5, <4>2
      <4>4. QED
        BY <1>3, <3>6, <4>2, <4>3
    <3>8. QED
      BY <1>1, <3>1, <3>4, <3>7
  <2>4. QED
    BY <2>2, <2>3
<1>8. InOrder(next, u)
  BY <1>3, <1>4, <1>6, <1>7 DEF InOrder
<1>9. QED
  BY <1>2, <1>4, <1>5, <1>8

(***************************************************************************)
(* What reader_load drops for a block that is not held: as many blocks as  *)
(* it must, the least recent first, or all of them in vain.                *)
(***************************************************************************)
FreeAt(order, base, k, m) == (base - Memory[k]) - Weight[Rest(order, m + 1)]
DroppedTo(order, base, k, m) == [order |-> After(order, m), free |-> FreeAt(order, base, k, m)]

Dropped(order, base, k, cache) ==
  \/ /\ \A m \in 0 .. Len(order) : FreeAt(order, base, k, m) < 0
     /\ cache = [order |-> <<>>, free |-> base - Memory[k]]
  \/ \E m \in 0 .. Len(order) :
       /\ FreeAt(order, base, k, m) >= 0
       /\ \A j \in 0 .. Len(order) : j < m => FreeAt(order, base, k, j) < 0
       /\ cache = [order |-> Append(After(order, m), k), free |-> FreeAt(order, base, k, m)]

LEMMA FreeAtIs ==
  ASSUME NEW order \in Seq(Key), IsInjective(order), NEW base \in Int, NEW k \in Key
  PROVE  /\ \A m \in 0 .. Len(order) : FreeAt(order, base, k, m) \in Int
         /\ FreeAt(order, base, k, 0) = (base - Weight[Range(order)]) - Memory[k]
         /\ FreeAt(order, base, k, Len(order)) = base - Memory[k]
         /\ \A m \in 1 .. Len(order) : FreeAt(order, base, k, m) = FreeAt(order, base, k, m - 1) + Memory[order[m]]
         /\ After(order, 0) = order /\ After(order, Len(order)) = <<>>
<1>1. PICK n \in Nat : n = Len(order)
  OBVIOUS
<1>2. PICK S : S = Key
  OBVIOUS
<1>3. PICK s \in Seq(S) : s = order
  BY <1>2
<1>4. /\ Rest(order, 1) = Range(order) /\ Rest(order, n + 1) = {}
      /\ \A i \in 1 .. n : Rest(order, i) = {order[i]} \cup Rest(order, i + 1)
      /\ \A i \in 1 .. n + 1 : Rest(order, i) \subseteq Range(order)
      /\ \A i \in 1 .. n : order[i] \notin Rest(order, i + 1)
  BY <1>1, <1>3, RestIs
<1>5. Range(order) \subseteq Key /\ DOMAIN order = 1 .. n /\ \A i \in 1 .. n : order[i] \in Key
  <2>1. DOMAIN order = 1 .. n /\ \A i \in 1 .. n : order[i] \in Key
    BY <1>1
  <2>2. QED
    BY <2>1, RangeIs
<1>6. \A i \in 1 .. n + 1 : Weight[Rest(order, i)] \in Nat
  <2>1. \A i \in 1 .. n + 1 : Rest(order, i) \in SUBSET Key
    BY <1>4, <1>5
  <2>2. QED
    BY <2>1, WeightIs
<1>7. PICK c \in Nat : c = Memory[k]
  BY MemoryIs
<1>8. ASSUME NEW m \in 0 .. n PROVE FreeAt(order, base, k, m) \in Int
  <2>1. m + 1 \in 1 .. n + 1
    BY <1>1
  <2>2. PICK w \in Nat : w = Weight[Rest(order, m + 1)]
    BY <1>6, <2>1
  <2>3. QED
    BY <1>7, <2>2 DEF FreeAt
<1>9. FreeAt(order, base, k, 0) = (base - Weight[Range(order)]) - Memory[k]
  <2>1. 0 + 1 = 1
    OBVIOUS
  <2>2. 1 \in 1 .. n + 1
    BY <1>1
  <2>3. PICK w \in Nat : w = Weight[Range(order)]
    BY <1>4, <1>6, <2>2
  <2>4. FreeAt(order, base, k, 0) = (base - c) - w
    BY <1>4, <1>7, <2>1, <2>3 DEF FreeAt
  <2>5. (base - c) - w = (base - w) - c
    OBVIOUS
  <2>6. QED
    BY <1>7, <2>3, <2>4, <2>5
<1>10. FreeAt(order, base, k, n) = base - Memory[k]
  <2>1. PICK w \in Nat : w = Weight[Rest(order, n + 1)] /\ w = 0
    BY <1>4, WeightIs
  <2>2. FreeAt(order, base, k, n) = (base - c) - w
    BY <1>7, <2>1 DEF FreeAt
  <2>3. QED
    BY <1>7, <2>1, <2>2
<1>11. ASSUME NEW m \in 1 .. n PROVE FreeAt(order, base, k, m) = FreeAt(order, base, k, m - 1) + Memory[order[m]]
  <2>1. m + 1 \in 1 .. n + 1 /\ (m - 1) + 1 = m /\ m - 1 \in 0 .. n
    BY <1>1
  <2>2. Rest(order, m) = Rest(order, m + 1) \cup {order[m]} /\ order[m] \notin Rest(order, m + 1) /\ order[m] \in Key
    BY <1>4, <1>5
  <2>3. Rest(order, m + 1) \in SUBSET Key
    BY <1>4, <1>5, <2>1
  <2>4. PICK w \in Nat : w = Weight[Rest(order, m + 1)]
    BY <1>6, <2>1
  <2>5. PICK d \in Nat : d = Memory[order[m]]
    BY <2>2, MemoryIs
  <2>6. Weight[Rest(order, m)] = d + w
    BY <2>2, <2>3, <2>4, <2>5, WeightIs
  <2>7. FreeAt(order, base, k, m) = (base - c) - w
    BY <1>7, <2>4 DEF FreeAt
  <2>8. FreeAt(order, base, k, m - 1) = (base - c) - (d + w)
    BY <1>7, <2>1, <2>6 DEF FreeAt
  <2>9. (base - c) - w = ((base - c) - (d + w)) + d
    OBVIOUS
  <2>10. QED
    BY <2>5, <2>7, <2>8, <2>9
<1>12. After(order, 0) = order
  <2>1. PICK z \in 0 .. Len(s) : z = 0
    BY <1>1, <1>3
  <2>2. PICK t \in Seq(S) : t = After(s, z)
    BY AfterIs
  <2>3. Len(t) = Len(s) - z /\ \A i \in 1 .. Len(s) - z : t[i] = s[z + i]
    BY <2>2, AfterIs
  <2>4. Len(t) = n /\ Len(s) = n
    BY <1>1, <1>3, <2>1, <2>3
  <2>5. \A i \in 1 .. n : t[i] = s[i]
    BY <1>1, <1>3, <2>1, <2>3
  <2>6. t \in [1 .. n -> S] /\ s \in [1 .. n -> S]
    BY <2>4
  <2>7. t = s
    BY <2>5, <2>6
  <2>8. QED
    BY <1>3, <2>1, <2>2, <2>7
<1>13. After(order, n) = <<>>
  <2>1. PICK z \in 0 .. Len(s) : z = n
    BY <1>1, <1>3
  <2>2. PICK t \in Seq(S) : t = After(s, z)
    BY AfterIs
  <2>3. Len(t) = n - n
    BY <1>1, <1>3, <2>1, <2>2, AfterIs
  <2>4. Len(t) = 0
    BY <1>1, <2>3
  <2>5. t = <<>>
    BY <2>4, EmptySeq
  <2>6. QED
    BY <1>3, <2>1, <2>2, <2>5
<1>14. QED
  BY <1>1, <1>8, <1>9, <1>10, <1>11, <1>12, <1>13

LEMMA DroppedIs ==
  ASSUME NEW order \in Seq(Key), IsInjective(order), NEW base \in Int, NEW k \in Key, k \notin Range(order)
  PROVE  Dropped(order, base, k, reader_load([order |-> order, free |-> base - Weight[Range(order)]], k, Memory))
<1>1. PICK n \in Nat : n = Len(order)
  OBVIOUS
<1>2. PICK c \in Int : c = base - Weight[Range(order)]
  <2>1. Range(order) \subseteq Key
    <3>1. \A i \in DOMAIN order : order[i] \in Key
      OBVIOUS
    <3>2. QED
      BY <3>1, RangeIs
  <2>2. PICK w \in Nat : w = Weight[Range(order)]
    BY <2>1, WeightIs
  <2>3. QED
    BY <2>2
<1>0. PICK cache : cache = [order |-> order, free |-> c]
  OBVIOUS
<1> DEFINE Step(d, i) == IF i = 0 THEN [order |-> cache.order, free |-> cache.free - Memory[k]]
                         ELSE LET e == d[i - 1] IN [order |-> Tail(e.order), free |-> e.free + Memory[Head(e.order)]]
           dropped == CHOOSE d : d = [i \in 0 .. Len(cache.order) |-> Step(d, i)]
           enough == {i \in 0 .. Len(cache.order) : dropped[i].free >= 0}
           to == [i \in 0 .. n |-> DroppedTo(order, base, k, i)]
<1>3. k \notin Held(cache.order)
  BY <1>0, RangeIs DEF Held
<1>4. reader_load(cache, k, Memory) =
        IF enough = {} THEN dropped[Len(cache.order)] ELSE LET e == dropped[Min(enough)] IN [e EXCEPT !.order = Append(@, k)]
  BY <1>3 DEF reader_load, lru_drop, lru_add
<1>5. /\ \A m \in 0 .. n : FreeAt(order, base, k, m) \in Int
      /\ FreeAt(order, base, k, 0) = c - Memory[k]
      /\ FreeAt(order, base, k, n) = base - Memory[k]
      /\ \A m \in 1 .. n : FreeAt(order, base, k, m) = FreeAt(order, base, k, m - 1) + Memory[order[m]]
      /\ After(order, 0) = order /\ After(order, n) = <<>>
  BY <1>1, <1>2, FreeAtIs
<1>6. \A m \in 1 .. n : Head(After(order, m - 1)) = order[m] /\ Tail(After(order, m - 1)) = After(order, m)
  <2>1. PICK S : S = Key
    OBVIOUS
  <2>2. PICK s \in Seq(S) : s = order
    BY <2>1
  <2>3. QED
    BY <1>1, <2>2, AfterDrop
<1> HIDE DEF enough, dropped
<1>7. ASSUME NEW i \in 0 .. n PROVE to[i] = Step(to, i)
  <2>1. CASE i = 0
    BY <1>0, <1>5, <2>1 DEF DroppedTo
  <2>2. CASE i # 0
    <3>1. i \in 1 .. n /\ i - 1 \in 0 .. n
      BY <1>1, <2>2
    <3>2. to[i - 1] = DroppedTo(order, base, k, i - 1)
      BY <3>1
    <3>3. to[i - 1].order = After(order, i - 1) /\ to[i - 1].free = FreeAt(order, base, k, i - 1)
      BY <3>2 DEF DroppedTo
    <3>4. Step(to, i) = [order |-> Tail(to[i - 1].order), free |-> to[i - 1].free + Memory[Head(to[i - 1].order)]]
      BY <2>2
    <3>5. Step(to, i) = [order |-> After(order, i), free |-> FreeAt(order, base, k, i)]
      <4> HIDE DEF Step, to
      <4> QED
        BY <1>5, <1>6, <3>1, <3>3, <3>4
    <3>6. to[i] = [order |-> After(order, i), free |-> FreeAt(order, base, k, i)]
      BY DEF DroppedTo
    <3> HIDE DEF Step, to
    <3>7. QED
      BY <3>5, <3>6
  <2>3. QED
    BY <2>1, <2>2
<1>8. to = [i \in 0 .. n |-> Step(to, i)]
  <2>1. to = [i \in 0 .. n |-> to[i]]
    OBVIOUS
  <2> HIDE DEF Step, to
  <2>2. QED
    BY <1>7, <2>1
<1>9. dropped = [i \in 0 .. n |-> Step(dropped, i)]
  <2>1. Len(cache.order) = n
    BY <1>0, <1>1
  <2> HIDE DEF Step, to
  <2>2. QED
    BY <1>8, <2>1 DEF dropped
<1>10. \A i \in 0 .. n : dropped[i] = to[i]
  <2> DEFINE Bad == {i \in 0 .. n : dropped[i] # to[i]}
  <2> HIDE DEF to
  <2> SUFFICES ASSUME Bad # {} PROVE FALSE
    OBVIOUS
  <2>1. PICK i \in Bad : \A e \in Bad : i <= e
    <3>1. Bad \in SUBSET Nat
      OBVIOUS
    <3> HIDE DEF Bad
    <3>2. QED
      BY <3>1, LeastOf
  <2>2. i \in 0 .. n /\ dropped[i] # to[i]
    BY <2>1
  <2>3. dropped[i] = Step(dropped, i) /\ to[i] = Step(to, i)
    <3> HIDE DEF Step
    <3> QED
      BY <1>7, <1>9, <2>2
  <2>4. i # 0
    BY <2>2, <2>3
  <2>5. i - 1 \in 0 .. n /\ ~(i <= i - 1)
    BY <1>1, <2>2, <2>4
  <2>6. dropped[i - 1] = to[i - 1]
    BY <2>1, <2>5
  <2>7. QED
    BY <2>2, <2>3, <2>4, <2>6
<1>11. \A i \in 0 .. n : dropped[i] = [order |-> After(order, i), free |-> FreeAt(order, base, k, i)]
  BY <1>10 DEF DroppedTo
<1> HIDE DEF Step, to
<1>12. enough = {i \in 0 .. n : FreeAt(order, base, k, i) >= 0}
  <2>1. Len(cache.order) = n
    BY <1>0, <1>1
  <2>2. \A i \in 0 .. n : dropped[i].free = FreeAt(order, base, k, i)
    <3> TAKE i \in 0 .. n
    <3>1. PICK a : a = After(order, i)
      OBVIOUS
    <3>2. PICK w : w = FreeAt(order, base, k, i)
      OBVIOUS
    <3>3. dropped[i] = [order |-> a, free |-> w]
      BY <1>11, <3>1, <3>2
    <3>4. QED
      BY <3>2, <3>3
  <2>3. QED
    BY <2>1, <2>2 DEF enough
<1>13. CASE enough = {}
  <2>1. \A i \in 0 .. n : FreeAt(order, base, k, i) < 0
    <3>1. \A i \in 0 .. n : ~(FreeAt(order, base, k, i) >= 0)
      BY <1>12, <1>13
    <3>2. QED
      BY <1>5, <3>1
  <2>2. n \in 0 .. n
    BY <1>1
  <2>3. dropped[n] = [order |-> <<>>, free |-> base - Memory[k]]
    BY <1>5, <1>11, <2>2
  <2>4. reader_load(cache, k, Memory) = [order |-> <<>>, free |-> base - Memory[k]]
    BY <1>0, <1>1, <1>4, <1>13, <2>3
  <2>5. QED
    BY <1>0, <1>1, <1>2, <2>1, <2>4 DEF Dropped
<1>14. CASE enough # {}
  <2>1. PICK m \in enough : \A j \in enough : m <= j
    <3>1. enough \in SUBSET Nat
      BY <1>12
    <3>2. QED
      BY <1>14, <3>1, LeastOf
  <2>2. m \in 0 .. n /\ FreeAt(order, base, k, m) >= 0
    BY <1>12, <2>1
  <2>3. Min(enough) = m
    <3>1. \A x \in enough : x \in Int
      BY <1>12
    <3>2. \A x \in enough : (\A j \in enough : x <= j) => x = m
      BY <2>1, <3>1
    <3>3. QED
      BY <2>1, <3>2 DEF Min
  <2>4. ASSUME NEW j \in 0 .. n, j < m PROVE FreeAt(order, base, k, j) < 0
    <3>1. ~(FreeAt(order, base, k, j) >= 0)
      BY <1>12, <2>1, <2>2, <2>4
    <3>2. QED
      BY <1>5, <3>1
  <2>5. dropped[m] = [order |-> After(order, m), free |-> FreeAt(order, base, k, m)]
    BY <1>11, <2>2
  <2>6. [dropped[m] EXCEPT !.order = Append(@, k)] = [order |-> Append(After(order, m), k), free |-> FreeAt(order, base, k, m)]
    <3>1. PICK a : a = After(order, m)
      OBVIOUS
    <3>2. PICK w : w = FreeAt(order, base, k, m)
      OBVIOUS
    <3>3. PICK d : d = [order |-> a, free |-> w]
      OBVIOUS
    <3>4. [d EXCEPT !.order = Append(@, k)] = [order |-> Append(a, k), free |-> w]
      <4>1. PICK u : u = Append(a, k)
        OBVIOUS
      <4>2. Append(d.order, k) = u
        BY <3>3, <4>1
      <4>3. [d EXCEPT !.order = u] = [order |-> u, free |-> w]
        BY <3>3
      <4>4. QED
        BY <4>1, <4>2, <4>3
    <3>5. dropped[m] = d
      BY <2>5, <3>1, <3>2, <3>3
    <3>6. QED
      BY <3>1, <3>2, <3>4, <3>5
  <2>7. reader_load(cache, k, Memory) = [order |-> Append(After(order, m), k), free |-> FreeAt(order, base, k, m)]
    BY <1>4, <1>14, <2>3, <2>6
  <2>8. QED
    BY <1>0, <1>1, <1>2, <2>2, <2>4, <2>7 DEF Dropped
<1>15. QED
  BY <1>13, <1>14

(***************************************************************************)
(* The cache of a file's blocks.                                           *)
(***************************************************************************)
Holds(asked, order) == InOrder(asked, order) /\ Fits(asked, Range(order))
Caching(order) == [order |-> order, free |-> MemoryLimit - Weight[Range(order)]]

ReaderRight(asked, reader) ==
  ~LargeUpto(asked, Len(asked)) => \E order \in Seq(Key) : Holds(asked, order) /\ reader = Caching(order)

LEMMA OrderIs ==
  ASSUME NEW order \in Seq(Key)
  PROVE  /\ Range(order) \in SUBSET Key
         /\ \A i \in 1 .. Len(order) + 1 : Rest(order, i) \in SUBSET Range(order)
         /\ Rest(order, 1) = Range(order)
         /\ \A i \in 1 .. Len(order) : order[i] \in Key /\ order[i] \in Range(order) /\ order[i] \in Rest(order, i)
         /\ \A x \in Range(order) : \E i \in 1 .. Len(order) : order[i] = x
         /\ \A i, j \in 1 .. Len(order) + 1 : i <= j => Rest(order, j) \subseteq Rest(order, i)
         /\ IsInjective(order) => \A i, j \in 1 .. Len(order) : order[i] \in Rest(order, j) => j <= i
<1>1. PICK n \in Nat : n = Len(order)
  OBVIOUS
<1>2. DOMAIN order = 1 .. n /\ \A i \in 1 .. n : order[i] \in Key
  BY <1>1
<1>3. PICK S : S = Key
  OBVIOUS
<1>4. PICK s \in Seq(S) : s = order
  BY <1>3
<1>5. /\ Rest(order, 1) = Range(order)
      /\ \A i \in 1 .. n : Rest(order, i) = {order[i]} \cup Rest(order, i + 1)
      /\ \A i \in 1 .. n + 1 : Rest(order, i) \subseteq Range(order)
      /\ \A i, j \in 1 .. n + 1 : i <= j => Rest(order, j) \subseteq Rest(order, i)
  BY <1>1, <1>4, RestIs
<1>6. ASSUME IsInjective(order), NEW i \in 1 .. n, NEW j \in 1 .. n, order[i] \in Rest(order, j) PROVE j <= i
  <2>1. PICK l \in j .. n : order[i] = order[l]
    BY <1>1, <1>6 DEF Rest
  <2>2. l \in 1 .. n /\ j <= l
    BY <1>1, <2>1
  <2>3. l = i
    BY <1>2, <1>6, <2>1, <2>2 DEF IsInjective
  <2>4. QED
    BY <2>2, <2>3
<1>7. \A x \in Range(order) : \E i \in 1 .. n : order[i] = x
  BY <1>2, RangeIs
<1>8. \A i \in 1 .. n : order[i] \in Range(order)
  BY <1>2, RangeIs
<1>9. Range(order) \in SUBSET Key
  BY <1>2, <1>7
<1>10. QED
  BY <1>1, <1>2, <1>5, <1>6, <1>7, <1>8, <1>9

\* What is held fits, all of it
LEMMA HeldFits ==
  ASSUME NEW asked \in Seq(Key), NEW order \in Seq(Key), Holds(asked, order)
  PROVE  Weight[Range(order)] <= MemoryLimit
<1>1. PICK n \in Nat : n = Len(order)
  OBVIOUS
<1>2. CASE n = 0
  <2>1. Range(order) = {}
    <3>1. ASSUME NEW x \in Range(order) PROVE FALSE
      <4>1. PICK i \in 1 .. Len(order) : order[i] = x
        BY OrderIs
      <4>2. QED
        BY <1>1, <1>2, <4>1
    <3>2. QED
      BY <3>1
  <2>2. QED
    BY <2>1, WeightIs, MemoryIs
<1>3. CASE n # 0
  <2>1. 1 \in 1 .. n
    BY <1>3
  <2>2. order[1] \in Range(order) /\ Rest(order, 1) = Range(order)
    BY <1>1, <2>1, OrderIs
  <2>3. Since(asked, order[1]) = Range(order) /\ order[1] \in Range(asked)
    BY <1>1, <2>1, <2>2 DEF Holds, InOrder
  <2>4. QED
    BY <2>2, <2>3 DEF Holds, Fits
<1>4. QED
  BY <1>2, <1>3

\* Blocks asked for since any, as sets of blocks
LEMMA SinceKeys ==
  ASSUME NEW asked \in Seq(Key), NEW k \in Key
  PROVE  /\ Append(asked, k) \in Seq(Key) /\ Range(Append(asked, k)) = Range(asked) \cup {k}
         /\ Range(asked) \in SUBSET Key
         /\ \A x \in Range(asked) : Since(asked, x) \in SUBSET Key /\ x \in Since(asked, x)
         /\ Since(Append(asked, k), k) = {k}
         /\ \A x \in Range(asked) \ {k} : /\ Since(Append(asked, k), x) = Since(asked, x) \cup {k}
                                          /\ Since(asked, x) \cup {k} \in SUBSET Key
                                          /\ Since(asked, x) \in SUBSET (Since(asked, x) \cup {k})
<1>1. PICK S : S = Key
  OBVIOUS
<1>2. PICK s \in Seq(S) : s = asked
  BY <1>1
<1>3. PICK l \in S : l = k
  BY <1>1
<1>4. Range(asked) \in SUBSET Key
  BY OrderIs
<1>5. /\ Append(asked, k) \in Seq(Key) /\ Range(Append(asked, k)) = Range(asked) \cup {k}
      /\ Since(Append(asked, k), k) = {k}
      /\ \A x \in Range(asked) \ {k} : Since(Append(asked, k), x) = Since(asked, x) \cup {k}
  BY <1>1, <1>2, <1>3, SinceAppended
<1>6. ASSUME NEW x \in Range(asked) PROVE Since(asked, x) \subseteq Range(asked) /\ x \in Since(asked, x)
  <2>1. PICK y \in Range(s) : y = x
    BY <1>2
  <2>2. Since(s, y) \subseteq Range(s)
    BY SinceIs
  <2>3. y \in Since(s, y)
    BY SinceOrdered
  <2>4. QED
    BY <1>2, <2>1, <2>2, <2>3
<1>7. QED
  BY <1>4, <1>5, <1>6

\* A block that is held becomes the most recent one
LEMMA ReaderHit ==
  ASSUME NEW asked \in Seq(Key), NEW k \in Key, NEW order \in Seq(Key), Holds(asked, order), k \in Range(order)
  PROVE  \E u \in Seq(Key) : Holds(Append(asked, k), u) /\ reader_load(Caching(order), k, Memory) = Caching(u)
<1>1. IsInjective(order) /\ Range(order) \subseteq Range(asked)
  BY DEF Holds, InOrder
<1>2. PICK S : S = Key
  OBVIOUS
<1>3. PICK s \in Seq(S) : s = order
  BY <1>2
<1> DEFINE q == CHOOSE i \in DOMAIN order : order[i] = k
<1>4. q \in DOMAIN order /\ order[q] = k
  <2>1. \E i \in DOMAIN order : order[i] = k
    BY RangeIs
  <2>2. QED
    BY <2>1
<1> HIDE DEF q
<1>5. PICK p \in 1 .. Len(s) : p = q
  BY <1>3, <1>4
<1>6. PICK t : t = RemoveAt(order, p)
  OBVIOUS
<1>7. /\ t \in Seq(Key) /\ IsInjective(t) /\ Range(t) = Range(order) \ {k}
      /\ \A i \in 1 .. Len(t) : \E j \in 1 .. Len(order) : t[i] = order[j] /\ Rest(t, i) = Rest(order, j) \ {k}
  <2>1. IsInjective(s) /\ s[p] = k
    BY <1>1, <1>3, <1>4, <1>5
  <2>2. PICK w : w = RemoveAt(s, p)
    OBVIOUS
  <2>3. /\ w \in Seq(S) /\ IsInjective(w) /\ Range(w) = Range(s) \ {s[p]}
        /\ \A i \in 1 .. Len(w) : \E j \in 1 .. Len(s) : w[i] = s[j] /\ Rest(w, i) = Rest(s, j) \ {s[p]}
    <3>1. RemoveAt(s, p) \in Seq(S) /\ Without(s, p, RemoveAt(s, p))
      BY <2>1, WithoutIs
    <3>2. QED
      BY <2>2, <3>1 DEF Without
  <2>4. t = w
    BY <1>3, <1>6, <2>2
  <2>5. QED
    BY <1>2, <1>3, <2>1, <2>3, <2>4
<1>8. ASSUME NEW i \in 1 .. Len(t) PROVE Since(asked, t[i]) \cup {k} = Rest(t, i) \cup {k}
  <2>1. PICK j \in 1 .. Len(order) : t[i] = order[j] /\ Rest(t, i) = Rest(order, j) \ {k}
    BY <1>7
  <2>2. Since(asked, order[j]) = Rest(order, j)
    BY DEF Holds, InOrder
  <2>3. QED
    BY <2>1, <2>2
<1>9. PICK u : u = Append(t, k)
  OBVIOUS
<1>10. u \in Seq(Key) /\ Range(u) = Range(order) /\ InOrder(Append(asked, k), u)
  <2>1. PICK a \in Seq(S) : a = asked
    BY <1>2
  <2>2. PICK l \in S : l = k
    BY <1>2
  <2>3. PICK w \in Seq(S) : w = t
    BY <1>2, <1>7
  <2>4. /\ Append(t, k) \in Seq(Key) /\ Range(Append(t, k)) = Range(t) \cup {k}
        /\ InOrder(Append(asked, k), Append(t, k))
    <3>1. /\ IsInjective(w) /\ l \notin Range(w) /\ Range(w) \subseteq Range(a)
          /\ \A i \in 1 .. Len(w) : Since(a, w[i]) \cup {l} = Rest(w, i) \cup {l}
      BY <1>1, <1>7, <1>8, <2>1, <2>2, <2>3
    <3>2. Append(w, l) \in Seq(S) /\ Range(Append(w, l)) = Range(w) \cup {l} /\ InOrder(Append(a, l), Append(w, l))
      BY <3>1, OrderAppended
    <3>3. QED
      BY <1>2, <2>1, <2>2, <2>3, <3>2
  <2>5. QED
    BY <1>7, <1>9, <2>4
<1>11. ASSUME NEW x \in Range(Append(asked, k))
       PROVE  x \in Range(order) <=> Weight[Since(Append(asked, k), x)] <= MemoryLimit
  <2>1. k \in Range(asked) /\ Range(Append(asked, k)) = Range(asked)
    <3>1. k \in Range(asked)
      BY <1>1
    <3>2. Range(Append(asked, k)) = Range(asked) \cup {k}
      BY SinceKeys
    <3>3. QED
      BY <3>1, <3>2
  <2>2. Weight[Range(order)] <= MemoryLimit /\ Range(order) \in SUBSET Key
    BY HeldFits, OrderIs
  <2>3. PICK w \in Nat : w = Weight[Range(order)]
    BY <2>2, WeightIs
  <2>4. CASE x \in Range(order)
    <3>1. Since(Append(asked, k), x) \subseteq Range(order)
      <4>1. CASE x = k
        BY <4>1, SinceKeys
      <4>2. CASE x # k
        <5>1. PICK j \in 1 .. Len(order) : order[j] = x
          BY <2>4, OrderIs
        <5>2. Since(asked, x) = Rest(order, j)
          BY <5>1 DEF Holds, InOrder
        <5>3. Rest(order, j) \subseteq Range(order)
          <6>1. PICK n \in Nat : n = Len(order)
            OBVIOUS
          <6>2. j \in 1 .. n + 1
            BY <6>1
          <6>3. QED
            BY <6>1, <6>2, OrderIs
        <5>4. Since(Append(asked, k), x) = Since(asked, x) \cup {k}
          BY <1>1, <2>4, <4>2, SinceKeys
        <5>5. QED
          BY <5>2, <5>3, <5>4
      <4>3. QED
        BY <4>1, <4>2
    <3>2. PICK T : T = Since(Append(asked, k), x)
      OBVIOUS
    <3>3. T \in SUBSET Key /\ T \in SUBSET Range(order)
      BY <2>2, <3>1, <3>2
    <3>4. PICK v \in Nat : v = Weight[T]
      BY <3>3, WeightIs
    <3>5. v <= w
      BY <2>2, <2>3, <3>3, <3>4, WeightGrows
    <3>6. v <= MemoryLimit
      BY <2>2, <2>3, <3>5, MemoryIs
    <3>7. QED
      BY <2>4, <3>2, <3>4, <3>6
  <2>5. CASE x \notin Range(order)
    <3>1. x \in Range(asked) \ {k}
      BY <2>1, <2>5
    <3>2. PICK T : T = Since(asked, x) \cup {k}
      OBVIOUS
    <3>3. T = Since(Append(asked, k), x) /\ T \in SUBSET Key /\ Since(asked, x) \in SUBSET T /\ Since(asked, x) \in SUBSET Key
      BY <3>1, <3>2, SinceKeys
    <3>4. PICK v \in Nat : v = Weight[T]
      BY <3>3, WeightIs
    <3>5. PICK b \in Nat : b = Weight[Since(asked, x)]
      BY <3>3, WeightIs
    <3>6. b <= v
      BY <3>3, <3>4, <3>5, WeightGrows
    <3>7. ~(b <= MemoryLimit)
      BY <2>5, <3>1, <3>5 DEF Holds, Fits
    <3>8. ~(v <= MemoryLimit)
      BY <3>6, <3>7, MemoryIs
    <3>9. QED
      BY <2>5, <3>3, <3>4, <3>8
  <2>6. QED
    BY <2>4, <2>5
<1>12. Holds(Append(asked, k), u)
  BY <1>10, <1>11 DEF Holds, Fits
<1>13. reader_load(Caching(order), k, Memory) = Caching(u)
  <2>1. PICK cache : cache = Caching(order)
    OBVIOUS
  <2>2. PICK w : w = MemoryLimit - Weight[Range(order)]
    OBVIOUS
  <2>3. cache = [order |-> order, free |-> w]
    BY <2>1, <2>2 DEF Caching
  <2>4. k \in Held(cache.order)
    BY <2>3, RangeIs DEF Held
  <2>5. reader_load(cache, k, Memory) = [cache EXCEPT !.order = lru_get(@, k)]
    BY <2>4 DEF reader_load
  <2>6. lru_get(cache.order, k) = u
    BY <1>5, <1>6, <1>9, <2>3 DEF lru_get, q
  <2>7. [cache EXCEPT !.order = u] = [order |-> u, free |-> w]
    BY <2>3
  <2>8. reader_load(cache, k, Memory) = [order |-> u, free |-> w]
    BY <2>5, <2>6, <2>7
  <2>9. QED
    BY <1>10, <2>1, <2>2, <2>8 DEF Caching
<1>14. QED
  BY <1>10, <1>12, <1>13

\* A block that is not held takes the place of the least recent ones
LEMMA ReaderMiss ==
  ASSUME NEW asked \in Seq(Key), NEW k \in Key, NEW order \in Seq(Key), Holds(asked, order),
         k \notin Range(order), Memory[k] <= MemoryLimit
  PROVE  \E u \in Seq(Key) : Holds(Append(asked, k), u) /\ reader_load(Caching(order), k, Memory) = Caching(u)
<1>1. IsInjective(order) /\ Range(order) \subseteq Range(asked)
  BY DEF Holds, InOrder
<1>2. PICK n \in Nat : n = Len(order)
  OBVIOUS
<1>3. PICK S : S = Key
  OBVIOUS
<1>4. PICK s \in Seq(S) : s = order
  BY <1>3
<1>5. PICK c \in Nat : c = Memory[k] /\ c <= MemoryLimit
  BY MemoryIs
<1>6. PICK next : next = reader_load(Caching(order), k, Memory)
  OBVIOUS
<1>7. PICK base \in Int : base = MemoryLimit
  BY MemoryIs
<1>8. Dropped(order, base, k, next)
  BY <1>1, <1>6, <1>7, DroppedIs DEF Caching
<1>9. /\ \A m \in 0 .. n : FreeAt(order, base, k, m) \in Int
      /\ FreeAt(order, base, k, n) = base - c
  BY <1>1, <1>2, <1>5, FreeAtIs
<1>10. PICK m \in 0 .. n : /\ FreeAt(order, base, k, m) >= 0
                           /\ \A j \in 0 .. n : j < m => FreeAt(order, base, k, j) < 0
                           /\ next = [order |-> Append(After(order, m), k), free |-> FreeAt(order, base, k, m)]
  <2>1. n \in 0 .. n /\ ~(FreeAt(order, base, k, n) < 0)
    BY <1>2, <1>5, <1>7, <1>9
  <2>2. QED
    BY <1>2, <1>8, <2>1 DEF Dropped
<1>11. \A i \in 1 .. n + 1 : Rest(order, i) \in SUBSET Key /\ Rest(order, i) \in SUBSET Range(order)
  <2>1. Range(order) \in SUBSET Key /\ \A i \in 1 .. n + 1 : Rest(order, i) \in SUBSET Range(order)
    BY <1>2, OrderIs
  <2>2. QED
    BY <2>1
<1>12. ASSUME NEW j \in 1 .. n + 1
       PROVE  Weight[Rest(order, j) \cup {k}] <= MemoryLimit <=> FreeAt(order, base, k, j - 1) >= 0
  <2>1. PICK w \in Nat : w = Weight[Rest(order, j)]
    BY <1>11, WeightIs
  <2>2. k \notin Rest(order, j) /\ Rest(order, j) \in SUBSET Key
    BY <1>11
  <2>3. Weight[Rest(order, j) \cup {k}] = c + w
    BY <1>5, <2>1, <2>2, WeightIs
  <2>4. j - 1 + 1 = j
    OBVIOUS
  <2>5. FreeAt(order, base, k, j - 1) = (base - c) - w
    BY <1>5, <2>1, <2>4 DEF FreeAt
  <2>6. c + w <= base <=> (base - c) - w >= 0
    OBVIOUS
  <2>7. QED
    BY <1>7, <2>3, <2>5, <2>6
<1>13. PICK t : t = After(order, m)
  OBVIOUS
<1>14. /\ t \in Seq(Key) /\ Len(t) = n - m /\ \A i \in 1 .. n - m : t[i] = order[m + i]
       /\ Range(t) = Rest(order, m + 1)
       /\ IsInjective(t) /\ \A i \in 1 .. n - m : Rest(t, i) = Rest(order, m + i)
  <2>1. PICK z \in 0 .. Len(s) : z = m
    BY <1>2, <1>4
  <2>2. IsInjective(s)
    BY <1>1, <1>4
  <2>3. PICK w : w = After(s, z)
    OBVIOUS
  <2>4. /\ w \in Seq(S) /\ Len(w) = Len(s) - z /\ \A i \in 1 .. Len(s) - z : w[i] = s[z + i]
        /\ Range(w) = Rest(s, z + 1)
    BY <2>3, AfterIs
  <2>5. IsInjective(w) /\ \A i \in 1 .. Len(s) - z : Rest(w, i) = Rest(s, z + i)
    BY <2>2, <2>3, AfterOrdered
  <2>6. w = t /\ Len(s) = n
    BY <1>2, <1>4, <1>13, <2>1, <2>3
  <2>7. QED
    BY <1>3, <1>4, <2>1, <2>4, <2>5, <2>6
<1>15. m + 1 \in 1 .. n + 1
  BY <1>2
<1>16. Range(t) \in SUBSET Key /\ Range(t) \subseteq Range(order) /\ k \notin Range(t)
  BY <1>11, <1>14, <1>15
<1>17. PICK u : u = Append(t, k)
  OBVIOUS
<1>18. ASSUME NEW i \in 1 .. Len(t) PROVE Since(asked, t[i]) \cup {k} = Rest(t, i) \cup {k}
  <2>1. i \in 1 .. n - m /\ m + i \in 1 .. n
    BY <1>2, <1>14
  <2>2. Since(asked, order[m + i]) = Rest(order, m + i)
    BY <1>2, <2>1 DEF Holds, InOrder
  <2>3. QED
    BY <1>14, <2>1, <2>2
<1>19. u \in Seq(Key) /\ Range(u) = Rest(order, m + 1) \cup {k} /\ InOrder(Append(asked, k), u)
  <2>1. PICK a \in Seq(S) : a = asked
    BY <1>3
  <2>2. PICK l \in S : l = k
    BY <1>3
  <2>3. PICK w \in Seq(S) : w = t
    BY <1>3, <1>14
  <2>4. /\ IsInjective(w) /\ l \notin Range(w) /\ Range(w) \subseteq Range(a)
        /\ \A i \in 1 .. Len(w) : Since(a, w[i]) \cup {l} = Rest(w, i) \cup {l}
    BY <1>1, <1>14, <1>16, <1>18, <2>1, <2>2, <2>3
  <2>5. Append(w, l) \in Seq(S) /\ Range(Append(w, l)) = Range(w) \cup {l} /\ InOrder(Append(a, l), Append(w, l))
    BY <2>4, OrderAppended
  <2>6. QED
    BY <1>3, <1>14, <1>17, <2>1, <2>2, <2>3, <2>5
<1>20. ASSUME NEW x \in Range(Append(asked, k))
       PROVE  x \in Range(u) <=> Weight[Since(Append(asked, k), x)] <= MemoryLimit
  <2>1. CASE x = k
    <3>1. Since(Append(asked, k), k) = {k}
      BY SinceKeys
    <3>2. Weight[{} \cup {k}] = c + 0 /\ {} \cup {k} = {k}
      <4>1. {} \in SUBSET Key /\ k \notin {}
        OBVIOUS
      <4>2. QED
        BY <1>5, <4>1, WeightIs
    <3>3. Weight[{k}] <= MemoryLimit
      BY <1>5, <3>2
    <3>4. QED
      BY <1>19, <2>1, <3>1, <3>3
  <2>2. CASE x # k /\ x \in Range(order)
    <3>1. PICK j \in 1 .. n : order[j] = x
      BY <1>2, <2>2, OrderIs
    <3>2. j \in 1 .. n + 1 /\ j - 1 \in 0 .. n
      BY <1>2
    <3>3. Since(asked, x) = Rest(order, j)
      BY <1>2, <3>1 DEF Holds, InOrder
    <3>4. Since(Append(asked, k), x) = Rest(order, j) \cup {k}
      BY <1>1, <2>2, <3>3, SinceKeys
    <3>5. CASE m + 1 <= j
      <4>1. Rest(order, j) \subseteq Rest(order, m + 1) /\ order[j] \in Rest(order, j)
        BY <1>2, <1>15, <3>2, <3>5, OrderIs
      <4>2. PICK T : T = Rest(order, m + 1) \cup {k}
        OBVIOUS
      <4>3. T \in SUBSET Key /\ Rest(order, j) \cup {k} \in SUBSET T /\ Rest(order, j) \cup {k} \in SUBSET Key
        BY <1>11, <1>15, <4>1, <4>2
      <4>4. PICK v \in Nat : v = Weight[T]
        BY <4>3, WeightIs
      <4>5. PICK b \in Nat : b = Weight[Rest(order, j) \cup {k}]
        BY <4>3, WeightIs
      <4>6. b <= v
        BY <4>3, <4>4, <4>5, WeightGrows
      <4>7. (m + 1) - 1 = m
        OBVIOUS
      <4>8. v <= MemoryLimit
        BY <1>10, <1>12, <1>15, <4>2, <4>4, <4>7
      <4>9. b <= MemoryLimit
        BY <4>6, <4>8, MemoryIs
      <4>10. x \in Range(u)
        BY <1>19, <3>1, <4>1
      <4>11. QED
        BY <3>4, <4>5, <4>9, <4>10
    <3>6. CASE ~(m + 1 <= j)
      <4>1. j - 1 < m
        BY <3>6
      <4>2. FreeAt(order, base, k, j - 1) < 0 /\ FreeAt(order, base, k, j - 1) \in Int
        BY <1>9, <1>10, <3>2, <4>1
      <4>3. ~(FreeAt(order, base, k, j - 1) >= 0)
        BY <4>2
      <4>4. ~(Weight[Rest(order, j) \cup {k}] <= MemoryLimit)
        BY <1>12, <3>2, <4>3
      <4>5. x \notin Rest(order, m + 1)
        <5>1. SUFFICES ASSUME x \in Rest(order, m + 1) PROVE FALSE
          OBVIOUS
        <5>2. PICK i \in m + 1 .. n : x = order[i]
          BY <1>2, <5>1 DEF Rest
        <5>3. i \in 1 .. n /\ m + 1 <= i
          BY <1>2, <5>2
        <5>4. i = j
          <6>1. DOMAIN order = 1 .. n
            BY <1>2
          <6>2. QED
            BY <1>1, <3>1, <5>2, <5>3, <6>1 DEF IsInjective
        <5>5. QED
          BY <3>6, <5>3, <5>4
      <4>6. QED
        BY <1>19, <2>2, <3>4, <4>4, <4>5
    <3>7. QED
      BY <3>5, <3>6
  <2>3. CASE x # k /\ x \notin Range(order)
    <3>1. x \in Range(asked) \ {k}
      BY <2>3, SinceKeys
    <3>2. PICK T : T = Since(asked, x) \cup {k}
      OBVIOUS
    <3>3. T = Since(Append(asked, k), x) /\ T \in SUBSET Key /\ Since(asked, x) \in SUBSET T /\ Since(asked, x) \in SUBSET Key
      BY <3>1, <3>2, SinceKeys
    <3>4. PICK v \in Nat : v = Weight[T]
      BY <3>3, WeightIs
    <3>5. PICK b \in Nat : b = Weight[Since(asked, x)]
      BY <3>3, WeightIs
    <3>6. b <= v
      BY <3>3, <3>4, <3>5, WeightGrows
    <3>7. ~(b <= MemoryLimit)
      BY <2>3, <3>1, <3>5 DEF Holds, Fits
    <3>8. ~(v <= MemoryLimit)
      BY <3>6, <3>7, MemoryIs
    <3>9. x \notin Range(u)
      BY <1>11, <1>15, <1>19, <2>3
    <3>10. QED
      BY <3>3, <3>4, <3>8, <3>9
  <2>4. QED
    BY <2>1, <2>2, <2>3
<1>21. Holds(Append(asked, k), u)
  BY <1>19, <1>20 DEF Holds, Fits
<1>22. next = Caching(u)
  <2>1. Rest(order, m + 1) \in SUBSET Key /\ k \notin Rest(order, m + 1)
    BY <1>14, <1>16
  <2>2. PICK w \in Nat : w = Weight[Rest(order, m + 1)]
    BY <2>1, WeightIs
  <2>3. Weight[Range(u)] = c + w
    BY <1>5, <1>19, <2>1, <2>2, WeightIs
  <2>4. FreeAt(order, base, k, m) = (base - c) - w
    BY <1>5, <2>2 DEF FreeAt
  <2>5. (base - c) - w = base - (c + w)
    OBVIOUS
  <2>6. FreeAt(order, base, k, m) = MemoryLimit - Weight[Range(u)]
    BY <1>7, <2>3, <2>4, <2>5
  <2>7. QED
    BY <1>10, <1>13, <1>17, <2>6 DEF Caching
<1>23. QED
  BY <1>6, <1>19, <1>21, <1>22

LEMMA EmptyOrder == <<>> \in Seq(Key) /\ Range(<<>>) = {} /\ IsInjective(<<>>) /\ Len(<<>>) = 0
<1>1. PICK e \in Seq(Key) : e = <<>> /\ Len(e) = 0
  <2>1. <<>> \in Seq(Key)
    BY EmptySeq
  <2>2. PICK e \in Seq(Key) : e = <<>>
    BY <2>1
  <2>3. Len(e) = 0
    BY <2>2, EmptySeq
  <2>4. QED
    BY <2>2, <2>3
<1>2. DOMAIN e = {}
  BY <1>1
<1>3. \A x : x \notin Range(e)
  BY <1>2, RangeIs
<1>4. Range(e) = {} /\ IsInjective(e)
  BY <1>2, <1>3 DEF IsInjective
<1>5. QED
  BY <1>1, <1>4

LEMMA ReaderStart == ReaderRight(<<>>, NewCache)
<1>1. PICK e \in Seq(Key) : e = <<>> /\ Len(e) = 0 /\ Range(e) = {} /\ IsInjective(e)
  BY EmptyOrder
<1>2. ~LargeUpto(e, Len(e))
  <2>1. 1 .. Len(e) = {}
    BY <1>1
  <2>2. QED
    BY <2>1 DEF LargeUpto
<1>3. Holds(e, e)
  <2>1. 1 .. Len(e) = {}
    BY <1>1
  <2>2. QED
    BY <1>1, <2>1 DEF Holds, InOrder, Fits
<1>4. NewCache = Caching(e)
  <2>1. Weight[Range(e)] = 0
    BY <1>1, WeightIs
  <2>2. MemoryLimit - 0 = MemoryLimit
    BY MemoryIs
  <2>3. QED
    BY <1>1, <2>1, <2>2 DEF NewCache, Caching
<1>5. QED
  BY <1>1, <1>2, <1>3, <1>4 DEF ReaderRight

LEMMA ReaderStep ==
  ASSUME NEW asked \in Seq(Key), NEW k \in Key, NEW reader, ReaderRight(asked, reader)
  PROVE  ReaderRight(Append(asked, k), reader_load(reader, k, Memory))
<1>1. PICK next \in Seq(Key) : next = Append(asked, k)
  BY SinceKeys
<1>2. LargeUpto(next, Len(next)) <=> LargeUpto(asked, Len(asked)) \/ Memory[k] > MemoryLimit
  BY <1>1, LargeIs
<1>3. CASE LargeUpto(next, Len(next))
  BY <1>1, <1>3 DEF ReaderRight
<1>4. CASE ~LargeUpto(next, Len(next))
  <2>1. PICK order \in Seq(Key) : Holds(asked, order) /\ reader = Caching(order)
    BY <1>2, <1>4 DEF ReaderRight
  <2>2. Memory[k] <= MemoryLimit
    BY <1>2, <1>4, MemoryIs
  <2>3. \E u \in Seq(Key) : Holds(Append(asked, k), u) /\ reader_load(Caching(order), k, Memory) = Caching(u)
    BY <2>1, <2>2, ReaderHit, ReaderMiss
  <2>4. QED
    BY <1>1, <1>4, <2>1, <2>3 DEF ReaderRight
<1>5. QED
  BY <1>3, <1>4

(***************************************************************************)
(* The cache of a block store: nothing is dropped.                         *)
(***************************************************************************)
Kept(asked, order) ==
  IsInjective(order) /\ \A x \in Range(asked) : x \in Range(order) \/ Memory[x] > MemoryLimit - Weight[Range(order)]

StoreRight(asked, store) == \E order \in Seq(Key) : Kept(asked, order) /\ store = Caching(order)

LEMMA StoreStart == StoreRight(<<>>, NewCache)
<1>1. PICK e \in Seq(Key) : e = <<>> /\ Range(e) = {} /\ IsInjective(e)
  BY EmptyOrder
<1>2. Kept(e, e)
  BY <1>1 DEF Kept
<1>3. NewCache = Caching(e)
  <2>1. Weight[Range(e)] = 0
    BY <1>1, WeightIs
  <2>2. MemoryLimit - 0 = MemoryLimit
    BY MemoryIs
  <2>3. QED
    BY <1>1, <2>1, <2>2 DEF NewCache, Caching
<1>4. QED
  BY <1>1, <1>2, <1>3 DEF StoreRight

LEMMA StoreStep ==
  ASSUME NEW asked \in Seq(Key), NEW k \in Key, NEW store, StoreRight(asked, store)
  PROVE  StoreRight(Append(asked, k), store_load(store, k, Memory))
<1>1. PICK order \in Seq(Key) : Kept(asked, order) /\ store = Caching(order)
  BY DEF StoreRight
<1>2. Range(Append(asked, k)) = Range(asked) \cup {k} /\ Range(asked) \in SUBSET Key
  BY SinceKeys
<1>3. Range(order) \in SUBSET Key
  BY OrderIs
<1>4. PICK v \in Nat : v = Weight[Range(order)]
  BY <1>3, WeightIs
<1>5. PICK c \in Nat : c = Memory[k]
  BY MemoryIs
<1>6. PICK l \in Nat : l = MemoryLimit
  BY MemoryIs
<1>7. PICK w \in Int : w = l - v
  OBVIOUS
<1>8. store = [order |-> order, free |-> w]
  BY <1>1, <1>4, <1>6, <1>7 DEF Caching
<1>9. k \in Held(store.order) <=> k \in Range(order)
  BY <1>8, RangeIs DEF Held
<1>10. CASE k \in Range(order) \/ w < c
  <2>1. store_load(store, k, Memory) = store
    BY <1>5, <1>8, <1>9, <1>10 DEF store_load
  <2>2. k \in Range(order) \/ Memory[k] > MemoryLimit - Weight[Range(order)]
    BY <1>4, <1>5, <1>6, <1>7, <1>10
  <2>3. Kept(Append(asked, k), order)
    BY <1>1, <1>2, <2>2 DEF Kept
  <2>4. QED
    BY <1>1, <2>1, <2>3 DEF StoreRight
<1>11. CASE ~(k \in Range(order) \/ w < c)
  <2>1. PICK u : u = Append(order, k)
    OBVIOUS
  <2>2. u \in Seq(Key) /\ Range(u) = Range(order) \cup {k} /\ IsInjective(u)
    <3>1. PICK S : S = Key
      OBVIOUS
    <3>2. PICK s \in Seq(S) : s = order
      BY <3>1
    <3>3. PICK x \in S : x = k
      BY <3>1
    <3>4. Append(s, x) \in Seq(S) /\ Range(Append(s, x)) = Range(s) \cup {x} /\ (IsInjective(s) /\ x \notin Range(s) => IsInjective(Append(s, x)))
      BY Appended
    <3>5. QED
      BY <1>1, <1>11, <2>1, <3>1, <3>2, <3>3, <3>4 DEF Kept
  <2>3. store_load(store, k, Memory) = [order |-> u, free |-> w - c]
    BY <1>5, <1>8, <1>9, <1>11, <2>1 DEF store_load, lru_add
  <2>4. Weight[Range(u)] = c + v
    BY <1>3, <1>4, <1>5, <1>11, <2>2, WeightIs
  <2>5. w - c = l - (c + v)
    BY <1>7
  <2>6. store_load(store, k, Memory) = Caching(u)
    BY <1>6, <2>3, <2>4, <2>5 DEF Caching
  <2>7. ASSUME NEW x \in Range(Append(asked, k)) PROVE x \in Range(u) \/ Memory[x] > MemoryLimit - Weight[Range(u)]
    <3>1. CASE x \in Range(u)
      BY <3>1
    <3>2. CASE x \notin Range(u)
      <4>1. x \in Range(asked) /\ x \notin Range(order)
        BY <1>2, <2>2, <3>2
      <4>2. PICK d \in Nat : d = Memory[x]
        BY <1>2, <4>1, MemoryIs
      <4>3. d > l - v
        BY <1>1, <1>4, <1>6, <4>1, <4>2 DEF Kept
      <4>4. d > l - (c + v)
        BY <4>3
      <4>5. QED
        BY <1>6, <2>4, <4>2, <4>4
    <3>3. QED
      BY <3>1, <3>2
  <2>8. QED
    BY <2>2, <2>6, <2>7 DEF StoreRight, Kept
<1>12. QED
  BY <1>10, <1>11

(***************************************************************************)
(* What a page keeps.                                                      *)
(***************************************************************************)
Timed(asked, time, last) ==
  /\ last \in Nat /\ time \in [DOMAIN time -> 0 .. last] /\ DOMAIN time \subseteq Range(asked)
  /\ \A y \in DOMAIN time : /\ Since(asked, y) \subseteq DOMAIN time
                            /\ \A x \in DOMAIN time : x \in Since(asked, y) <=> time[y] <= time[x]

Sized(asked, keys) == Cardinality(keys) <= 3 /\ (Cardinality(keys) >= 2 \/ keys = Range(asked))

PageRight(asked, page) ==
  \E time, last : page = [time |-> time, last |-> last] /\ Timed(asked, time, last) /\ Sized(asked, DOMAIN time)

LEMMA MaxIs ==
  ASSUME NEW b \in Nat, NEW S \in SUBSET (0 .. b), S # {}
  PROVE  Max(S) \in S /\ \A x \in S : x <= Max(S)
<1> DEFINE Above == {u \in 0 .. b : \A x \in S : x <= u}
<1>1. PICK u \in Above : \A y \in Above : u <= y
  <2>1. Above \in SUBSET Nat /\ b \in Above
    OBVIOUS
  <2> HIDE DEF Above
  <2>2. QED
    BY <2>1, LeastOf
<1>2. u \in 0 .. b /\ \A x \in S : x <= u
  BY <1>1
<1>3. u \in S
  <2> SUFFICES ASSUME u \notin S PROVE FALSE
    OBVIOUS
  <2>1. PICK x \in S : x < u
    <3>1. PICK x \in S : TRUE
      OBVIOUS
    <3>2. x \in 0 .. b /\ x # u /\ x <= u
      BY <1>2, <3>1
    <3>3. QED
      BY <1>2, <3>2
  <2>2. u - 1 \in 0 .. b
    BY <1>2, <2>1
  <2>3. ASSUME NEW y \in S PROVE y <= u - 1
    <3>1. y \in 0 .. b /\ y # u /\ y <= u
      BY <1>2
    <3>2. QED
      BY <1>2, <3>1
  <2>4. u - 1 \in Above
    BY <2>2, <2>3
  <2>5. ~(u <= u - 1)
    BY <1>2
  <2>6. QED
    BY <1>1, <2>4, <2>5
<1>4. Max(S) \in S /\ \A y \in S : Max(S) >= y
  <2>1. \A y \in S : u >= y
    BY <1>2
  <2>2. QED
    BY <1>3, <2>1 DEF Max
<1>5. QED
  BY <1>4

LEMMA PageStart == PageRight(<<>>, NewPage)
<1>1. PICK e \in Seq(Key) : e = <<>> /\ Range(e) = {} /\ Len(e) = 0
  BY EmptyOrder
<1>2. DOMAIN e = {}
  BY <1>1
<1>3. Timed(e, e, 0)
  <2>1. e \in [DOMAIN e -> 0 .. 0]
    <3>1. e \in [DOMAIN e -> Key]
      OBVIOUS
    <3>2. QED
      BY <1>2, <3>1
  <2>2. QED
    BY <1>1, <1>2, <2>1 DEF Timed
<1>4. Sized(e, {})
  BY <1>1, FS_EmptySet DEF Sized
<1>5. NewPage = [time |-> e, last |-> 0]
  BY <1>1 DEF NewPage
<1>6. QED
  BY <1>1, <1>2, <1>3, <1>4, <1>5 DEF PageRight

\* After a reload the counter may go back, but not behind the newest key
LEMMA PageReloaded ==
  ASSUME NEW asked \in Seq(Key), NEW page, PageRight(asked, page)
  PROVE  PageRight(asked, page_reload(page))
<1>1. PICK time, last : page = [time |-> time, last |-> last] /\ Timed(asked, time, last) /\ Sized(asked, DOMAIN time)
  BY DEF PageRight
<1>2. last \in Nat /\ time \in [DOMAIN time -> 0 .. last]
  BY <1>1 DEF Timed
<1>3. PICK m : m = Max({0} \cup Range(time))
  OBVIOUS
<1>4. m \in 0 .. last /\ \A x \in DOMAIN time : time[x] <= m
  <2>1. PICK b \in Nat : b = last
    BY <1>2
  <2>2. \A y \in Range(time) : y \in 0 .. b
    BY <1>2, <2>1, RangeIs
  <2>3. PICK S \in SUBSET (0 .. b) : S = {0} \cup Range(time)
    <3>1. 0 \in 0 .. b
      BY <2>1
    <3>2. {0} \cup Range(time) \in SUBSET (0 .. b)
      BY <2>2, <3>1
    <3>3. QED
      BY <3>2
  <2>4. S # {}
    BY <2>3
  <2>5. Max(S) \in S /\ \A x \in S : x <= Max(S)
    BY <2>4, MaxIs
  <2>6. \A x \in DOMAIN time : time[x] \in S
    BY <2>3, RangeIs
  <2>7. QED
    BY <1>3, <2>1, <2>3, <2>5, <2>6
<1>5. Timed(asked, time, m)
  <2>1. m \in Nat
    BY <1>2, <1>4
  <2>2. \A x \in DOMAIN time : time[x] \in 0 .. m
    <3> TAKE x \in DOMAIN time
    <3>1. time[x] \in 0 .. last /\ time[x] <= m
      BY <1>2, <1>4
    <3>2. QED
      BY <1>2, <2>1, <3>1
  <2>3. time \in [DOMAIN time -> 0 .. m]
    BY <1>2, <2>2
  <2>4. QED
    BY <1>1, <2>1, <2>3 DEF Timed
<1>6. page_reload(page) = [time |-> time, last |-> m]
  <2>1. page_reload(page) = [page EXCEPT !.last = m]
    BY <1>1, <1>3 DEF page_reload
  <2>2. QED
    BY <1>1, <2>1
<1>7. QED
  BY <1>1, <1>5, <1>6 DEF PageRight

\* The key that is used becomes the newest
LEMMA PageNow ==
  ASSUME NEW asked \in Seq(Key), NEW k \in Key, NEW time, NEW last, Timed(asked, time, last)
  PROVE  \E next : /\ page_now([time |-> time, last |-> last], k) = [time |-> next, last |-> last + 1]
                   /\ Timed(Append(asked, k), next, last + 1) /\ DOMAIN next = {k} \cup DOMAIN time
                   /\ next[k] = last + 1 /\ \A x \in DOMAIN time \ {k} : next[x] <= last
<1>1. last \in Nat /\ time \in [DOMAIN time -> 0 .. last] /\ DOMAIN time \subseteq Range(asked)
  BY DEF Timed
<1>2. PICK D : D = DOMAIN time
  OBVIOUS
<1>3. PICK next : next = [x \in {k} \cup D |-> IF x = k THEN last + 1 ELSE time[x]]
  OBVIOUS
<1>4. page_now([time |-> time, last |-> last], k) = [time |-> next, last |-> last + 1]
  BY <1>2, <1>3 DEF page_now
<1>5. DOMAIN next = {k} \cup D /\ next[k] = last + 1 /\ \A x \in D \ {k} : next[x] = time[x] /\ next[x] \in 0 .. last
  BY <1>1, <1>2, <1>3
<1>6. PICK e \in Nat : e = last + 1
  BY <1>1
<1>7. next \in [{k} \cup D -> 0 .. e]
  <2>1. ASSUME NEW x \in {k} \cup D PROVE next[x] \in 0 .. e
    <3>1. CASE x = k
      BY <1>5, <1>6, <3>1
    <3>2. CASE x # k
      <4>1. next[x] \in 0 .. last
        BY <1>5, <3>2
      <4>2. QED
        BY <1>1, <1>6, <4>1
    <3>3. QED
      BY <3>1, <3>2
  <2>2. PICK S : S = {k} \cup D
    OBVIOUS
  <2>3. PICK T : T = 0 .. e
    OBVIOUS
  <2>4. \A x \in S : next[x] \in T
    BY <2>1, <2>2, <2>3
  <2>5. next = [x \in S |-> IF x = k THEN last + 1 ELSE time[x]]
    BY <1>3, <2>2
  <2>6. next \in [S -> T]
    BY <2>4, <2>5
  <2>7. QED
    BY <2>2, <2>3, <2>6
<1>8. DOMAIN next \subseteq Range(Append(asked, k))
  BY <1>1, <1>2, <1>5, SinceKeys
<1>9. ASSUME NEW y \in {k} \cup D, NEW x \in {k} \cup D
      PROVE  x \in Since(Append(asked, k), y) <=> next[y] <= next[x]
  <2>1. CASE y = k
    <3>1. x \in Since(Append(asked, k), y) <=> x = k
      BY <2>1, SinceKeys
    <3>2. CASE x = k
      BY <1>5, <1>6, <2>1, <3>1, <3>2
    <3>3. CASE x # k
      <4>1. next[x] \in 0 .. last /\ next[y] = last + 1
        BY <1>5, <2>1, <3>3
      <4>2. ~(next[y] <= next[x])
        BY <1>1, <4>1
      <4>3. QED
        BY <3>1, <3>3, <4>2
    <3>4. QED
      BY <3>2, <3>3
  <2>2. CASE y # k
    <3>1. y \in D /\ y \in Range(asked) \ {k} /\ next[y] = time[y] /\ next[y] \in 0 .. last
      BY <1>1, <1>2, <1>5, <2>2
    <3>2. Since(Append(asked, k), y) = Since(asked, y) \cup {k}
      BY <3>1, SinceKeys
    <3>3. CASE x = k
      <4>1. next[y] <= next[x]
        BY <1>1, <1>5, <3>1, <3>3
      <4>2. QED
        BY <3>2, <3>3, <4>1
    <3>4. CASE x # k
      <4>1. x \in D /\ next[x] = time[x]
        BY <1>5, <3>4
      <4>2. x \in Since(asked, y) <=> time[y] <= time[x]
        BY <1>2, <3>1, <4>1 DEF Timed
      <4>3. QED
        BY <3>1, <3>2, <3>4, <4>1, <4>2
    <3>5. QED
      BY <3>3, <3>4
  <2>3. QED
    BY <2>1, <2>2
<1>10. ASSUME NEW y \in {k} \cup D PROVE Since(Append(asked, k), y) \subseteq {k} \cup D
  <2>1. CASE y = k
    BY <2>1, SinceKeys
  <2>2. CASE y # k
    <3>1. y \in D /\ y \in Range(asked) \ {k}
      BY <1>1, <1>2, <2>2
    <3>2. Since(Append(asked, k), y) = Since(asked, y) \cup {k} /\ Since(asked, y) \subseteq D
      BY <1>2, <3>1, SinceKeys DEF Timed
    <3>3. QED
      BY <3>2
  <2>3. QED
    BY <2>1, <2>2
<1>11. Timed(Append(asked, k), next, e)
  BY <1>5, <1>7, <1>8, <1>9, <1>10 DEF Timed
<1>12. \A x \in DOMAIN time \ {k} : next[x] <= last
  BY <1>1, <1>2, <1>5
<1>13. QED
  BY <1>2, <1>4, <1>5, <1>6, <1>11, <1>12

LEMMA TwoIs == \A x, y : x # y => IsFiniteSet({x, y}) /\ Cardinality({x, y}) = 2
<1> TAKE x, y
<1> HAVE x # y
<1>1. PICK S : S = {x}
  OBVIOUS
<1>2. IsFiniteSet(S) /\ Cardinality(S) = 1 /\ y \notin S
  BY <1>1, FS_Singleton
<1>3. IsFiniteSet(S \cup {y}) /\ Cardinality(S \cup {y}) = 1 + 1
  BY <1>2, FS_AddElement
<1>4. S \cup {y} = {x, y}
  BY <1>1
<1>5. QED
  BY <1>3, <1>4

\* With one key too many, the key just used and the newest of the others stay
LEMMA PageCollected ==
  ASSUME NEW asked \in Seq(Key), NEW k, NEW time, NEW last, Timed(asked, time, last),
         k \in DOMAIN time, time[k] = last, \A x \in DOMAIN time \ {k} : time[x] < last,
         Cardinality(DOMAIN time) > 3
  PROVE  PageRight(asked, page_collect([time |-> time, last |-> last], 2))
<1>1. PICK D : D = DOMAIN time
  OBVIOUS
<1>2. last \in Nat /\ time \in [D -> 0 .. last] /\ D \subseteq Range(asked) /\ k \in D
  BY <1>1 DEF Timed
<1>3. IsFiniteSet(D) /\ Cardinality(D) \in Nat
  <2>1. Range(asked) \in SUBSET Key
    BY OrderIs
  <2>2. D \in SUBSET Key
    BY <1>2, <2>1
  <2>3. QED
    BY <2>2, KeysFinite
<1>4. PICK b \in D \ {k} : \A x \in D \ {k} : time[x] <= time[b]
  <2>1. D \ {k} # {}
    <3>1. SUFFICES ASSUME D \ {k} = {} PROVE FALSE
      OBVIOUS
    <3>2. D = {k}
      BY <1>2, <3>1
    <3>3. Cardinality(D) = 1
      BY <3>2, FS_Singleton
    <3>4. QED
      BY <1>1, <3>3
  <2>2. PICK l \in Nat : l = last
    BY <1>2
  <2>3. PICK S : S = {time[x] : x \in D \ {k}}
    OBVIOUS
  <2>4. S \in SUBSET (0 .. l) /\ S # {}
    BY <1>2, <2>1, <2>2, <2>3
  <2>5. PICK T \in SUBSET (0 .. l) : T = S
    BY <2>4
  <2>6. Max(T) \in T /\ \A t \in T : t <= Max(T)
    BY <2>4, <2>5, MaxIs
  <2>7. PICK x \in D \ {k} : time[x] = Max(T)
    BY <2>3, <2>5, <2>6
  <2>8. \A y \in D \ {k} : time[y] \in T
    BY <2>3, <2>5
  <2>9. QED
    BY <2>6, <2>7, <2>8
<1>5. \A x, y \in D : time[x] = time[y] => x = y
  <2> TAKE x, y \in D
  <2> HAVE time[x] = time[y]
  <2>1. time[x] <= time[y] /\ time[y] <= time[x]
    BY <1>2
  <2>2. x \in Since(asked, y) /\ y \in Since(asked, x)
    BY <1>1, <2>1 DEF Timed
  <2>3. PICK S : S = Key
    OBVIOUS
  <2>4. PICK s \in Seq(S) : s = asked
    BY <2>3
  <2>5. PICK c \in Range(s) : c = x
    BY <1>2, <2>4
  <2>6. PICK d \in Range(s) : d = y
    BY <1>2, <2>4
  <2>7. c \in Since(s, d) /\ d \in Since(s, c) => c = d
    BY SinceOrdered
  <2>8. QED
    BY <2>2, <2>4, <2>5, <2>6, <2>7
<1>6. /\ \A j \in D : ~(time[j] > time[k])
      /\ \A j \in D : time[j] > time[b] <=> j = k
      /\ \A x \in D \ {k, b} : time[k] > time[x] /\ time[b] > time[x]
  <2>1. \A x \in D \ {k} : time[k] > time[x]
    BY <1>1, <1>2
  <2>2. \A j \in D : ~(time[j] > time[k])
    BY <1>2, <2>1
  <2>3. \A j \in D \ {k} : ~(time[j] > time[b])
    BY <1>2, <1>4
  <2>4. \A x \in D \ {k, b} : time[b] > time[x]
    <3> TAKE x \in D \ {k, b}
    <3>1. time[x] <= time[b] /\ time[x] # time[b] /\ time[x] \in Int /\ time[b] \in Int
      BY <1>2, <1>4, <1>5
    <3>2. QED
      BY <3>1
  <2>5. QED
    BY <1>4, <2>1, <2>2, <2>3, <2>4
<1> DEFINE Newer(x) == {j \in D : time[j] > time[x]}
           K == {x \in D : Cardinality(Newer(x)) < 2}
<1>7. K = {k, b}
  <2>1. Newer(k) = {} /\ Newer(b) = {k}
    BY <1>2, <1>6
  <2>2. Cardinality(Newer(k)) = 0 /\ Cardinality(Newer(b)) = 1
    BY <2>1, FS_EmptySet, FS_Singleton
  <2>3. ASSUME NEW x \in D \ {k, b} PROVE ~(Cardinality(Newer(x)) < 2)
    <3>1. {k, b} \subseteq Newer(x) /\ Newer(x) \subseteq D
      BY <1>2, <1>4, <1>6
    <3> HIDE DEF Newer
    <3>2. IsFiniteSet(Newer(x))
      BY <1>3, <3>1, FS_Subset
    <3>3. Cardinality({k, b}) = 2
      BY <1>4, TwoIs
    <3>4. Cardinality({k, b}) <= Cardinality(Newer(x)) /\ Cardinality(Newer(x)) \in Nat
      BY <3>1, <3>2, FS_Subset, FS_CardinalityType
    <3>5. QED
      BY <3>3, <3>4
  <2> HIDE DEF Newer
  <2>4. QED
    BY <1>2, <1>4, <2>2, <2>3
<1>8. PICK kept : kept = [x \in {k, b} |-> time[x]]
  OBVIOUS
<1>9. page_collect([time |-> time, last |-> last], 2) = [time |-> kept, last |-> last]
  <2>1. PICK page : page = [time |-> time, last |-> last]
    OBVIOUS
  <2>2. page.time = time
    BY <2>1
  <2>3. page_collect(page, 2) = [page EXCEPT !.time = Restrict(page.time, {x \in DOMAIN page.time : Cardinality({j \in DOMAIN page.time : page.time[j] > page.time[x]}) < 2})]
    BY DEF page_collect
  <2>4. Restrict(time, K) = kept
    BY <1>7, <1>8 DEF Restrict
  <2> HIDE DEF K
  <2>5. page_collect(page, 2) = [page EXCEPT !.time = Restrict(time, K)]
    BY <1>1, <2>2, <2>3 DEF K
  <2>6. QED
    BY <2>1, <2>4, <2>5
<1>10. DOMAIN kept = {k, b} /\ \A x \in {k, b} : kept[x] = time[x]
  BY <1>8
<1>11. Timed(asked, kept, last)
  <2>1. kept \in [{k, b} -> 0 .. last]
    BY <1>2, <1>4, <1>8
  <2>2. \A x, y \in {k, b} : x \in Since(asked, y) <=> kept[y] <= kept[x]
    BY <1>1, <1>2, <1>4, <1>10 DEF Timed
  <2>3. ASSUME NEW y \in {k, b}, NEW x \in Since(asked, y) PROVE x \in {k, b}
    <3>1. x \in D /\ time[y] <= time[x]
      BY <1>1, <1>2, <1>4, <2>3 DEF Timed
    <3>2. time[b] <= time[y]
      BY <1>2, <1>4, <1>6
    <3>3. ~(time[b] > time[x])
      BY <1>2, <1>4, <3>1, <3>2
    <3>4. QED
      BY <1>6, <3>1, <3>3
  <2>4. QED
    BY <1>2, <1>4, <1>10, <2>1, <2>2, <2>3 DEF Timed
<1>12. Sized(asked, {k, b})
  <2>1. Cardinality({k, b}) = 2
    BY <1>4, TwoIs
  <2>2. QED
    BY <2>1 DEF Sized
<1>13. QED
  BY <1>9, <1>10, <1>11, <1>12 DEF PageRight

LEMMA PageStep ==
  ASSUME NEW asked \in Seq(Key), NEW k \in Key, NEW page, PageRight(asked, page)
  PROVE  PageRight(Append(asked, k), page_load(page, k, 2, 3))
<1>1. PICK time, last : page = [time |-> time, last |-> last] /\ Timed(asked, time, last) /\ Sized(asked, DOMAIN time)
  BY DEF PageRight
<1>2. PICK a \in Seq(Key) : a = Append(asked, k)
  BY SinceKeys
<1>3. PICK time2 : /\ page_now(page, k) = [time |-> time2, last |-> last + 1]
                   /\ Timed(a, time2, last + 1) /\ DOMAIN time2 = {k} \cup DOMAIN time
                   /\ time2[k] = last + 1 /\ \A x \in DOMAIN time \ {k} : time2[x] <= last
  BY <1>1, <1>2, PageNow
<1>4. last \in Nat /\ DOMAIN time \subseteq Range(asked)
  BY <1>1 DEF Timed
<1>5. PICK D \in SUBSET Key : D = DOMAIN time
  <2>1. Range(asked) \in SUBSET Key
    BY OrderIs
  <2>2. QED
    BY <1>4, <2>1
<1>6. IsFiniteSet(D) /\ Cardinality(D) \in Nat
  BY KeysFinite
<1>7. Range(a) = Range(asked) \cup {k}
  BY <1>2, SinceKeys
<1>8. PICK now : now = [time |-> time2, last |-> last + 1] /\ now = page_now(page, k)
  BY <1>3
<1>9. page.time = time /\ now.time = time2
  BY <1>1, <1>8
<1>10. CASE k \in D
  <2>1. page_load(page, k, 2, 3) = now
    BY <1>5, <1>8, <1>9, <1>10 DEF page_load, page_get
  <2>2. DOMAIN time2 = D
    BY <1>3, <1>5, <1>10
  <2>3. Sized(a, D)
    BY <1>1, <1>4, <1>5, <1>7, <1>10 DEF Sized
  <2>4. QED
    BY <1>2, <1>3, <1>8, <2>1, <2>2, <2>3 DEF PageRight
<1>11. CASE k \notin D
  <2>1. page_load(page, k, 2, 3) = IF Cardinality(DOMAIN time2) > 3 THEN page_collect(now, 2) ELSE now
    BY <1>5, <1>8, <1>9, <1>11 DEF page_load, page_set, page_size
  <2>2. DOMAIN time2 = D \cup {k} /\ Cardinality(D \cup {k}) = Cardinality(D) + 1
    BY <1>3, <1>5, <1>6, <1>11, FS_AddElement
  <2>3. CASE Cardinality(DOMAIN time2) > 3
    <3>1. PICK l : l = last + 1
      OBVIOUS
    <3>2. Timed(a, time2, l) /\ k \in DOMAIN time2 /\ time2[k] = l
      BY <1>3, <3>1
    <3>3. \A x \in DOMAIN time2 \ {k} : time2[x] < l
      <4> TAKE x \in DOMAIN time2 \ {k}
      <4>1. time2[x] <= last
        BY <1>3
      <4>2. time2[x] \in 0 .. last + 1
        BY <1>3 DEF Timed
      <4>3. QED
        BY <1>4, <3>1, <4>1, <4>2
    <3>4. PageRight(a, page_collect([time |-> time2, last |-> l], 2))
      BY <2>3, <3>2, <3>3, PageCollected
    <3>5. QED
      BY <1>2, <1>8, <2>1, <2>3, <3>1, <3>4
  <2>4. CASE ~(Cardinality(DOMAIN time2) > 3)
    <3>1. Sized(a, DOMAIN time2)
      <4>1. PICK n \in Nat : n = Cardinality(D)
        BY <1>6
      <4>2. Cardinality(DOMAIN time2) = n + 1
        BY <2>2, <4>1
      <4>3. n + 1 <= 3
        BY <2>4, <4>2
      <4>4. n >= 2 \/ D = Range(asked)
        BY <1>1, <1>5, <4>1 DEF Sized
      <4>5. n + 1 >= 2 \/ DOMAIN time2 = Range(a)
        BY <1>7, <2>2, <4>4
      <4>6. QED
        BY <4>2, <4>3, <4>5 DEF Sized
    <3>2. QED
      BY <1>2, <1>3, <1>8, <2>1, <2>4, <3>1 DEF PageRight
  <2>5. QED
    BY <2>3, <2>4
<1>12. QED
  BY <1>10, <1>11

\* The page keeps what was asked for last
LEMMA PageKeeps ==
  ASSUME NEW asked \in Seq(Key), NEW page, PageRight(asked, page)
  PROVE  LET n == page_size(page) IN
           /\ n <= 3 /\ n >= Min({2, Cardinality(Range(asked))})
           /\ DOMAIN page.time = {x \in Range(asked) : Cardinality(Since(asked, x)) <= n}
<1>1. PICK time, last : page = [time |-> time, last |-> last] /\ Timed(asked, time, last) /\ Sized(asked, DOMAIN time)
  BY DEF PageRight
<1>2. PICK R \in SUBSET Key : R = Range(asked)
  BY OrderIs
<1>3. PICK D \in SUBSET Key : D = DOMAIN time /\ D \subseteq R
  <2>1. DOMAIN time \subseteq R
    BY <1>1, <1>2 DEF Timed
  <2>2. QED
    BY <1>2, <2>1
<1>4. PICK n \in Nat : n = Cardinality(D) /\ IsFiniteSet(D)
  BY KeysFinite
<1>5. page_size(page) = n /\ DOMAIN page.time = D
  BY <1>1, <1>3, <1>4 DEF page_size
<1>6. n <= 3 /\ (n >= 2 \/ D = R)
  BY <1>1, <1>2, <1>3, <1>4 DEF Sized
<1>7. n >= Min({2, Cardinality(R)})
  <2>1. PICK r \in Nat : r = Cardinality(R)
    BY KeysFinite
  <2>2. \E x \in {2, r} : \A y \in {2, r} : x <= y
    <3>1. CASE r <= 2
      BY <3>1
    <3>2. CASE ~(r <= 2)
      <4>1. 2 <= r
        BY <3>2
      <4>2. QED
        BY <4>1
    <3>3. QED
      BY <3>1, <3>2
  <2>3. PICK m : m = Min({2, r})
    OBVIOUS
  <2>4. m \in {2, r} /\ \A y \in {2, r} : m <= y
    BY <2>2, <2>3 DEF Min
  <2>5. m <= 2 /\ m <= r /\ m \in Nat
    BY <2>4
  <2>6. n >= 2 \/ n = r
    BY <1>4, <1>6, <2>1
  <2>7. QED
    BY <2>1, <2>3, <2>5, <2>6
<1>8. \A x \in R : Since(asked, x) \in SUBSET Key /\ x \in Since(asked, x)
  BY <1>2, SinceKeys
<1>9. ASSUME NEW x \in D PROVE Cardinality(Since(asked, x)) <= n
  <2>1. Since(asked, x) \in SUBSET D
    BY <1>1, <1>3 DEF Timed
  <2>2. QED
    BY <1>4, <2>1, FS_Subset
<1>10. ASSUME NEW x \in R, x \notin D PROVE ~(Cardinality(Since(asked, x)) <= n)
  <2>1. PICK T \in SUBSET Key : T = Since(asked, x)
    BY <1>8
  <2>2. D \subseteq T
    <3>1. ASSUME NEW y \in D PROVE y \in T
      <4>1. x \notin Since(asked, y)
        BY <1>1, <1>3, <1>10 DEF Timed
      <4>2. PICK S : S = Key
        OBVIOUS
      <4>3. PICK s \in Seq(S) : s = asked
        BY <4>2
      <4>4. PICK c \in Range(s) : c = x
        BY <1>2, <4>3
      <4>5. PICK d \in Range(s) : d = y
        BY <1>2, <1>3, <4>3
      <4>6. c \in Since(s, d) \/ d \in Since(s, c)
        BY SinceOrdered
      <4>7. QED
        BY <2>1, <4>1, <4>3, <4>4, <4>5, <4>6
    <3>2. QED
      BY <3>1
  <2>3. D \cup {x} \subseteq T
    BY <1>8, <2>1, <2>2
  <2>4. Cardinality(D \cup {x}) = n + 1
    BY <1>4, <1>10, FS_AddElement
  <2>5. IsFiniteSet(T) /\ Cardinality(T) \in Nat
    BY KeysFinite
  <2>6. PICK U \in SUBSET T : U = D \cup {x}
    BY <2>3
  <2>7. Cardinality(U) <= Cardinality(T)
    BY <2>5, FS_Subset
  <2>8. n + 1 <= Cardinality(T)
    BY <2>4, <2>6, <2>7
  <2>9. QED
    BY <2>1, <2>5, <2>8
<1>11. D = {x \in R : Cardinality(Since(asked, x)) <= n}
  BY <1>3, <1>9, <1>10
<1>12. QED
  BY <1>2, <1>5, <1>6, <1>7, <1>11

(***************************************************************************)
(* The property of the caches, from these.                                 *)
(***************************************************************************)
LEMMA ReaderKeeps ==
  ASSUME NEW asked \in Seq(Key), NEW reader, ReaderRight(asked, reader)
  PROVE  LET large == {i \in DOMAIN asked : Memory[asked[i]] > MemoryLimit}
             held == {k \in Range(asked) : Weight[Since(asked, k)] <= MemoryLimit}
         IN large = {} =>
              /\ Range(reader.order) = held /\ Len(reader.order) = Cardinality(held)
              /\ \A i \in 2 .. Len(reader.order) : Since(asked, reader.order[i]) \subseteq Since(asked, reader.order[i - 1])
              /\ reader.free = MemoryLimit - Weight[held]
<1> DEFINE large == {i \in DOMAIN asked : Memory[asked[i]] > MemoryLimit}
           held == {k \in Range(asked) : Weight[Since(asked, k)] <= MemoryLimit}
<1>1. large = {} <=> ~LargeUpto(asked, Len(asked))
  <2>1. DOMAIN asked = 1 .. Len(asked)
    OBVIOUS
  <2>2. QED
    BY <2>1 DEF LargeUpto
<1>2. ASSUME large = {}
      PROVE  /\ Range(reader.order) = held /\ Len(reader.order) = Cardinality(held)
             /\ \A i \in 2 .. Len(reader.order) : Since(asked, reader.order[i]) \subseteq Since(asked, reader.order[i - 1])
             /\ reader.free = MemoryLimit - Weight[held]
  <2>1. PICK order \in Seq(Key) : Holds(asked, order) /\ reader = Caching(order)
    BY <1>1, <1>2 DEF ReaderRight
  <2>2. reader.order = order /\ reader.free = MemoryLimit - Weight[Range(order)]
    BY <2>1 DEF Caching
  <2>3. Range(order) = held
    BY <2>1 DEF Holds, InOrder, Fits
  <2>4. Len(order) = Cardinality(Range(order))
    <3>1. PICK S : S = Key
      OBVIOUS
    <3>2. PICK s \in Seq(S) : s = order
      BY <3>1
    <3>3. IsInjective(s)
      BY <2>1, <3>2 DEF Holds, InOrder
    <3>4. QED
      BY <3>2, <3>3, LengthIs
  <2>5. PICK n \in Nat : n = Len(order)
    OBVIOUS
  <2>6. ASSUME NEW i \in 2 .. n PROVE Since(asked, order[i]) \subseteq Since(asked, order[i - 1])
    <3>1. i \in 1 .. n /\ i - 1 \in 1 .. n /\ i \in 1 .. n + 1 /\ i - 1 \in 1 .. n + 1 /\ i - 1 <= i
      BY <2>5
    <3>2. Since(asked, order[i]) = Rest(order, i) /\ Since(asked, order[i - 1]) = Rest(order, i - 1)
      BY <2>1, <2>5, <3>1 DEF Holds, InOrder
    <3>3. QED
      BY <2>5, <3>1, <3>2, OrderIs
  <2> HIDE DEF large, held
  <2>7. QED
    BY <2>2, <2>3, <2>4, <2>5, <2>6
<1> HIDE DEF large, held
<1>3. QED
  BY <1>2 DEF large, held

LEMMA StoreKeeps ==
  ASSUME NEW asked \in Seq(Key), NEW store, StoreRight(asked, store)
  PROVE  /\ \A k \in Range(asked) : k \in Range(store.order) \/ Memory[k] > store.free
         /\ Len(store.order) = Cardinality(Range(store.order))
         /\ store.free = MemoryLimit - Weight[Range(store.order)]
<1>1. PICK order \in Seq(Key) : Kept(asked, order) /\ store = Caching(order)
  BY DEF StoreRight
<1>2. store.order = order /\ store.free = MemoryLimit - Weight[Range(order)]
  BY <1>1 DEF Caching
<1>3. Len(order) = Cardinality(Range(order))
  <2>1. PICK S : S = Key
    OBVIOUS
  <2>2. PICK s \in Seq(S) : s = order
    BY <2>1
  <2>3. IsInjective(s)
    BY <1>1, <2>2 DEF Kept
  <2>4. QED
    BY <2>2, <2>3, LengthIs
<1>4. QED
  BY <1>1, <1>2, <1>3 DEF Kept

(***************************************************************************)
(* The caches of a behavior that asks for blocks.                          *)
(***************************************************************************)
CachesRight(r) ==
  \E steps, asked, reader, store, page :
    /\ r = [steps |-> steps, asked |-> asked, reader |-> reader, store |-> store, page |-> page]
    /\ asked \in Seq(Key) /\ ReaderRight(asked, reader) /\ StoreRight(asked, store) /\ PageRight(asked, page)

CacheInv == call.op = "cache" => result = NoResult \/ CachesRight(result)

LEMMA CacheStart == Init => CacheInv
BY DEF Init, CacheInv

LEMMA CachedRight == call.op = "cache" /\ CacheInv => CachesRight(Cached)
<1> SUFFICES ASSUME call.op = "cache", CacheInv PROVE CachesRight(Cached)
  OBVIOUS
<1>1. CASE result = NoResult
  <2>1. Cached = [steps |-> 0, asked |-> <<>>, reader |-> NewCache, store |-> NewCache, page |-> NewPage]
    BY <1>1 DEF Cached
  <2>2. QED
    BY <2>1, EmptyOrder, ReaderStart, StoreStart, PageStart DEF CachesRight
<1>2. CASE result # NoResult
  BY <1>2 DEF Cached, CacheInv
<1>3. QED
  BY <1>1, <1>2

LEMMA LoadedRight ==
  ASSUME NEW r, CachesRight(r), NEW k \in Key
  PROVE  CachesRight([steps |-> r.steps + 1, asked |-> Append(r.asked, k),
                      reader |-> reader_load(r.reader, k, Memory), store |-> store_load(r.store, k, Memory),
                      page |-> page_load(Reloaded(r.page, r.steps), k, 2, 3)])
<1>1. PICK steps, asked, reader, store, page :
        /\ r = [steps |-> steps, asked |-> asked, reader |-> reader, store |-> store, page |-> page]
        /\ asked \in Seq(Key) /\ ReaderRight(asked, reader) /\ StoreRight(asked, store) /\ PageRight(asked, page)
  BY DEF CachesRight
<1>2. r.steps = steps /\ r.asked = asked /\ r.reader = reader /\ r.store = store /\ r.page = page
  BY <1>1
<1>3. Append(asked, k) \in Seq(Key)
  BY <1>1, SinceKeys
<1>4. ReaderRight(Append(asked, k), reader_load(reader, k, Memory))
  BY <1>1, ReaderStep
<1>5. StoreRight(Append(asked, k), store_load(store, k, Memory))
  BY <1>1, StoreStep
<1>6. PICK p : p = Reloaded(page, steps)
  OBVIOUS
<1>7. PageRight(asked, p)
  BY <1>1, <1>6, PageReloaded DEF Reloaded
<1>8. PageRight(Append(asked, k), page_load(p, k, 2, 3))
  BY <1>1, <1>7, PageStep
<1>9. PICK r1 : r1 = reader_load(reader, k, Memory)
  OBVIOUS
<1>10. PICK s1 : s1 = store_load(store, k, Memory)
  OBVIOUS
<1>11. PICK p1 : p1 = page_load(p, k, 2, 3)
  OBVIOUS
<1>12. CachesRight([steps |-> steps + 1, asked |-> Append(asked, k), reader |-> r1, store |-> s1, page |-> p1])
  BY <1>3, <1>4, <1>5, <1>8, <1>9, <1>10, <1>11 DEF CachesRight
<1>13. QED
  BY <1>2, <1>6, <1>9, <1>10, <1>11, <1>12

LEMMA CacheStep == CacheInv /\ [Next]_<<call, result>> => CacheInv'
<1> SUFFICES ASSUME CacheInv, [Next]_<<call, result>> PROVE CacheInv'
  OBVIOUS
<1>1. CASE UNCHANGED <<call, result>>
  BY <1>1 DEF CacheInv, NoResult, CachesRight
<1>2. CASE OtherCalls
  BY <1>2, OthersCall DEF CacheInv
<1>3. CASE AddRequest \/ Waitsome
  <2>1. call' = call /\ call.op = "requests"
    BY <1>3 DEF AddRequest, Waitsome
  <2>2. QED
    BY <2>1 DEF CacheInv
<1>4. CASE LoadBlock
  <2>1. PICK r : r = Cached
    OBVIOUS
  <2>2. PICK k \in Key :
          result' = [steps |-> r.steps + 1, asked |-> Append(r.asked, k),
                     reader |-> reader_load(r.reader, k, Memory), store |-> store_load(r.store, k, Memory),
                     page |-> page_load(Reloaded(r.page, r.steps), k, 2, 3)]
    BY <1>4, <2>1 DEF LoadBlock, Key
  <2>3. CachesRight(r)
    BY <1>4, <2>1, CachedRight DEF LoadBlock
  <2>4. PICK t : t = result'
    OBVIOUS
  <2>5. CachesRight(t)
    BY <2>2, <2>3, <2>4, LoadedRight
  <2>6. QED
    BY <2>4, <2>5 DEF CachesRight, CacheInv
<1>5. QED
  BY <1>1, <1>2, <1>3, <1>4 DEF Next, OtherCalls

LEMMA CacheKept == CacheInv => CacheKeepsRecent
<1> SUFFICES ASSUME CacheInv, call.op = "cache", result # NoResult PROVE CacheKeepsRecent
  BY DEF CacheKeepsRecent
<1>1. PICK steps, asked, reader, store, page :
        /\ result = [steps |-> steps, asked |-> asked, reader |-> reader, store |-> store, page |-> page]
        /\ asked \in Seq(Key) /\ ReaderRight(asked, reader) /\ StoreRight(asked, store) /\ PageRight(asked, page)
  BY DEF CacheInv, CachesRight
<1>2. result.asked = asked /\ result.reader = reader /\ result.store = store /\ result.page = page
  BY <1>1
<1> DEFINE large == {i \in DOMAIN asked : Memory[asked[i]] > MemoryLimit}
           held == {k \in Range(asked) : Weight[Since(asked, k)] <= MemoryLimit}
<1>3. large = {} =>
        /\ Range(reader.order) = held /\ Len(reader.order) = Cardinality(held)
        /\ \A i \in 2 .. Len(reader.order) : Since(asked, reader.order[i]) \subseteq Since(asked, reader.order[i - 1])
        /\ reader.free = MemoryLimit - Weight[held]
  BY <1>1, ReaderKeeps, Zenon
<1>4. QED
  BY <1>1, <1>2, <1>3, StoreKeeps, PageKeeps, ZenonT(40) DEF CacheKeepsRecent

\* Whatever blocks are asked for and in whatever order, the three caches keep what they
\* should (block_cache.cc, store_block_cache.cc, local_lru.js); the first of them until a
\* block is asked for that is larger than it
THEOREM CachesKeepRecent == Spec => []CacheKeepsRecent
<1>1. Init => CacheInv
  BY CacheStart
<1>2. CacheInv /\ [Next]_<<call, result>> => CacheInv'
  BY CacheStep
<1>3. CacheInv => CacheKeepsRecent
  BY CacheKept
<1>4. QED
  BY <1>1, <1>2, <1>3, PTL DEF Spec


(***************************************************************************)
(* Arithmetic modulo 3 on all bits at once, and the wavelet.               *)
(***************************************************************************)
\* Values modulo 3, one for each bit: where it is 1 and where it is 2
Trits(bits) == {t \in (SUBSET bits) \X (SUBSET bits) : t[1] \cap t[2] = {}}

LEMMA TritsAre ==
  ASSUME NEW bits, NEW t \in Trits(bits)
  PROVE  \E x \in SUBSET bits, y \in SUBSET bits : t = <<x, y>> /\ \A e : ~(e \in x /\ e \in y)
  BY DEF Trits

LEMMA IsTrit ==
  ASSUME NEW bits, NEW x \in SUBSET bits, NEW y \in SUBSET bits, \A e : ~(e \in x /\ e \in y)
  PROVE  <<x, y>> \in Trits(bits)
<1>1. x \cap y = {}
  OBVIOUS
<1>2. <<x, y>> \in (SUBSET bits) \X (SUBSET bits) /\ <<x, y>>[1] = x /\ <<x, y>>[2] = y
  OBVIOUS
<1> QED
  BY <1>1, <1>2 DEF Trits

\* Bit by bit
IsSum(x, y, a, b, c, d) ==
  \A e : /\ e \in x <=> \/ e \in a /\ ~(e \in c \/ e \in d)
                        \/ e \in c /\ ~(e \in a \/ e \in b)
                        \/ e \in b /\ e \in d
         /\ e \in y <=> \/ e \in b /\ ~(e \in c \/ e \in d)
                        \/ e \in d /\ ~(e \in a \/ e \in b)
                        \/ e \in a /\ e \in c

Apart(a, b) == \A e : ~(e \in a /\ e \in b)

Sums(sum, x, y, a, b, c, d) == sum = <<x, y>> /\ IsSum(x, y, a, b, c, d) /\ Apart(x, y)

LEMMA AddIs ==
  ASSUME NEW bits, NEW a \in SUBSET bits, NEW b \in SUBSET bits, NEW c \in SUBSET bits, NEW d \in SUBSET bits,
         Apart(a, b), Apart(c, d)
  PROVE  \E x \in SUBSET bits, y \in SUBSET bits : Sums(add(<<a, b>>, <<c, d>>), x, y, a, b, c, d)
<1> DEFINE sx == Xor(Xor(a, c), b \cap d)
           sy == Xor(Xor(b, d), a \cap c)
           o == sx \cap sy
           x == Xor(sx, o)
           y == Xor(sy, o)
<1>1. add(<<a, b>>, <<c, d>>) = <<x, y>>
  BY DEF add
<1>2. \A e : /\ e \in sx <=> ((e \in a <=> ~(e \in c)) <=> ~(e \in b /\ e \in d))
             /\ e \in sy <=> ((e \in b <=> ~(e \in d)) <=> ~(e \in a /\ e \in c))
  BY DEF Xor
<1> HIDE DEF sx, sy
<1>3. \A e : /\ e \in x <=> (e \in sx /\ ~(e \in sy))
             /\ e \in y <=> (e \in sy /\ ~(e \in sx))
  BY DEF Xor
<1> HIDE DEF x, y
<1>4. IsSum(x, y, a, b, c, d)
  <2> SUFFICES ASSUME NEW e
               PROVE /\ e \in x <=> \/ e \in a /\ ~(e \in c \/ e \in d)
                                    \/ e \in c /\ ~(e \in a \/ e \in b)
                                    \/ e \in b /\ e \in d
                     /\ e \in y <=> \/ e \in b /\ ~(e \in c \/ e \in d)
                                    \/ e \in d /\ ~(e \in a \/ e \in b)
                                    \/ e \in a /\ e \in c
    BY DEF IsSum
  <2> QED
    BY <1>2, <1>3 DEF Apart
<1>5. \A e : ~(e \in x /\ e \in y)
  BY <1>3
<1>6. x \in SUBSET bits /\ y \in SUBSET bits
  BY <1>4 DEF IsSum
<1>7. Sums(add(<<a, b>>, <<c, d>>), x, y, a, b, c, d)
  BY <1>1, <1>4, <1>5 DEF Sums, Apart
<1> QED
  BY <1>6, <1>7

\* A sum and a difference give their terms back
LEMMA TermsComeBack ==
  ASSUME NEW bits, NEW f \in Trits(bits), NEW g \in Trits(bits)
  PROVE  /\ add(f, g) \in Trits(bits) /\ sub(f, g) \in Trits(bits)
         /\ neg_add(add(f, g), sub(f, g)) = f
         /\ rev_sub(add(f, g), sub(f, g)) = g
<1>1. PICK a \in SUBSET bits, b \in SUBSET bits : f = <<a, b>> /\ Apart(a, b)
  BY TritsAre DEF Apart
<1>2. PICK c \in SUBSET bits, d \in SUBSET bits : g = <<c, d>> /\ Apart(c, d)
  BY TritsAre DEF Apart
<1>3. neg(g) = <<d, c>>
  BY <1>2 DEF neg
<1>4. PICK x \in SUBSET bits, y \in SUBSET bits :
        add(f, g) = <<x, y>> /\ IsSum(x, y, a, b, c, d) /\ Apart(x, y)
  <2>1. PICK x \in SUBSET bits, y \in SUBSET bits : Sums(add(<<a, b>>, <<c, d>>), x, y, a, b, c, d)
    BY <1>1, <1>2, AddIs
  <2> QED
    BY <2>1, <1>1, <1>2 DEF Sums
<1>5. PICK u \in SUBSET bits, v \in SUBSET bits :
        sub(f, g) = <<u, v>> /\ IsSum(u, v, a, b, d, c) /\ Apart(u, v)
  <2>0. Apart(d, c)
    BY <1>2 DEF Apart
  <2>1. PICK u \in SUBSET bits, v \in SUBSET bits : Sums(add(<<a, b>>, <<d, c>>), u, v, a, b, d, c)
    BY <1>1, <2>0, AddIs
  <2> QED
    BY <2>1, <1>1, <1>3 DEF Sums, sub
<1>6. add(f, g) \in Trits(bits) /\ sub(f, g) \in Trits(bits)
  BY <1>4, <1>5, IsTrit DEF Apart
<1>7. neg_add(add(f, g), sub(f, g)) = f
  <2>1. PICK p \in SUBSET bits, q \in SUBSET bits :
          add(<<x, y>>, <<u, v>>) = <<p, q>> /\ IsSum(p, q, x, y, u, v)
    <3>1. PICK p \in SUBSET bits, q \in SUBSET bits : Sums(add(<<x, y>>, <<u, v>>), p, q, x, y, u, v)
      BY <1>4, <1>5, AddIs
    <3> QED
      BY <3>1 DEF Sums
  <2>2. neg_add(add(f, g), sub(f, g)) = <<q, p>>
    BY <2>1, <1>4, <1>5 DEF neg_add, neg
  <2>3. \A e : (e \in q <=> e \in a) /\ (e \in p <=> e \in b)
    <3> TAKE e
    <3> QED
      BY <2>1, <1>1, <1>2, <1>4, <1>5 DEF IsSum, Apart
  <2>4. q = a /\ p = b
    BY <2>3
  <2> QED
    BY <1>1, <2>2, <2>4
<1>8. rev_sub(add(f, g), sub(f, g)) = g
  <2>1. neg(<<x, y>>) = <<y, x>>
    BY DEF neg
  <2>2. PICK p \in SUBSET bits, q \in SUBSET bits :
          add(<<u, v>>, <<y, x>>) = <<p, q>> /\ IsSum(p, q, u, v, y, x)
    <3>0. Apart(y, x)
      BY <1>4 DEF Apart
    <3>1. PICK p \in SUBSET bits, q \in SUBSET bits : Sums(add(<<u, v>>, <<y, x>>), p, q, u, v, y, x)
      BY <1>5, <3>0, AddIs
    <3> QED
      BY <3>1 DEF Sums
  <2>3. rev_sub(add(f, g), sub(f, g)) = <<p, q>>
    BY <2>1, <2>2, <1>4, <1>5 DEF rev_sub, sub
  <2>4. \A e : (e \in p <=> e \in c) /\ (e \in q <=> e \in d)
    <3> TAKE e
    <3> QED
      BY <2>2, <1>1, <1>2, <1>4, <1>5 DEF IsSum, Apart
  <2>5. p = c /\ q = d
    BY <2>4
  <2> QED
    BY <1>2, <2>3, <2>5
<1> QED
  BY <1>6, <1>7, <1>8

\* The wavelet of eight entries is undone by its inverse, whatever the entries are, as
\* long as no position is both won and lost (filter.cc)
THEOREM WaveletComesBack ==
  ASSUME NEW bits, NEW f \in [1 .. 8 -> Trits(bits)]
  PROVE  wavelet_inverse(wavelet(f)) = f
<1> DEFINE p == [i \in 1 .. 4 |-> add(f[2 * i - 1], f[2 * i])]
           m == [i \in 1 .. 4 |-> sub(f[2 * i - 1], f[2 * i])]
           pp == <<add(p[1], p[2]), add(p[3], p[4])>>
           pm == <<sub(p[1], p[2]), sub(p[3], p[4])>>
<1>1. \A i \in 1 .. 8 : f[i] \in Trits(bits)
  OBVIOUS
<1>2. /\ p[1] = add(f[1], f[2]) /\ p[2] = add(f[3], f[4]) /\ p[3] = add(f[5], f[6]) /\ p[4] = add(f[7], f[8])
      /\ m[1] = sub(f[1], f[2]) /\ m[2] = sub(f[3], f[4]) /\ m[3] = sub(f[5], f[6]) /\ m[4] = sub(f[7], f[8])
  OBVIOUS
<1>3. wavelet(f) = <<add(pp[1], pp[2]), sub(pp[1], pp[2]), pm[1], pm[2], m[1], m[2], m[3], m[4]>>
  BY DEF wavelet
<1>4. /\ pp[1] = add(p[1], p[2]) /\ pp[2] = add(p[3], p[4])
      /\ pm[1] = sub(p[1], p[2]) /\ pm[2] = sub(p[3], p[4])
  OBVIOUS
<1> HIDE DEF p, m, pp, pm
<1>5. /\ p[1] \in Trits(bits) /\ neg_add(p[1], m[1]) = f[1] /\ rev_sub(p[1], m[1]) = f[2]
      /\ p[2] \in Trits(bits) /\ neg_add(p[2], m[2]) = f[3] /\ rev_sub(p[2], m[2]) = f[4]
      /\ p[3] \in Trits(bits) /\ neg_add(p[3], m[3]) = f[5] /\ rev_sub(p[3], m[3]) = f[6]
      /\ p[4] \in Trits(bits) /\ neg_add(p[4], m[4]) = f[7] /\ rev_sub(p[4], m[4]) = f[8]
  BY <1>1, <1>2, TermsComeBack
<1>6. /\ pp[1] \in Trits(bits) /\ neg_add(pp[1], pm[1]) = p[1] /\ rev_sub(pp[1], pm[1]) = p[2]
      /\ pp[2] \in Trits(bits) /\ neg_add(pp[2], pm[2]) = p[3] /\ rev_sub(pp[2], pm[2]) = p[4]
  BY <1>4, <1>5, TermsComeBack
<1>7. PICK w : w = wavelet(f)
  OBVIOUS
<1>8. /\ w[1] = add(pp[1], pp[2]) /\ w[2] = sub(pp[1], pp[2]) /\ w[3] = pm[1] /\ w[4] = pm[2]
      /\ w[5] = m[1] /\ w[6] = m[2] /\ w[7] = m[3] /\ w[8] = m[4]
  BY <1>3, <1>7
<1>9. neg_add(w[1], w[2]) = pp[1] /\ rev_sub(w[1], w[2]) = pp[2]
  BY <1>6, <1>8, TermsComeBack
<1> DEFINE qq == <<neg_add(w[1], w[2]), rev_sub(w[1], w[2])>>
           q == <<neg_add(qq[1], w[3]), rev_sub(qq[1], w[3]), neg_add(qq[2], w[4]), rev_sub(qq[2], w[4])>>
<1>10. qq[1] = pp[1] /\ qq[2] = pp[2]
  BY <1>9
<1>11. wavelet_inverse(w) = [i \in 1 .. 8 |-> LET k == (i + 1) \div 2 IN IF i % 2 = 1 THEN neg_add(q[k], w[4 + k]) ELSE rev_sub(q[k], w[4 + k])]
  BY DEF wavelet_inverse
<1> HIDE DEF qq
<1>12. q[1] = p[1] /\ q[2] = p[2] /\ q[3] = p[3] /\ q[4] = p[4]
  BY <1>6, <1>8, <1>10
<1> HIDE DEF q
<1>13. \A i \in 1 .. 8 : wavelet_inverse(w)[i] = f[i]
  <2>1. wavelet_inverse(w)[1] = neg_add(q[1], w[5]) /\ wavelet_inverse(w)[2] = rev_sub(q[1], w[5])
    BY <1>11
  <2>2. wavelet_inverse(w)[3] = neg_add(q[2], w[6]) /\ wavelet_inverse(w)[4] = rev_sub(q[2], w[6])
    BY <1>11
  <2>3. wavelet_inverse(w)[5] = neg_add(q[3], w[7]) /\ wavelet_inverse(w)[6] = rev_sub(q[3], w[7])
    BY <1>11
  <2>4. wavelet_inverse(w)[7] = neg_add(q[4], w[8]) /\ wavelet_inverse(w)[8] = rev_sub(q[4], w[8])
    BY <1>11
  <2>5. \A i \in 1 .. 8 : i \in {1, 2, 3, 4, 5, 6, 7, 8}
    OBVIOUS
  <2>6. /\ wavelet_inverse(w)[1] = f[1] /\ wavelet_inverse(w)[2] = f[2] /\ wavelet_inverse(w)[3] = f[3]
        /\ wavelet_inverse(w)[4] = f[4] /\ wavelet_inverse(w)[5] = f[5] /\ wavelet_inverse(w)[6] = f[6]
        /\ wavelet_inverse(w)[7] = f[7] /\ wavelet_inverse(w)[8] = f[8]
    BY <2>1, <2>2, <2>3, <2>4, <1>5, <1>8, <1>12
  <2> QED
    BY <2>5, <2>6
<1>14. wavelet_inverse(w) = [i \in 1 .. 8 |-> wavelet_inverse(w)[i]]
  BY <1>11
<1> QED
  BY <1>7, <1>13, <1>14
=============================================================================
