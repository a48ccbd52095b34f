--------------------------- MODULE IBarrierProofs ----------------------------
(***************************************************************************)
(* Machine-checked proofs about the barrier of ibarrier.cc, for any number *)
(* of ranks, any amount of work, any tree that satisfies TreeAssumption,   *)
(* and whether or not MPI buffers the sends that are cancelled.            *)
(***************************************************************************)
EXTENDS IBarrier, FiniteSetTheorems, WellFoundedInduction, TLAPS

(***************************************************************************)
(* A nonempty set of naturals has a least element.                         *)
(***************************************************************************)
LEMMA LeastElement ==
  ASSUME NEW S \in SUBSET Nat, S # {}
  PROVE  \E m \in S : \A k \in S : m <= k
<1> DEFINE Less == {ss \in Nat \X Nat : ss[1] < ss[2]}
<1>1. IsWellFoundedOn(Less, Nat)
  BY NatLessThanWellFounded DEF OpToRel
<1> HIDE DEF Less
<1>2. PICK m \in S : \A k \in S : ~(<<k, m>> \in Less)
  BY <1>1, WFMin
<1>3. \A k \in S : ~(k < m)
  BY <1>2 DEF Less
<1>4. QED
  BY <1>3

(***************************************************************************)
(* The tree: children are ranks other than their parent and the root.      *)
(***************************************************************************)
LEMMA TreeFacts ==
  /\ 0 \in Rank
  /\ \A r \in Rank : /\ Kids[r] \in SUBSET Rank
                     /\ r \notin Kids[r]
                     /\ 0 \notin Kids[r]
                     /\ \A c \in Rank : c \in Kids[r] <=> Parent[c] = r
  /\ \A r \in Rank \ {0} : /\ Parent[r] \in Rank
                           /\ Parent[r] < r
                           /\ r \in Kids[Parent[r]]
                           /\ r \notin Kids[r]
                           /\ Parent[r] \notin Kids[r]
<1>1. 0 \in Rank
  BY RanksAssumption DEF Rank
<1>2. \A r \in Rank \ {0} : Parent[r] \in Rank /\ Parent[r] < r
  BY RanksAssumption, TreeAssumption DEF Rank
<1>3. \A r \in Rank : \A c \in Rank : c \in Kids[r] <=> Parent[c] = r
  BY TreeAssumption
<1>4. \A r \in Rank : /\ Kids[r] \in SUBSET Rank
                      /\ r \notin Kids[r]
                      /\ 0 \notin Kids[r]
  <2>1. \A r \in Rank : Kids[r] \in SUBSET Rank
    BY TreeAssumption
  <2>2. \A r \in Rank : r # -1
    BY RanksAssumption DEF Rank
  <2>3. \A r \in Rank : Parent[r] # r
    BY <1>1, <1>2, <2>2, TreeAssumption, RanksAssumption DEF Rank
  <2>4. QED
    BY <1>1, <1>3, <2>1, <2>2, <2>3, TreeAssumption
<1>5. \A r \in Rank \ {0} : Parent[r] \notin Kids[r]
  <2> SUFFICES ASSUME NEW r \in Rank \ {0}, Parent[r] \in Kids[r]
               PROVE  FALSE
    OBVIOUS
  <2>1. Parent[r] # 0 /\ Parent[Parent[r]] = r
    BY <1>2, <1>3, <1>4
  <2>2. QED
    BY <1>2, <2>1 DEF Rank
<1>6. QED
  BY <1>1, <1>2, <1>3, <1>4, <1>5

(***************************************************************************)
(* Outstanding is a finite set of ranks, whatever the state.               *)
(***************************************************************************)
LEMMA OutstandingFinite ==
  ASSUME NEW r \in Rank
  PROVE  /\ Outstanding(r) \in SUBSET Rank
         /\ IsFiniteSet(Outstanding(r))
         /\ Cardinality(Outstanding(r)) \in Nat
         /\ Cardinality(Outstanding(r)) = 0 <=> Outstanding(r) = {}
<1>1. Outstanding(r) \in SUBSET Rank
  BY TreeFacts DEF Outstanding
<1>2. IsFiniteSet(Rank)
  BY FS_Interval, RanksAssumption DEF Rank
<1>3. IsFiniteSet(Outstanding(r))
  BY <1>1, <1>2, FS_Subset
<1>4. QED
  BY <1>1, <1>3, FS_CardinalityType, FS_EmptySet

(***************************************************************************)
(* Reading a rank's count: it is positive while anything is outstanding,   *)
(* and zero only when nothing is.                                          *)
(***************************************************************************)
LEMMA CountMeaning ==
  ASSUME TypeOK, CountInv, NEW r \in Rank
  PROVE  /\ ~started[r] => count[r] >= 1
         /\ \A c \in Kids[r] : count[c] # 0 \/ net[c][r] # 0 => count[r] >= 1
         /\ \A c \in Kids[r] : ~started[r] /\ net[c][r] # 0 => count[r] >= 2
         /\ count[r] = 0 => /\ started[r]
                            /\ \A c \in Kids[r] : count[c] = 0 /\ net[c][r] = 0
<1>1. count[r] = Cardinality(Outstanding(r)) /\ count[r] \in Nat
  BY DEF CountInv, TypeOK
<1>2. count[r] = 0 <=> Outstanding(r) = {}
  BY <1>1, OutstandingFinite
<1>3. \A c \in Kids[r] : ~started[r] /\ net[c][r] # 0 => count[r] >= 2
  <2> SUFFICES ASSUME NEW c \in Kids[r], ~started[r], net[c][r] # 0
               PROVE  count[r] >= 2
    OBVIOUS
  <2>1. r # c /\ {r, c} \subseteq Outstanding(r)
    BY TreeFacts DEF Outstanding
  <2>2. /\ IsFiniteSet(Outstanding(r) \ {r})
        /\ Cardinality(Outstanding(r) \ {r}) = count[r] - 1
    BY <1>1, <2>1, OutstandingFinite, FS_RemoveElement
  <2>3. count[r] - 1 # 0
    <3>1. Cardinality(Outstanding(r) \ {r}) # 0
      BY <2>1, <2>2, FS_EmptySet
    <3> QED BY <2>2, <3>1
  <2>4. count[r] # 0
    BY <1>2, <2>1
  <2>5. QED
    BY <1>1, <2>3, <2>4
<1>4. count[r] # 0 => count[r] >= 1
  BY <1>1
<1>5. /\ ~started[r] => r \in Outstanding(r)
      /\ \A c \in Kids[r] : count[c] # 0 \/ net[c][r] # 0 => c \in Outstanding(r)
  BY DEF Outstanding
<1>6. QED
  BY <1>2, <1>3, <1>4, <1>5

(***************************************************************************)
(* When the root's count is zero so is everyone's: take the least rank that*)
(* disagrees and look at its parent.                                       *)
(***************************************************************************)
LEMMA RootZeroMeansAllZero ==
  ASSUME TypeOK, CountInv, count[0] = 0
  PROVE  \A r \in Rank : count[r] = 0 /\ started[r]
<1>1. \A r \in Rank : count[r] = 0
  <2> DEFINE Bad == {r \in Rank : count[r] # 0}
  <2> SUFFICES ASSUME Bad # {} PROVE FALSE
    OBVIOUS
  <2>1. Bad \in SUBSET Nat
    BY RanksAssumption DEF Rank
  <2>2. PICK m \in Bad : \A k \in Bad : m <= k
    <3> HIDE DEF Bad
    <3> QED BY <2>1, LeastElement
  <2>3. m \in Rank \ {0} /\ count[m] # 0
    OBVIOUS
  <2>4. Parent[m] \in Rank /\ Parent[m] < m /\ m \in Kids[Parent[m]]
    BY <2>3, TreeFacts
  <2>5. count[Parent[m]] = 0
    BY <2>1, <2>2, <2>4 DEF Rank
  <2>6. QED
    BY <2>3, <2>4, <2>5, CountMeaning
<1>2. QED
  BY <1>1, CountMeaning
-----------------------------------------------------------------------------
(***************************************************************************)
(* Transmit keeps the type of net when it takes only messages that exist.  *)
(***************************************************************************)
LEMMA TransmitType ==
  ASSUME NEW taken, NEW sent, Transmit(taken, sent),
         net \in [Rank -> [Rank -> Nat]],
         \A s, d \in Rank : <<s, d>> \in taken => net[s][d] > 0
  PROVE  net' \in [Rank -> [Rank -> Nat]]
<1>1. \A s, d \in Rank :
        net[s][d] - (IF <<s, d>> \in taken THEN 1 ELSE 0)
                  + (IF <<s, d>> \in sent THEN 1 ELSE 0) \in Nat
  <2> SUFFICES ASSUME NEW s \in Rank, NEW d \in Rank
               PROVE  net[s][d] - (IF <<s, d>> \in taken THEN 1 ELSE 0)
                                + (IF <<s, d>> \in sent THEN 1 ELSE 0) \in Nat
    OBVIOUS
  <2>1. net[s][d] \in Nat
    OBVIOUS
  <2>2. <<s, d>> \in taken => net[s][d] > 0
    OBVIOUS
  <2>3. QED
    BY <2>1, <2>2
<1>2. QED
  BY <1>1 DEF Transmit

(***************************************************************************)
(* ibarrier_t::decrement is called either by start, on a rank that has not *)
(* started, or for a report taken from a child.                            *)
(***************************************************************************)
Reason(r, begun, taken) ==
  \/ begun = TRUE /\ ~started[r] /\ taken = {}
  \/ begun = started[r] /\ \E s \in Kids[r] : net[s][r] > 0 /\ taken = {<<s, r>>}

(***************************************************************************)
(* In either case its assertion holds and the count is positive.           *)
(***************************************************************************)
LEMMA DecrementAllowed ==
  ASSUME IInv, NEW r \in Rank, NEW begun \in BOOLEAN, NEW taken,
         Reason(r, begun, taken)
  PROVE  ~done[r] /\ (count[r] > 1 \/ begun) /\ count[r] \in Nat /\ count[r] >= 1
<1> USE DEF IInv
<1>1. count[r] \in Nat
  BY DEF TypeOK
<1>2. count[r] >= 1
  BY CountMeaning, <1>1 DEF Reason, TypeOK
<1>3. ~done[r]
  BY <1>2, <1>1 DEF DoneInv
<1>4. count[r] > 1 \/ begun
  BY CountMeaning, <1>1 DEF Reason
<1>5. QED
  BY <1>1, <1>2, <1>3, <1>4

(***************************************************************************)
(* A decrement preserves every conjunct of the invariant but PhaseInv,     *)
(* which is about its caller.                                              *)
(***************************************************************************)
LEMMA DecrementPreserves ==
  ASSUME IInv, NEW r \in Rank, NEW begun \in BOOLEAN, NEW taken,
         Reason(r, begun, taken), Decrement(r, begun, taken)
  PROVE  /\ started' = [started EXCEPT ![r] = begun]
         /\ \A x \in Rank : done[x] => done'[x]
         /\ \A x \in Rank \ {r} : done'[x] = done[x]
         /\ started' \in [Rank -> BOOLEAN] /\ count' \in [Rank -> Nat]
         /\ done' \in [Rank -> BOOLEAN] /\ net' \in [Rank -> [Rank -> Nat]]
         /\ failed' = failed
         /\ DoneInv' /\ NetInv' /\ CountInv'
<1> DEFINE sent == IF count[r] > 1 THEN {}
                   ELSE IF r = 0 THEN ToKids(0) \cup {ToSelf}
                   ELSE {<<r, Parent[r]>>}
<1>0. TypeOK /\ DoneInv /\ NetInv /\ CountInv
  BY DEF IInv
<1>1. ~done[r] /\ (count[r] > 1 \/ begun) /\ count[r] \in Nat /\ count[r] >= 1
  BY DecrementAllowed
<1>2. /\ count' = [count EXCEPT ![r] = @ - 1]
      /\ started' = [started EXCEPT ![r] = begun]
      /\ done' = [done EXCEPT ![r] = r = 0 /\ count[r] = 1]
      /\ Transmit(taken, sent)
      /\ failed' = failed
  BY <1>1 DEF Decrement
<1> HIDE DEF sent
<1>3. \A s, d \in Rank :
        net'[s][d] = net[s][d] - (IF <<s, d>> \in taken THEN 1 ELSE 0)
                               + (IF <<s, d>> \in sent THEN 1 ELSE 0)
  <2>1. Transmit(taken, sent)
    BY <1>2
  <2>2. QED
    BY <2>1 DEF Transmit
<1>4. \A s, d \in Rank : <<s, d>> \in taken => s \in Kids[d] /\ d = r /\ net[s][d] = 1
  <2> SUFFICES ASSUME NEW s \in Rank, NEW d \in Rank, <<s, d>> \in taken
               PROVE  s \in Kids[d] /\ d = r /\ net[s][d] = 1
    OBVIOUS
  <2>1. s \in Kids[r] /\ d = r /\ net[s][r] > 0
    BY DEF Reason
  <2>2. <<s, d>> # ToSelf
    BY <2>1, TreeFacts DEF ToSelf
  <2>3. net[s][d] \in Nat
    BY <1>0 DEF TypeOK
  <2>4. QED
    BY <1>0, <2>1, <2>2, <2>3 DEF NetInv
<1>5. /\ started' \in [Rank -> BOOLEAN] /\ count' \in [Rank -> Nat]
      /\ done' \in [Rank -> BOOLEAN] /\ net' \in [Rank -> [Rank -> Nat]]
  <2>1. net' \in [Rank -> [Rank -> Nat]]
    <3>1. \A s, d \in Rank : <<s, d>> \in taken => net[s][d] > 0
      BY <1>4
    <3>2. net \in [Rank -> [Rank -> Nat]]
      BY <1>0 DEF TypeOK
    <3>3. QED
      BY <1>2, <3>1, <3>2, TransmitType
  <2>2. started' \in [Rank -> BOOLEAN] /\ count' \in [Rank -> Nat]
    BY <1>0, <1>1, <1>2 DEF TypeOK
  <2>3. done' \in [Rank -> BOOLEAN]
    BY <1>0, <1>2 DEF TypeOK
  <2>4. QED
    BY <2>1, <2>2, <2>3
<1>6. /\ \A x \in Rank : done[x] => done'[x]
      /\ \A x \in Rank \ {r} : done'[x] = done[x]
  BY <1>1, <1>2, <1>0 DEF TypeOK
<1>7. DoneInv'
  <2>1. \A x \in Rank : done'[x] => done'[0] /\ count'[x] = 0
    <3> SUFFICES ASSUME NEW x \in Rank, done'[x] PROVE done'[0] /\ count'[x] = 0
      OBVIOUS
    <3>1. CASE x = r
      BY <1>0, <1>1, <1>2, <3>1, TreeFacts DEF TypeOK
    <3>2. CASE x # r
      BY <1>0, <1>1, <1>2, <1>6, <3>2, TreeFacts DEF TypeOK, DoneInv
    <3> QED BY <3>1, <3>2
  <2>2. \A x \in Rank \ {0} : done'[x] => done'[Parent[x]]
    BY <1>0, <1>1, <1>2, <1>6, TreeFacts DEF TypeOK, DoneInv
  <2>3. QED
    BY <2>1, <2>2 DEF DoneInv
<1>8. NetInv'
  <2> SUFFICES ASSUME NEW s \in Rank, NEW d \in Rank, net'[s][d] # 0, <<s, d>> # ToSelf
               PROVE  /\ net'[s][d] = 1
                      /\ \/ s \in Kids[d] /\ count'[s] = 0
                         \/ d \in Kids[s] /\ done'[s] /\ ~done'[d]
    BY DEF NetInv
  <2>0. net[s][d] \in Nat
    BY <1>0 DEF TypeOK
  <2>1. CASE <<s, d>> \in sent
    <3>1. count[r] = 1 /\ count'[r] = 0
      BY <1>0, <1>1, <1>2, <2>1 DEF TypeOK, sent
    <3>2. CASE r = 0
      <4>1. s = 0 /\ d \in Kids[0] /\ d # 0
        BY <2>1, <3>1, <3>2, TreeFacts DEF ToKids, ToSelf, sent
      <4>2. net[s][d] = 0
        BY <1>0, <1>1, <2>0, <3>2, <4>1, TreeFacts DEF NetInv
      <4>3. done'[0] /\ ~done'[d]
        <5>1. ~done[d]
          BY <1>0, <1>1, <3>2 DEF DoneInv
        <5>2. done'[0] /\ done'[d] = done[d]
          BY <1>0, <1>2, <3>1, <3>2, <4>1 DEF TypeOK
        <5>3. QED
          BY <5>1, <5>2
      <4>4. <<s, d>> \notin taken
        BY <1>4, <3>2, <4>1
      <4>5. net'[s][d] = 1
        BY <1>3, <2>1, <4>2, <4>4
      <4>6. d \in Kids[s] /\ done'[s] /\ ~done'[d]
        BY <4>1, <4>3
      <4>7. QED
        BY <4>5, <4>6
    <3>3. CASE r # 0
      <4>1. s = r /\ d = Parent[r] /\ s \in Kids[d] /\ d \notin Kids[s]
        BY <2>1, <3>1, <3>3, TreeFacts DEF sent
      <4>2. net[s][d] = 0
        BY <1>0, <2>0, <3>1, <4>1 DEF NetInv
      <4>3. <<s, d>> \notin taken
        BY <1>4, <4>2
      <4>4. net'[s][d] = 1
        BY <1>3, <2>1, <4>2, <4>3
      <4>5. QED
        BY <3>1, <4>1, <4>4
    <3> QED BY <3>2, <3>3
  <2>2. CASE <<s, d>> \notin sent
    <3>1. <<s, d>> \notin taken /\ net'[s][d] = net[s][d]
      BY <1>3, <1>4, <2>0, <2>2
    <3>2. net[s][d] = 1
      BY <1>0, <3>1 DEF NetInv
    <3>3. CASE s \in Kids[d] /\ count[s] = 0
      BY <1>0, <1>1, <1>2, <3>1, <3>2, <3>3 DEF TypeOK
    <3>4. CASE d \in Kids[s] /\ done[s] /\ ~done[d]
      <4>1. d # 0
        BY <3>4, TreeFacts
      <4>2. ~done'[d]
        BY <1>0, <1>2, <3>4, <4>1 DEF TypeOK
      <4>3. QED
        BY <1>6, <3>1, <3>2, <3>4, <4>2
    <3> QED BY <1>0, <3>1, <3>3, <3>4 DEF NetInv
  <2> QED BY <2>1, <2>2
<1>9. CountInv'
  <2> SUFFICES ASSUME NEW x \in Rank
               PROVE  count'[x] = Cardinality(Outstanding(x)')
    BY DEF CountInv
  <2>1. count[x] = Cardinality(Outstanding(x)) /\ count[x] \in Nat
    BY <1>0 DEF CountInv, TypeOK
  <2>2. \A c \in Kids[x] : /\ c \in Rank
                           /\ <<c, x>> \in sent <=> c = r /\ count[r] = 1
                           /\ x = r => c # r
    BY <1>1, TreeFacts DEF ToKids, ToSelf, sent
  <2>3. CASE x # r
    <3>1. \A c \in Kids[x] : (count'[c] # 0 \/ net'[c][x] # 0)
                            <=> (count[c] # 0 \/ net[c][x] # 0)
      <4> SUFFICES ASSUME NEW c \in Kids[x]
                   PROVE  (count'[c] # 0 \/ net'[c][x] # 0)
                            <=> (count[c] # 0 \/ net[c][x] # 0)
        OBVIOUS
      <4>1. c \in Rank /\ <<c, x>> \notin taken /\ net[c][x] \in Nat
        BY <1>0, <1>4, <2>2, <2>3 DEF TypeOK
      <4>2. CASE c = r
        <5>1. count'[c] = count[r] - 1 /\ count[c] # 0
          BY <1>0, <1>1, <1>2, <4>2 DEF TypeOK
        <5>2. count[r] = 1 => net'[c][x] # 0
          BY <1>3, <2>2, <4>1, <4>2
        <5>3. QED
          BY <1>1, <5>1, <5>2
      <4>3. CASE c # r
        <5>1. count'[c] = count[c]
          BY <1>0, <1>2, <4>1, <4>3 DEF TypeOK
        <5>2. net'[c][x] = net[c][x]
          BY <1>3, <2>2, <4>1, <4>3
        <5>3. QED
          BY <5>1, <5>2
      <4> QED BY <4>2, <4>3
    <3>2. started'[x] = started[x] /\ count'[x] = count[x]
      BY <1>0, <1>2, <2>3 DEF TypeOK
    <3>3. Outstanding(x)' = Outstanding(x)
      BY <3>1, <3>2 DEF Outstanding
    <3>4. QED
      BY <2>1, <3>2, <3>3
  <2>4. CASE x = r
    <3>1. count'[x] = count[x] - 1
      BY <1>0, <1>2, <2>4 DEF TypeOK
    <3>2. \A c \in Kids[x] : count'[c] = count[c] /\ <<c, x>> \notin sent
      BY <1>0, <1>2, <2>2, <2>4 DEF TypeOK
    <3>3. started'[x] = begun
      BY <1>0, <1>2, <2>4 DEF TypeOK
    <3>4. PICK gone \in Outstanding(x) : Outstanding(x)' = Outstanding(x) \ {gone}
      <4>1. CASE begun = TRUE /\ ~started[r] /\ taken = {}
        <5>1. \A c \in Kids[x] : net'[c][x] = net[c][x]
          <6> SUFFICES ASSUME NEW c \in Kids[x] PROVE net'[c][x] = net[c][x]
            OBVIOUS
          <6>1. net[c][x] \in Nat /\ c \in Rank
            BY <1>0, <2>2 DEF TypeOK
          <6>2. <<c, x>> \notin taken /\ <<c, x>> \notin sent
            BY <3>2, <4>1
          <6>3. QED
            BY <1>3, <6>1, <6>2
        <5>2. x \in Outstanding(x) /\ x \notin Kids[x]
          BY <2>4, <4>1, TreeFacts DEF Outstanding
        <5>3. Outstanding(x)' = Outstanding(x) \ {x}
          BY <2>4, <3>2, <3>3, <4>1, <5>1, <5>2 DEF Outstanding
        <5>4. QED
          BY <5>2, <5>3
      <4>2. CASE begun = started[r] /\ \E s \in Kids[r] : net[s][r] > 0 /\ taken = {<<s, r>>}
        <5>1. PICK s \in Kids[r] : net[s][r] > 0 /\ taken = {<<s, r>>}
          BY <4>2
        <5>2. s \in Rank /\ s # r /\ net[s][r] = 1 /\ count[s] = 0
          <6>1. s \in Rank /\ s # r /\ net[s][r] = 1
            BY <1>4, <2>2, <2>4, <5>1
          <6>2. <<s, r>> # ToSelf /\ r \notin Kids[s]
            BY <5>1, <6>1, TreeFacts DEF ToSelf
          <6>3. QED
            BY <1>0, <6>1, <6>2 DEF NetInv
        <5>3. \A c \in Kids[x] : net'[c][x] = IF c = s THEN 0 ELSE net[c][x]
          <6> SUFFICES ASSUME NEW c \in Kids[x]
                       PROVE  net'[c][x] = IF c = s THEN 0 ELSE net[c][x]
            OBVIOUS
          <6>1. net[c][x] \in Nat /\ c \in Rank
            BY <1>0, <2>2 DEF TypeOK
          <6>2. <<c, x>> \in taken <=> c = s
            BY <2>4, <5>1
          <6>3. net'[c][x] = net[c][x] - (IF c = s THEN 1 ELSE 0)
            BY <1>3, <3>2, <6>1, <6>2
          <6>4. QED
            BY <2>4, <5>2, <6>1, <6>3
        <5>4. s \in Outstanding(x)
          BY <2>4, <5>1, <5>2 DEF Outstanding
        <5>5. \A c \in Kids[x] : (count'[c] # 0 \/ net'[c][x] # 0)
                                <=> c # s /\ (count[c] # 0 \/ net[c][x] # 0)
          BY <3>2, <5>2, <5>3
        <5>6. started'[x] = started[x] /\ s # x
          BY <2>4, <3>3, <4>2, <5>2
        <5>7. Outstanding(x)' = Outstanding(x) \ {s}
          BY <5>5, <5>6 DEF Outstanding
        <5>8. QED
          BY <5>4, <5>7
      <4>3. QED
        BY <4>1, <4>2 DEF Reason
    <3>5. Cardinality(Outstanding(x)') = Cardinality(Outstanding(x)) - 1
      BY <3>4, OutstandingFinite, FS_RemoveElement
    <3>6. QED
      BY <2>1, <3>1, <3>5
  <2> QED BY <2>3, <2>4
<1>10. QED
  BY <1>2, <1>5, <1>6, <1>7, <1>8, <1>9

(***************************************************************************)
(* set_done, run for a message from the parent: the parent is done, so its *)
(* count and therefore ours are zero and we have started.                  *)
(***************************************************************************)
LEMMA SetDoneAllowed ==
  ASSUME IInv, NEW r \in Rank, NEW s \in Rank, s = Parent[r], net[s][r] > 0
  PROVE  /\ started[r] /\ count[r] = 0 /\ ~done[r]
         /\ r # 0 /\ r \in Kids[s] /\ s \notin Kids[r]
         /\ net[s][r] = 1 /\ done[s]
<1>0. TypeOK /\ DoneInv /\ NetInv /\ CountInv
  BY DEF IInv
<1>1. r # 0
  BY TreeAssumption, RanksAssumption DEF Rank
<1>2. r \in Kids[s] /\ s \notin Kids[r] /\ <<s, r>> # ToSelf
  BY <1>1, TreeFacts DEF ToSelf
<1>3. net[s][r] = 1 /\ done[s] /\ ~done[r]
  BY <1>0, <1>2 DEF NetInv
<1>4. count[s] = 0
  BY <1>0, <1>3 DEF DoneInv
<1>5. count[r] = 0
  BY <1>0, <1>2, <1>4, CountMeaning
<1>6. started[r]
  BY <1>0, <1>5, CountMeaning
<1>7. QED
  BY <1>1, <1>2, <1>3, <1>5, <1>6

LEMMA SetDonePreserves ==
  ASSUME IInv, NEW r \in Rank, NEW s \in Rank, s = Parent[r], net[s][r] > 0,
         SetDone(r, {<<s, r>>})
  PROVE  /\ started' = started /\ count' = count /\ failed' = failed
         /\ \A x \in Rank : done[x] => done'[x]
         /\ \A x \in Rank \ {r} : done'[x] = done[x]
         /\ done' \in [Rank -> BOOLEAN] /\ net' \in [Rank -> [Rank -> Nat]]
         /\ DoneInv' /\ NetInv' /\ CountInv'
<1>0. TypeOK /\ DoneInv /\ NetInv /\ CountInv
  BY DEF IInv
<1>1. /\ started[r] /\ count[r] = 0 /\ ~done[r]
      /\ r # 0 /\ r \in Kids[s] /\ s \notin Kids[r]
      /\ net[s][r] = 1 /\ done[s]
  BY SetDoneAllowed
<1>2. /\ done' = [done EXCEPT ![r] = TRUE]
      /\ Transmit({<<s, r>>}, ToKids(r))
      /\ started' = started /\ count' = count /\ failed' = failed
  BY <1>1 DEF SetDone
<1>3. \A x, y \in Rank :
        net'[x][y] = net[x][y] - (IF <<x, y>> = <<s, r>> THEN 1 ELSE 0)
                               + (IF x = r /\ y \in Kids[r] THEN 1 ELSE 0)
  <2>1. Transmit({<<s, r>>}, ToKids(r))
    BY <1>2
  <2>2. \A x, y \in Rank : /\ <<x, y>> \in {<<s, r>>} <=> <<x, y>> = <<s, r>>
                          /\ <<x, y>> \in ToKids(r) <=> x = r /\ y \in Kids[r]
    BY TreeFacts DEF ToKids
  <2>3. QED
    BY <2>1, <2>2 DEF Transmit
<1>4. /\ done' \in [Rank -> BOOLEAN]
      /\ \A x \in Rank : done[x] => done'[x]
      /\ \A x \in Rank \ {r} : done'[x] = done[x]
  BY <1>0, <1>2 DEF TypeOK
<1>5. net' \in [Rank -> [Rank -> Nat]]
  <2>1. \A x, y \in Rank : <<x, y>> \in {<<s, r>>} => net[x][y] > 0
    OBVIOUS
  <2>2. net \in [Rank -> [Rank -> Nat]]
    BY <1>0 DEF TypeOK
  <2>3. QED
    BY <1>2, <2>1, <2>2, TransmitType
<1>6. DoneInv'
  <2>1. \A x \in Rank : done'[x] => x = r \/ done[x]
    BY <1>0, <1>2 DEF TypeOK
  <2>2. done'[0]
    BY <1>0, <1>1, <1>4, TreeFacts DEF DoneInv
  <2>3. \A x \in Rank : done'[x] => done'[0] /\ count'[x] = 0
    BY <1>0, <1>1, <1>2, <2>1, <2>2 DEF DoneInv
  <2>4. \A x \in Rank \ {0} : done'[x] => done'[Parent[x]]
    BY <1>0, <1>1, <1>4, <2>1, TreeFacts DEF DoneInv
  <2>5. QED
    BY <2>3, <2>4 DEF DoneInv
<1>7. NetInv'
  <2> SUFFICES ASSUME NEW x \in Rank, NEW y \in Rank, net'[x][y] # 0, <<x, y>> # ToSelf
               PROVE  /\ net'[x][y] = 1
                      /\ \/ x \in Kids[y] /\ count'[x] = 0
                         \/ y \in Kids[x] /\ done'[x] /\ ~done'[y]
    BY DEF NetInv
  <2>0. net[x][y] \in Nat
    BY <1>0 DEF TypeOK
  <2>1. CASE x = r /\ y \in Kids[r]
    <3>1. x \notin Kids[y] /\ y # r /\ y # 0 /\ Parent[y] = r /\ <<x, y>> # <<s, r>>
      <4>1. y # 0 /\ Parent[y] = r
        BY <2>1, TreeFacts
      <4>2. y # r /\ x \notin Kids[y]
        BY <2>1, <4>1, TreeFacts
      <4>3. QED
        BY <4>1, <4>2
    <3>2. net[x][y] = 0
      BY <1>0, <1>1, <2>0, <2>1, <3>1 DEF NetInv
    <3>3. done'[x] /\ ~done'[y]
      BY <1>0, <1>1, <1>2, <2>1, <3>1 DEF DoneInv, TypeOK
    <3>4. QED
      BY <1>3, <2>1, <3>1, <3>2, <3>3
  <2>2. CASE ~(x = r /\ y \in Kids[r])
    <3>1. <<x, y>> # <<s, r>> /\ net'[x][y] = net[x][y]
      BY <1>1, <1>3, <2>0, <2>2
    <3>2. /\ net[x][y] = 1
          /\ \/ x \in Kids[y] /\ count[x] = 0
             \/ y \in Kids[x] /\ done[x] /\ ~done[y]
      <4>1. net[x][y] # 0
        BY <3>1
      <4>2. NetInv
        BY <1>0
      <4>3. QED
        BY <4>1, <4>2 DEF NetInv
    <3>3. y \in Kids[x] => y # r
      BY <3>1, TreeFacts
    <3>4. y # r => done'[y] = done[y]
      BY <1>0, <1>2 DEF TypeOK
    <3>5. QED
      BY <1>2, <1>4, <3>1, <3>2, <3>3, <3>4
  <2> QED BY <2>1, <2>2
<1>8. CountInv'
  <2> SUFFICES ASSUME NEW x \in Rank
               PROVE  count'[x] = Cardinality(Outstanding(x)')
    BY DEF CountInv
  <2>1. \A c \in Kids[x] : net'[c][x] = net[c][x]
    <3> SUFFICES ASSUME NEW c \in Kids[x] PROVE net'[c][x] = net[c][x]
      OBVIOUS
    <3>1. c \in Rank /\ c # 0 /\ Parent[c] = x
      BY TreeFacts
    <3>2. <<c, x>> # <<s, r>> /\ ~(c = r /\ x \in Kids[r])
      BY <1>1, <3>1, TreeFacts
    <3>3. net[c][x] \in Nat
      BY <1>0, <3>1 DEF TypeOK
    <3>4. QED
      BY <1>3, <3>1, <3>2, <3>3
  <2>2. Outstanding(x)' = Outstanding(x)
    BY <1>2, <2>1 DEF Outstanding
  <2>3. QED
    BY <1>0, <1>2, <2>2 DEF CountInv
<1>9. QED
  BY <1>2, <1>4, <1>5, <1>6, <1>7, <1>8
-----------------------------------------------------------------------------
LEMMA InitInv == Init => IInv
<1> SUFFICES ASSUME Init PROVE IInv
  OBVIOUS
<1>1. \A r \in Rank : IsFiniteSet(Kids[r]) /\ Cardinality(Kids[r]) \in Nat
  <2>1. IsFiniteSet(Rank)
    BY FS_Interval, RanksAssumption DEF Rank
  <2>2. \A r \in Rank : Kids[r] \in SUBSET Rank
    BY TreeFacts
  <2>3. QED
    BY <2>1, <2>2, FS_Subset, FS_CardinalityType
<1>2. \A r \in Rank : count[r] = 1 + Cardinality(Kids[r]) /\ count[r] \in Nat /\ count[r] # 0
  BY <1>1 DEF Init, InitialCount
<1>3. \A s, d \in Rank : net[s][d] \in Nat /\ (<<s, d>> # ToSelf => net[s][d] = 0)
  BY DEF Init
<1>4. TypeOK
  <2>1. net \in [Rank -> [Rank -> Nat]]
    BY DEF Init
  <2>2. work \in [Rank -> Nat]
    BY RanksAssumption DEF Init
  <2>3. count \in [Rank -> Nat]
    BY <1>1 DEF Init, InitialCount
  <2>4. QED
    BY <2>1, <2>2, <2>3 DEF Init, TypeOK
<1>5. NoFailure /\ PhaseInv /\ DoneInv
  BY TreeFacts DEF Init, NoFailure, PhaseInv, DoneInv
<1>6. NetInv
  BY <1>3 DEF NetInv
<1>7. CountInv
  <2> SUFFICES ASSUME NEW r \in Rank PROVE count[r] = Cardinality(Outstanding(r))
    BY DEF CountInv
  <2>1. r \notin Kids[r] /\ Kids[r] \in SUBSET Rank
    BY TreeFacts
  <2>2. ~started[r]
    BY DEF Init
  <2>3. {c \in Kids[r] : count[c] # 0 \/ net[c][r] # 0} = Kids[r]
    BY <1>2, <2>1
  <2>4. Outstanding(r) = Kids[r] \cup {r}
    BY <2>2, <2>3 DEF Outstanding
  <2>5. Cardinality(Kids[r] \cup {r}) = Cardinality(Kids[r]) + 1
    BY <1>1, <2>1, FS_AddElement
  <2>6. QED
    BY <1>1, <1>2, <2>4, <2>5
<1>8. QED
  BY <1>4, <1>5, <1>6, <1>7 DEF IInv

(***************************************************************************)
(* start() on a rank that has not started.                                 *)
(***************************************************************************)
LEMMA StartPreserves ==
  ASSUME IInv, NEW r \in Rank, ~started[r], Start(r)
  PROVE  /\ started' = [started EXCEPT ![r] = TRUE]
         /\ \A x \in Rank : done[x] => done'[x]
         /\ \A x \in Rank \ {r} : done'[x] = done[x]
         /\ started' \in [Rank -> BOOLEAN] /\ count' \in [Rank -> Nat]
         /\ done' \in [Rank -> BOOLEAN] /\ net' \in [Rank -> [Rank -> Nat]]
         /\ failed' = failed
         /\ DoneInv' /\ NetInv' /\ CountInv'
<1>1. Reason(r, TRUE, {})
  BY DEF Reason
<1>2. ~done[r]
  BY <1>1, DecrementAllowed
<1>3. Decrement(r, TRUE, {})
  BY <1>2 DEF Start
<1>4. QED
  BY <1>1, <1>3, DecrementPreserves

LEMMA BuildPreserves ==
  ASSUME IInv, NEW r \in Rank, Build(r)
  PROVE  IInv'
<1>0. TypeOK /\ NoFailure /\ PhaseInv /\ DoneInv /\ NetInv /\ CountInv
  BY DEF IInv
<1>1. /\ pc[r] = "build" /\ ~started[r]
      /\ pc' = [pc EXCEPT ![r] = "loop"]
      /\ work' = work
  BY <1>0 DEF Build, PhaseInv
<1>2. CASE work[r] = 0
  <2>1. Start(r)
    BY <1>2 DEF Build
  <2>2. PhaseInv'
    BY <1>0, <1>1, <1>2, <2>1, StartPreserves DEF TypeOK, PhaseInv
  <2>3. QED
    BY <1>0, <1>1, <2>1, <2>2, StartPreserves DEF IInv, TypeOK, NoFailure
<1>3. CASE work[r] # 0
  <2>1. UNCHANGED <<started, count, done, net, failed>>
    BY <1>3 DEF Build
  <2>2. PhaseInv'
    BY <1>0, <1>1, <1>3, <2>1 DEF TypeOK, PhaseInv
  <2>3. \A x \in Rank : Outstanding(x)' = Outstanding(x)
    BY <2>1 DEF Outstanding
  <2>4. DoneInv' /\ NetInv' /\ CountInv'
    BY <1>0, <2>1, <2>3 DEF DoneInv, NetInv, CountInv
  <2>5. QED
    BY <1>0, <1>1, <2>1, <2>2, <2>4 DEF IInv, TypeOK, NoFailure
<1>4. QED
  BY <1>2, <1>3

LEMMA ProgressPreserves ==
  ASSUME IInv, NEW r \in Rank, Progress(r)
  PROVE  IInv'
<1>0. TypeOK /\ NoFailure /\ PhaseInv /\ DoneInv /\ NetInv /\ CountInv
  BY DEF IInv
<1>1. /\ pc[r] = "loop" /\ ~done[r] /\ work[r] > 0 /\ work[r] \in Nat /\ ~started[r]
      /\ work' = [work EXCEPT ![r] = @ - 1]
      /\ work' \in [Rank -> Nat]
      /\ pc' = pc
  BY <1>0 DEF Progress, PhaseInv, TypeOK
<1>2. CASE work[r] = 1
  <2>1. Start(r)
    BY <1>2 DEF Progress
  <2>2. PhaseInv'
    BY <1>0, <1>1, <1>2, <2>1, StartPreserves DEF TypeOK, PhaseInv
  <2>3. QED
    BY <1>0, <1>1, <2>1, <2>2, StartPreserves DEF IInv, TypeOK, NoFailure
<1>3. CASE work[r] # 1
  <2>1. UNCHANGED <<started, count, done, net, failed>>
    BY <1>3 DEF Progress
  <2>2. PhaseInv'
    BY <1>0, <1>1, <1>3, <2>1 DEF TypeOK, PhaseInv
  <2>3. \A x \in Rank : Outstanding(x)' = Outstanding(x)
    BY <2>1 DEF Outstanding
  <2>4. DoneInv' /\ NetInv' /\ CountInv'
    BY <1>0, <2>1, <2>3 DEF DoneInv, NetInv, CountInv
  <2>5. QED
    BY <1>0, <1>1, <2>1, <2>2, <2>4 DEF IInv, TypeOK, NoFailure
<1>4. QED
  BY <1>2, <1>3

(***************************************************************************)
(* A message is a release from the parent, a report from a child, or the   *)
(* root's own; NetInv rules out any other sender.                          *)
(***************************************************************************)
LEMMA ProcessPreserves ==
  ASSUME IInv, NEW r \in Rank, NEW s \in Rank, Process(r, s)
  PROVE  IInv'
<1>0. TypeOK /\ NoFailure /\ PhaseInv /\ DoneInv /\ NetInv /\ CountInv
  BY DEF IInv
<1>1. net[s][r] > 0 /\ net[s][r] \in Nat /\ net[s][r] # 0 /\ pc' = pc /\ work' = work
  BY <1>0 DEF Process, TypeOK
<1>2. CASE s = Parent[r]
  <2>1. SetDone(r, {<<s, r>>})
    BY <1>2 DEF Process
  <2>2. PhaseInv'
    BY <1>0, <1>1, <1>2, <2>1, SetDonePreserves DEF PhaseInv
  <2>3. QED
    BY <1>0, <1>1, <1>2, <2>1, <2>2, SetDonePreserves DEF IInv, TypeOK, NoFailure
<1>3. CASE s # Parent[r] /\ r = Parent[s]
  <2>1. Decrement(r, started[r], {<<s, r>>})
    BY <1>3 DEF Process
  <2>2. s \in Kids[r]
    BY <1>3, TreeFacts
  <2>3. Reason(r, started[r], {<<s, r>>})
    BY <1>1, <2>2 DEF Reason
  <2>4. started[r] \in BOOLEAN
    BY <1>0 DEF TypeOK
  <2>5. /\ started' = [started EXCEPT ![r] = started[r]]
        /\ \A x \in Rank : done[x] => done'[x]
        /\ count' \in [Rank -> Nat]
        /\ done' \in [Rank -> BOOLEAN] /\ net' \in [Rank -> [Rank -> Nat]]
        /\ failed' = failed
        /\ DoneInv' /\ NetInv' /\ CountInv'
    BY <2>1, <2>3, <2>4, DecrementPreserves
  <2>6. started' = started
    BY <1>0, <2>5 DEF TypeOK
  <2>7. PhaseInv'
    BY <1>0, <1>1, <2>5, <2>6 DEF PhaseInv
  <2>8. QED
    BY <1>0, <1>1, <2>5, <2>6, <2>7 DEF IInv, TypeOK, NoFailure
<1>4. CASE s # Parent[r] /\ r # Parent[s]
  <2>1. s \notin Kids[r] /\ r \notin Kids[s]
    BY <1>4, TreeFacts
  <2>2. r = 0 /\ s = 0
    BY <1>0, <1>1, <2>1 DEF NetInv, ToSelf
  <2>3. Transmit({<<s, r>>}, {}) /\ UNCHANGED <<started, count, done, failed>>
    BY <1>4, <2>2 DEF Process
  <2>4. \A x, y \in Rank : <<x, y>> # ToSelf => net'[x][y] = net[x][y]
    <3> SUFFICES ASSUME NEW x \in Rank, NEW y \in Rank, <<x, y>> # ToSelf
                 PROVE  net'[x][y] = net[x][y]
      OBVIOUS
    <3>1. net[x][y] \in Nat
      BY <1>0 DEF TypeOK
    <3>2. <<x, y>> \notin {<<s, r>>}
      BY <2>2 DEF ToSelf
    <3>3. Transmit({<<s, r>>}, {})
      BY <2>3
    <3>4. QED
      BY <3>1, <3>2, <3>3 DEF Transmit
  <2>5. net' \in [Rank -> [Rank -> Nat]]
    <3>1. \A x, y \in Rank : <<x, y>> \in {<<s, r>>} => net[x][y] > 0
      BY <1>1
    <3>2. net \in [Rank -> [Rank -> Nat]]
      BY <1>0 DEF TypeOK
    <3>3. QED
      BY <2>3, <3>1, <3>2, TransmitType
  <2>6. \A x \in Rank : Outstanding(x)' = Outstanding(x)
    <3>1. \A x \in Rank : \A c \in Kids[x] : net'[c][x] = net[c][x]
      BY <2>4, TreeFacts DEF ToSelf
    <3>2. QED
      BY <2>3, <3>1 DEF Outstanding
  <2>7. NetInv'
    BY <1>0, <2>3, <2>4 DEF NetInv
  <2>8. DoneInv' /\ CountInv' /\ PhaseInv'
    BY <1>0, <1>1, <2>3, <2>6 DEF DoneInv, CountInv, PhaseInv
  <2>9. QED
    BY <1>0, <1>1, <2>3, <2>5, <2>7, <2>8 DEF IInv, TypeOK, NoFailure
<1>5. QED
  BY <1>2, <1>3, <1>4

(***************************************************************************)
(* Cancelling may lose releases, never a report: a rank that is done has a *)
(* parent that is done and so has nothing outstanding.                     *)
(***************************************************************************)
LEMMA LeavePreserves ==
  ASSUME IInv, NEW r \in Rank, Leave(r)
  PROVE  IInv'
<1>0. TypeOK /\ NoFailure /\ PhaseInv /\ DoneInv /\ NetInv /\ CountInv
  BY DEF IInv
<1>1. /\ done[r] /\ pc' = [pc EXCEPT ![r] = "left"] /\ pc[r] = "loop"
      /\ UNCHANGED <<work, started, count, done, failed>>
  BY DEF Leave
<1>2. PICK lost \in SUBSET {<<r, d>> : d \in {d \in Rank : net[r][d] > 0 /\ ~BufferedSends}} :
        Transmit(lost, {})
  BY DEF Leave
<1>3. \A x, y \in Rank : <<x, y>> \in lost => x = r /\ net[x][y] > 0
  BY <1>2
<1>4. net' \in [Rank -> [Rank -> Nat]]
  <2>1. net \in [Rank -> [Rank -> Nat]]
    BY <1>0 DEF TypeOK
  <2>2. \A x, y \in Rank : <<x, y>> \in lost => net[x][y] > 0
    BY <1>3
  <2>3. QED
    BY <1>2, <2>1, <2>2, TransmitType
<1>5. \A x, y \in Rank : net'[x][y] = net[x][y] - (IF <<x, y>> \in lost THEN 1 ELSE 0)
  <2> SUFFICES ASSUME NEW x \in Rank, NEW y \in Rank
               PROVE  net'[x][y] = net[x][y] - (IF <<x, y>> \in lost THEN 1 ELSE 0)
    OBVIOUS
  <2>1. net[x][y] \in Nat
    BY <1>0 DEF TypeOK
  <2>2. QED
    BY <1>2, <2>1 DEF Transmit
<1>6. \A x \in Rank : Outstanding(x)' = Outstanding(x)
  <2> SUFFICES ASSUME NEW x \in Rank PROVE Outstanding(x)' = Outstanding(x)
    OBVIOUS
  <2>1. \A c \in Kids[x] : net'[c][x] = net[c][x]
    <3> SUFFICES ASSUME NEW c \in Kids[x] PROVE net'[c][x] = net[c][x]
      OBVIOUS
    <3>1. c \in Rank \ {0} /\ Parent[c] = x /\ net[c][x] \in Nat
      BY <1>0, TreeFacts DEF TypeOK
    <3>2. <<c, x>> \notin lost
      <4>1. SUFFICES ASSUME <<c, x>> \in lost PROVE FALSE
        OBVIOUS
      <4>2. c = r /\ net[c][x] > 0
        BY <1>3, <3>1, <4>1
      <4>3. count[x] = 0
        BY <1>0, <1>1, <3>1, <4>2 DEF DoneInv
      <4>4. net[c][x] = 0
        BY <1>0, <4>3, CountMeaning
      <4>5. QED
        BY <4>2, <4>4
    <3>3. QED
      BY <1>5, <3>1, <3>2
  <2>2. QED
    BY <1>1, <2>1 DEF Outstanding
<1>7. NetInv'
  <2> SUFFICES ASSUME NEW x \in Rank, NEW y \in Rank, net'[x][y] # 0, <<x, y>> # ToSelf
               PROVE  /\ net'[x][y] = 1
                      /\ \/ x \in Kids[y] /\ count'[x] = 0
                         \/ y \in Kids[x] /\ done'[x] /\ ~done'[y]
    BY DEF NetInv
  <2>1. net[x][y] \in Nat
    BY <1>0 DEF TypeOK
  <2>2. <<x, y>> \in lost => net[x][y] > 0
    BY <1>3
  <2>3. net[x][y] # 0
    BY <1>5, <2>1, <2>2
  <2>4. net[x][y] = 1
    BY <1>0, <2>3 DEF NetInv
  <2>5. net'[x][y] = net[x][y]
    <3>1. net'[x][y] = net[x][y] - (IF <<x, y>> \in lost THEN 1 ELSE 0)
      BY <1>5
    <3>2. QED
      BY <2>4, <3>1
  <2>6. QED
    BY <1>0, <1>1, <2>3, <2>5 DEF NetInv
<1>8. DoneInv' /\ CountInv' /\ PhaseInv'
  <2>1. DoneInv' /\ CountInv'
    BY <1>0, <1>1, <1>6 DEF DoneInv, CountInv
  <2>2. PhaseInv'
    BY <1>0, <1>1 DEF PhaseInv, TypeOK
  <2>3. QED
    BY <2>1, <2>2
<1>9. QED
  BY <1>0, <1>1, <1>4, <1>7, <1>8 DEF IInv, TypeOK, NoFailure

LEMMA StutterPreserves == IInv /\ UNCHANGED vars => IInv'
<1> SUFFICES ASSUME IInv, UNCHANGED vars PROVE IInv'
  OBVIOUS
<1>1. UNCHANGED <<pc, work, started, count, done, net, failed>>
  BY DEF vars
<1>2. \A x \in Rank : Outstanding(x)' = Outstanding(x)
  BY <1>1 DEF Outstanding
<1>3. QED
  BY <1>1, <1>2 DEF IInv, TypeOK, NoFailure, PhaseInv, DoneInv, NetInv, CountInv

LEMMA NextInv == IInv /\ [Next]_vars => IInv'
<1> SUFFICES ASSUME IInv, [Next]_vars PROVE IInv'
  OBVIOUS
<1>1. CASE Next
  BY <1>1, BuildPreserves, ProgressPreserves, ProcessPreserves, LeavePreserves DEF Next
<1>2. CASE UNCHANGED vars
  BY <1>2, StutterPreserves
<1>3. QED
  BY <1>1, <1>2

THEOREM Invariance == Spec => []IInv
<1>1. QED
  BY InitInv, NextInv, PTL DEF Spec, Safety
-----------------------------------------------------------------------------
(***************************************************************************)
(* The variables keep their types: in particular no count ever goes below  *)
(* zero, which ibarrier_t would not notice.                                *)
(***************************************************************************)
THEOREM TypeCorrect == Spec => []TypeOK
<1>1. IInv => TypeOK
  BY DEF IInv
<1>2. QED
  BY <1>1, Invariance, PTL

(***************************************************************************)
(* No assertion of ibarrier.cc can fail and process never calls die.       *)
(***************************************************************************)
THEOREM NeverFails == Spec => []NoFailure
<1>1. IInv => NoFailure
  BY DEF IInv
<1>2. QED
  BY <1>1, Invariance, PTL

(***************************************************************************)
(* When one rank is done, all ranks have finished their work.              *)
(***************************************************************************)
THEOREM DoneIsSafe == Spec => []DoneMeansFinished
<1>1. IInv => DoneMeansFinished
  <2> SUFFICES ASSUME IInv, NEW r \in Rank, done[r], NEW s \in Rank
               PROVE  started[s] /\ work[s] = 0
    BY DEF DoneMeansFinished
  <2>1. TypeOK /\ DoneInv /\ CountInv /\ PhaseInv
    BY DEF IInv
  <2>2. count[0] = 0
    BY <2>1, TreeFacts DEF DoneInv
  <2>3. started[s]
    BY <2>1, <2>2, RootZeroMeansAllZero
  <2>4. QED
    BY <2>1, <2>3 DEF PhaseInv
<1>2. QED
  BY <1>1, Invariance, PTL

(***************************************************************************)
(* A rank that has left cannot be sent a message of this slice's barrier.  *)
(***************************************************************************)
THEOREM NothingStrays == Spec => []NoStrayMessage
<1>1. IInv => NoStrayMessage
  <2> SUFFICES ASSUME IInv, NEW r \in Rank, NEW s \in Rank, pc[r] = "left",
                      <<s, r>> # ToSelf, net[s][r] # 0
               PROVE  FALSE
    BY DEF NoStrayMessage
  <2>1. TypeOK /\ DoneInv /\ CountInv /\ PhaseInv /\ NetInv
    BY DEF IInv
  <2>2. done[r] /\ count[r] = 0
    BY <2>1 DEF PhaseInv, DoneInv
  <2>3. s \in Kids[r]
    BY <2>1, <2>2 DEF NetInv
  <2>4. QED
    BY <2>1, <2>2, <2>3, CountMeaning
<1>2. QED
  BY <1>1, Invariance, PTL
-----------------------------------------------------------------------------
(***************************************************************************)
(* One step of one rank: it may start and it may become done, nobody else  *)
(* changes either.                                                         *)
(***************************************************************************)
LEMMA OneRankMoves ==
  ASSUME IInv, NEW r \in Rank, NEW s \in Rank,
         Build(r) \/ Progress(r) \/ Process(r, s) \/ Leave(r)
  PROVE  \A x \in Rank : /\ started[x] => started'[x]
                         /\ done[x] => done'[x]
                         /\ x # r => started'[x] = started[x] /\ done'[x] = done[x]
<1>0. TypeOK /\ PhaseInv
  BY DEF IInv
<1>1. CASE UNCHANGED <<started, done>>
  BY <1>1
<1>2. CASE ~started[r] /\ Start(r)
  BY <1>0, <1>2, StartPreserves DEF TypeOK
<1>3. CASE Process(r, s)
  <2>1. net[s][r] > 0 /\ net[s][r] \in Nat /\ net[s][r] # 0
    BY <1>0, <1>3 DEF Process, TypeOK
  <2>2. CASE s = Parent[r]
    <3>1. SetDone(r, {<<s, r>>})
      BY <1>3, <2>2 DEF Process
    <3>2. QED
      BY <2>1, <2>2, <3>1, SetDonePreserves
  <2>3. CASE s # Parent[r] /\ r = Parent[s]
    <3>1. Decrement(r, started[r], {<<s, r>>})
      BY <1>3, <2>3 DEF Process
    <3>2. Reason(r, started[r], {<<s, r>>}) /\ started[r] \in BOOLEAN
      BY <1>0, <2>1, <2>3, TreeFacts DEF Reason, TypeOK
    <3>3. /\ started' = [started EXCEPT ![r] = started[r]]
          /\ \A x \in Rank : done[x] => done'[x]
          /\ \A x \in Rank \ {r} : done'[x] = done[x]
      BY <3>1, <3>2, DecrementPreserves
    <3>4. started' = started
      BY <1>0, <3>3 DEF TypeOK
    <3>5. QED
      BY <3>3, <3>4
  <2>4. CASE s # Parent[r] /\ r # Parent[s]
    <3>1. r = 0 /\ s = 0
      BY <2>1, <2>4, TreeFacts DEF IInv, NetInv, ToSelf
    <3>2. UNCHANGED <<started, done>>
      BY <1>3, <2>4, <3>1 DEF Process
    <3>3. QED
      BY <1>1, <3>2
  <2> QED BY <2>2, <2>3, <2>4
<1>4. CASE Leave(r)
  BY <1>1, <1>4 DEF Leave
<1>5. CASE Build(r)
  BY <1>0, <1>1, <1>2, <1>5 DEF Build, PhaseInv
<1>6. CASE Progress(r)
  BY <1>0, <1>1, <1>2, <1>6 DEF Progress, PhaseInv, TypeOK
<1>7. QED
  BY <1>3, <1>4, <1>5, <1>6

(***************************************************************************)
(* Every step is a step of the abstract barrier or leaves it unchanged.    *)
(***************************************************************************)
LEMMA StepRefines ==
  ASSUME IInv, IInv', DoneMeansFinished', [Next]_vars
  PROVE  [Abstract!Next]_(Abstract!vars)
<1> DEFINE In == {x \in Rank : started[x]}
           Out == {x \in Rank : done[x]}
<1>1. CASE UNCHANGED vars
  BY <1>1 DEF vars, Abstract!vars
<1>2. CASE Next
  <2>1. PICK r \in Rank, s \in Rank :
          Build(r) \/ Progress(r) \/ Process(r, s) \/ Leave(r)
    BY <1>2, TreeFacts DEF Next
  <2>2. \A x \in Rank : /\ started[x] => started'[x]
                        /\ done[x] => done'[x]
                        /\ x # r => started'[x] = started[x] /\ done'[x] = done[x]
    BY <2>1, OneRankMoves
  <2>3. TypeOK /\ TypeOK'
    BY DEF IInv
  <2>4. In' = In \/ (r \notin In /\ In' = In \cup {r})
    BY <2>2, <2>3 DEF TypeOK
  <2>5. Out' = Out \/ (r \notin Out /\ Out' = Out \cup {r})
    BY <2>2, <2>3 DEF TypeOK
  <2>6. Out' # {} => In' = Rank
    BY DEF DoneMeansFinished
  <2>7. \/ In' = In /\ Out' = Out
        \/ Abstract!Enter(r)
        \/ Abstract!Leave(r)
        \/ Abstract!EnterAndLeave(r)
    <3>1. CASE In' = In /\ Out' = Out
      BY <3>1
    <3>2. CASE r \notin In /\ In' = In \cup {r} /\ Out' = Out
      BY <3>2 DEF Abstract!Enter
    <3>3. CASE In' = In /\ r \notin Out /\ Out' = Out \cup {r}
      <4>1. In = Rank
        BY <2>6, <3>3
      <4>2. QED
        BY <3>3, <4>1 DEF Abstract!Leave
    <3>4. CASE r \notin In /\ In' = In \cup {r} /\ r \notin Out /\ Out' = Out \cup {r}
      <4>1. In' = Rank
        BY <2>6, <3>4
      <4>2. QED
        BY <3>4, <4>1 DEF Abstract!EnterAndLeave
    <3> QED BY <2>4, <2>5, <3>1, <3>2, <3>3, <3>4
  <2>8. QED
    BY <2>7 DEF Abstract!Next, Abstract!vars
<1>3. QED
  BY <1>1, <1>2

(***************************************************************************)
(* The tree, its counters and its messages implement the abstract barrier. *)
(***************************************************************************)
THEOREM Refinement == Spec => ImplementsBarrierSafety
<1>1. Init => Abstract!Init
  BY DEF Init, Abstract!Init
<1>2. IInv /\ IInv' /\ DoneMeansFinished' /\ [Next]_vars => [Abstract!Next]_(Abstract!vars)
  BY StepRefines
<1>3. QED
  BY <1>1, <1>2, Invariance, DoneIsSafe, PTL
     DEF Spec, Safety, ImplementsBarrierSafety, Abstract!Safety
=============================================================================
