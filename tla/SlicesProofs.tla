---------------------------- MODULE SlicesProofs -----------------------------
(***************************************************************************)
(* Machine-checked proofs about the loop over slices, for any number of    *)
(* ranks, slices and lines, and any number of crashes.                     *)
(* After it, the functions that divide loops, blobs, lines and blocks      *)
(* among ranks.                                                            *)
(***************************************************************************)
EXTENDS Slices, BlockPartitions, FileLayout, FiniteSetTheorems, SequenceTheorems, TLAPS

(***************************************************************************)
(* The steps of the loop have different names, so each has one place.      *)
(***************************************************************************)
LEMMA StepNames ==
  /\ Len(Steps) = 14 /\ DOMAIN Steps = 1 .. 14
  /\ Steps[1] = "allocate" /\ Steps[2] = "balance" /\ Steps[3] = "compute" /\ Steps[4] = "drop"
  /\ Steps[5] = "report" /\ Steps[6] = "freeze" /\ Steps[7] = "counts" /\ Steps[8] = "offsets"
  /\ Steps[9] = "start" /\ Steps[10] = "blocks" /\ Steps[11] = "blobs" /\ Steps[12] = "indices"
  /\ Steps[13] = "header" /\ Steps[14] = "times"
BY DEF Steps

LEMMA PlaceOf ==
  ASSUME NEW k \in 1 .. 14
  PROVE  Place(Steps[k]) = k
<1>1. \A j \in 1 .. 14 : Steps[j] = Steps[k] => j = k
  BY StepNames
<1>2. QED
  BY <1>1, StepNames DEF Place

LEMMA Places ==
  /\ Place("balance") = 2 /\ Place("compute") = 3 /\ Place("drop") = 4 /\ Place("freeze") = 6
  /\ Place("counts") = 7 /\ Place("offsets") = 8 /\ Place("start") = 9 /\ Place("blocks") = 10
  /\ Place("blobs") = 11 /\ Place("header") = 13 /\ Place("times") = 14
BY StepNames, PlaceOf

-----------------------------------------------------------------------------
(***************************************************************************)
(* The inductive invariant.                                                *)
(***************************************************************************)

\* A rank that is done, or has crashed, is at the first step; all crash together, and
\* the flows are gone then; slices that are not saved skip the steps of the file
LoopInv ==
  /\ \A r \in Rank : slice[r] < 0 => step[r] = 1
  /\ \A r \in Rank : slice[r] > Save => step[r] \notin Place("start") .. Place("header")
  /\ \A r \in Rank : slice[r] = -2 => /\ \A q \in Rank : slice[q] = -2
                                      /\ \A s \in 0 .. FirstSlice : entered[s] = {}

\* What the barrier of compute_lines and the collectives have made ranks wait for:
\* how far rank q is, given where rank r is
Near(q, r) ==
  /\ slice[q] <= slice[r] + 1
  /\ slice[q] = slice[r] + 1 => step[q] >= Place("counts") /\ step[r] <= Place("compute")
  /\ slice[q] = slice[r] =>
       /\ step[r] > Place("compute") => step[q] >= Place("compute")
       /\ step[r] > Place("offsets") => step[q] >= Place("counts")
       /\ r = 0 /\ step[r] > Place("counts") => step[q] >= Place("counts")
       /\ r = 0 /\ step[r] > Place("blobs") /\ slice[r] <= Save => step[q] >= Place("blobs")

NearInv == \A q, r \in Rank : Near(q, r)

\* Who has entered the barrier of a slice, and who has left it
EnteredInv ==
  /\ \A s \in 0 .. FirstSlice : \A q \in entered[s] :
       slice[q] < s \/ (slice[q] = s /\ step[q] >= Place("compute"))
  /\ \A r \in Rank : slice[r] >= 0 /\ step[r] > Place("compute") => entered[slice[r]] = Rank

\* What a rank holds: the blocks above while it may be asked for them, its own since
HoldsInv ==
  \A r \in Rank : slice[r] >= 0 =>
    /\ slice[r] < FirstSlice /\ step[r] <= Place("drop") => <<slice[r] + 1, "frozen">> \in holds[r]
    /\ step[r] \in 2 .. Place("freeze") => <<slice[r], "computed">> \in holds[r]
    /\ step[r] > Place("freeze") => <<slice[r], "frozen">> \in holds[r]

\* A rank in the barrier has sent every output and got every contribution
BarrierInv ==
  \A s \in 0 .. FirstSlice : \A r \in entered[s] : slice[r] = s =>
    missing[r] = {} /\ \A l \in lines : l.worker = r => progress[l] = "sent"

\* A message under way is of the slice its sender or receiver, the worker, computes,
\* and no other is under way for the line
MessageInv ==
  /\ \A m \in net :
       /\ slice[m.line.worker] = m.slice /\ step[m.line.worker] = Place("compute")
       /\ m.type = "request" => m.to = m.line.from /\ m.slice < FirstSlice
       /\ m.type = "response" => m.to = m.line.worker
       /\ m.type \in {"request", "response"} => progress[m.line] = "gathering"
       /\ m.type = "output" => m.to = m.line.to /\ progress[m.line] = "sent"
  /\ \A m, k \in net : m.line = k.line => m = k

\* Line l has still to be sent in slice s
Unsent(l, s) ==
  \/ slice[l.worker] = s + 1
  \/ slice[l.worker] = s /\ step[l.worker] = 1
  \/ slice[l.worker] = s /\ step[l.worker] \in 2 .. Place("compute") /\ progress[l] # "sent"
  \/ \E m \in net : m.type = "output" /\ m.line = l /\ m.slice = s

MissingInv ==
  \A l \in lines : slice[l.to] >= 0 /\ step[l.to] >= 2 /\ Unsent(l, slice[l.to]) => l \in missing[l.to]

\* A saved block is in the file once the rank has gone past the step that writes it
FileInv ==
  /\ \A r \in Rank : /\ slice[r] \in 0 .. Save /\ step[r] > Place("blocks") => <<"blocks", r>> \in file[slice[r]]
                     /\ \A q \in Rank : slice[q] = slice[r] + 1 /\ slice[q] \in 0 .. Save
                                           => <<"blocks", r>> \in file[slice[q]]
  /\ HeaderAfterBlocks

FlowInv == EnteredInv /\ HoldsInv /\ BarrierInv /\ MessageInv /\ MissingInv /\ ~died

SlicesInv == SlicesTypeOK /\ LoopInv /\ NearInv /\ FlowInv /\ FileInv

-----------------------------------------------------------------------------
\* The constants, and the types of where the ranks are
LEMMA Constants ==
  /\ FirstSlice \in Nat /\ Save \in Nat /\ Save <= FirstSlice /\ MaxCrashes \in Nat
  /\ 0 \in Rank
  /\ \A r \in Rank : r \in Nat
<1>1. Ranks \in Nat \ {0} /\ FirstSlice \in Nat /\ Save \in Nat /\ Save <= FirstSlice /\ MaxCrashes \in Nat
  BY SlicesAssumption
<1>2. QED
  BY <1>1 DEF Rank

(***************************************************************************)
(* Going on, whatever the step.                                            *)
(***************************************************************************)

\* What rank r has waited for when it goes on
Waited(r) ==
  /\ step[r] = Place("compute") => entered[slice[r]] = Rank
  /\ step[r] = Place("counts") /\ r = 0 => \A q \in Rank : Called(q, r)
  /\ step[r] = Place("offsets") /\ r # 0 => Called(0, r)
  /\ step[r] = Place("blobs") /\ r = 0 => \A q \in Rank : Called(q, r)

\* A rank goes on to the next step, or slice, and the others stay
LEMMA GoOnMoves ==
  ASSUME SlicesTypeOK, LoopInv, NEW r \in Rank, slice[r] >= 0, GoOn(r)
  PROVE  /\ slice' \in [Rank -> -2 .. FirstSlice] /\ step' \in [Rank -> 1 .. 14]
         /\ \A q \in Rank \ {r} : slice'[q] = slice[q] /\ step'[q] = step[q]
         /\ \/ /\ step[r] < 14 /\ slice'[r] = slice[r]
               /\ step'[r] = IF step[r] = 8 /\ slice[r] > Save THEN 14 ELSE step[r] + 1
            \/ step[r] = 14 /\ slice'[r] = slice[r] - 1 /\ step'[r] = 1
<1>1. slice \in [Rank -> -2 .. FirstSlice] /\ step \in [Rank -> 1 .. 14]
  BY StepNames DEF SlicesTypeOK
<1>2. FirstSlice \in Nat
  BY Constants
<1>3. CASE step[r] < 14
  <2>1. /\ slice' = slice
        /\ step' = [step EXCEPT ![r] = IF Steps[step[r] + 1] = "start" /\ slice[r] > Save THEN 14 ELSE step[r] + 1]
    BY <1>3, StepNames, Places DEF GoOn
  <2>2. Steps[step[r] + 1] = "start" <=> step[r] = 8
    BY <1>1, <1>3, StepNames
  <2>3. QED
    BY <1>1, <1>3, <2>1, <2>2
<1>4. CASE step[r] = 14
  <2>1. slice' = [slice EXCEPT ![r] = slice[r] - 1] /\ step' = [step EXCEPT ![r] = 1]
    BY <1>4, StepNames DEF GoOn
  <2>2. QED
    BY <1>1, <1>2, <1>4, <2>1
<1>5. QED
  BY <1>1, <1>3, <1>4

\* The order of ranks is kept
LEMMA GoOnKeepsOrder ==
  ASSUME SlicesTypeOK, LoopInv, NearInv, EnteredInv,
         NEW r \in Rank, slice[r] >= 0, GoOn(r), Waited(r), entered' = entered
  PROVE  NearInv' /\ EnteredInv' /\ LoopInv'
<1> DEFINE Leaps == \/ /\ step[r] < 14 /\ slice'[r] = slice[r]
                       /\ step'[r] = IF step[r] = 8 /\ slice[r] > Save THEN 14 ELSE step[r] + 1
                    \/ step[r] = 14 /\ slice'[r] = slice[r] - 1 /\ step'[r] = 1
<1>1. Leaps /\ \A q \in Rank : q # r => slice'[q] = slice[q] /\ step'[q] = step[q]
  BY GoOnMoves
<1>2. \A q \in Rank : /\ slice[q] \in Int /\ slice'[q] \in Int
                      /\ step[q] \in 1 .. 14 /\ step'[q] \in 1 .. 14
  <2>1. slice' \in [Rank -> -2 .. FirstSlice] /\ step' \in [Rank -> 1 .. 14]
    BY GoOnMoves
  <2>2. slice \in [Rank -> -2 .. FirstSlice] /\ step \in [Rank -> 1 .. 14]
    BY StepNames DEF SlicesTypeOK
  <2>3. QED
    BY <2>1, <2>2, Constants
<1>3. entered \in [0 .. FirstSlice -> SUBSET Rank] /\ slice \in [Rank -> -2 .. FirstSlice]
  BY DEF SlicesTypeOK
<1> HIDE DEF Leaps
<1>4. ASSUME NEW q \in Rank
      PROVE  /\ step[r] = 3 => slice[q] < slice[r] \/ (slice[q] = slice[r] /\ step[q] >= 3)
             /\ step[r] = 7 /\ r = 0 => slice[q] < slice[r] \/ (slice[q] = slice[r] /\ step[q] >= 7)
             /\ step[r] = 8 /\ r # 0 => slice[0] < slice[r] \/ (slice[0] = slice[r] /\ step[0] >= 8)
             /\ step[r] = 11 /\ r = 0 => slice[q] < slice[r] \/ (slice[q] = slice[r] /\ step[q] >= 11)
  <2>1. slice[r] \in 0 .. FirstSlice
    BY <1>3, Constants
  <2>2. QED
    BY <1>2, <2>1, Places DEF Waited, Called, EnteredInv
<1>5. slice[r] > Save => step[r] \notin 9 .. 13
  BY Places DEF LoopInv
<1>6. ASSUME NEW q \in Rank, q # r
      PROVE  Near(q, r)'
  <2>1. Near(q, r) /\ Near(q, 0) /\ Near(0, r)
    BY Constants DEF NearInv
  <2>2. CASE step[r] = 14
    BY <1>1, <1>2, <1>6, <2>1, <2>2, Places DEF Near, Leaps
  <2>3. CASE step[r] = 8 /\ slice[r] > Save
    BY <1>1, <1>2, <1>4, <1>6, <2>1, <2>3, Constants, Places DEF Near, Leaps
  <2>4. CASE step[r] # 14 /\ ~(step[r] = 8 /\ slice[r] > Save)
    <3>1. slice'[r] = slice[r] /\ step'[r] = step[r] + 1 /\ slice'[q] = slice[q] /\ step'[q] = step[q]
      BY <1>1, <1>2, <1>6, <2>4 DEF Leaps
    <3>2. QED
      BY <1>2, <1>4, <1>5, <2>1, <2>4, <3>1, Constants, Places DEF Near
  <2>5. QED
    BY <2>2, <2>3, <2>4
<1>7. ASSUME NEW q \in Rank, q # r
      PROVE  Near(r, q)'
  <2>1. Near(r, q) /\ Near(q, r)
    BY DEF NearInv
  <2>2. QED
    BY <1>1, <1>2, <1>7, <2>1, Places DEF Near, Leaps
<1>8. NearInv'
  <2>1. Near(r, r)'
    BY <1>2, Places DEF Near
  <2>2. ASSUME NEW q \in Rank, NEW p \in Rank, q # r, p # r
        PROVE  Near(q, p)'
    <3>1. Near(q, p)
      BY DEF NearInv
    <3>2. QED
      BY <1>1, <2>2, <3>1 DEF Near
  <2>3. QED
    BY <1>6, <1>7, <2>1, <2>2 DEF NearInv
<1>9. EnteredInv'
  <2>1. ASSUME NEW s \in 0 .. FirstSlice, NEW q \in entered[s]
        PROVE  slice'[q] < s \/ (slice'[q] = s /\ step'[q] >= 3)
    <3>1. q \in Rank /\ (slice[q] < s \/ (slice[q] = s /\ step[q] >= 3))
      BY <1>3, Places DEF EnteredInv
    <3>2. QED
      BY <1>1, <1>2, <3>1 DEF Leaps
  <2>2. ASSUME NEW q \in Rank, slice'[q] >= 0, step'[q] > 3
        PROVE  entered[slice'[q]] = Rank
    BY <1>1, <1>2, <2>2, Places DEF EnteredInv, Waited, Leaps
  <2>3. QED
    BY <2>1, <2>2, Places DEF EnteredInv
<1>10. LoopInv'
  BY <1>1, <1>2, Places DEF LoopInv, Leaps
<1>11. QED
  BY <1>8, <1>9, <1>10
\* What the proofs need to know of the types, rank by rank and message by message
LEMMA Types ==
  ASSUME SlicesTypeOK
  PROVE  /\ \A q \in Rank : slice[q] \in Int /\ slice[q] \in -2 .. FirstSlice /\ step[q] \in 1 .. 14
         /\ \A l \in lines : l.worker \in Rank /\ l.from \in Rank /\ l.to \in Rank
         /\ \A m \in net : m.line \in lines /\ m.to \in Rank /\ m.slice \in 0 .. FirstSlice
                             /\ m.type \in {"request", "response", "output"}
         /\ \A s \in 0 .. FirstSlice : entered[s] \in SUBSET Rank
<1>1. slice \in [Rank -> -2 .. FirstSlice] /\ step \in [Rank -> 1 .. 14]
  BY StepNames DEF SlicesTypeOK
<1>2. \A q \in Rank : slice[q] \in Int /\ slice[q] \in -2 .. FirstSlice /\ step[q] \in 1 .. 14
  BY <1>1, Constants
<1>3. QED
  BY <1>2 DEF SlicesTypeOK, Line

\* The receiver of a message has not left the barrier of its slice, and if it is in the
\* slice above it has left that one's
LEMMA MessagesMeet ==
  ASSUME SlicesTypeOK, NearInv, EnteredInv, HoldsInv, BarrierInv, MessageInv, MissingInv, NEW m \in net
  PROVE  /\ \/ slice[m.to] = m.slice /\ step[m.to] <= 3
            \/ slice[m.to] = m.slice + 1 /\ step[m.to] >= 7
         /\ m.type = "request" => <<m.slice + 1, "frozen">> \in holds[m.to]
         /\ m.type = "output" /\ slice[m.to] = m.slice /\ step[m.to] >= 2 => m.line \in missing[m.to]
         /\ entered[m.slice] # Rank
<1> DEFINE l == m.line
           w == m.line.worker
           s == m.slice
<1>1. /\ l \in lines /\ w \in Rank /\ m.to \in Rank /\ l.from \in Rank /\ l.to \in Rank
      /\ s \in 0 .. FirstSlice /\ m.type \in {"request", "response", "output"}
      /\ \A q \in Rank : slice[q] \in Int /\ step[q] \in 1 .. 14
  BY Types
<1>2. /\ slice[w] = s /\ step[w] = 3
      /\ m.type = "request" => m.to = l.from /\ s < FirstSlice
      /\ m.type = "response" => m.to = w
      /\ m.type \in {"request", "response"} => progress[l] = "gathering"
      /\ m.type = "output" => m.to = l.to /\ progress[l] = "sent"
  BY Places DEF MessageInv
<1>3. m.type = "output" /\ slice[m.to] = s /\ step[m.to] >= 2 => l \in missing[m.to]
  BY <1>1, <1>2 DEF MissingInv, Unsent
<1> HIDE DEF l, w, s
<1>4. Near(w, m.to) /\ Near(m.to, w)
  BY <1>1 DEF NearInv
<1>5. entered[s] # Rank
  <2> SUFFICES ASSUME entered[s] = Rank PROVE FALSE
    OBVIOUS
  <2>1. progress[l] = "sent" /\ m.type = "output"
    BY <1>1, <1>2 DEF BarrierInv, l, w
  <2>2. slice[m.to] = s /\ step[m.to] >= 3
    <3>1. slice[m.to] < s \/ (slice[m.to] = s /\ step[m.to] >= 3)
      BY <1>1, Places DEF EnteredInv
    <3>2. QED
      BY <1>1, <1>2, <1>4, <3>1, Places DEF Near
  <2>3. missing[m.to] = {}
    BY <1>1, <2>2 DEF BarrierInv
  <2>4. QED
    BY <1>1, <1>3, <2>1, <2>2, <2>3
<1>6. \/ slice[m.to] = s /\ step[m.to] <= 3
      \/ slice[m.to] = s + 1 /\ step[m.to] >= 7
  <2>1. slice[m.to] = s => step[m.to] <= 3
    BY <1>1, <1>5, Places DEF EnteredInv
  <2>2. QED
    BY <1>1, <1>2, <1>4, <2>1, Places DEF Near
<1>7. m.type = "request" => <<s + 1, "frozen">> \in holds[m.to]
  <2>1. CASE slice[m.to] = s /\ step[m.to] <= 3
    <3> SUFFICES ASSUME m.type = "request" PROVE <<s + 1, "frozen">> \in holds[m.to]
      OBVIOUS
    <3>1. slice[m.to] >= 0 /\ slice[m.to] < FirstSlice /\ step[m.to] <= 4
      BY <1>1, <1>2, <2>1
    <3>2. <<slice[m.to] + 1, "frozen">> \in holds[m.to]
      BY <1>1, <3>1, Places DEF HoldsInv
    <3>3. QED
      BY <2>1, <3>2
  <2>2. CASE slice[m.to] = s + 1 /\ step[m.to] >= 7
    <3>1. slice[m.to] >= 0 /\ step[m.to] > 6
      BY <1>1, <2>2
    <3>2. <<slice[m.to], "frozen">> \in holds[m.to]
      BY <1>1, <3>1, Places DEF HoldsInv
    <3>3. QED
      BY <2>2, <3>2
  <2>3. QED
    BY <1>6, <2>1, <2>2
<1>8. QED
  BY <1>3, <1>5, <1>6, <1>7 DEF l, s

\* Nothing is under way from a rank that leaves the barrier, or is elsewhere
LEMMA GoOnKeepsFlow ==
  ASSUME SlicesTypeOK, LoopInv, NearInv, FlowInv,
         NEW r \in Rank, slice[r] >= 0, step[r] # 1, GoOn(r), Waited(r),
         lines' = lines, progress' = progress, missing' = missing, entered' = entered, net' = net
  PROVE  BarrierInv' /\ MessageInv' /\ MissingInv'
<1> DEFINE Leaps == \/ /\ step[r] < 14 /\ slice'[r] = slice[r]
                       /\ step'[r] = IF step[r] = 8 /\ slice[r] > Save THEN 14 ELSE step[r] + 1
                    \/ step[r] = 14 /\ slice'[r] = slice[r] - 1 /\ step'[r] = 1
<1>1. Leaps /\ \A q \in Rank : q # r => slice'[q] = slice[q] /\ step'[q] = step[q]
  BY GoOnMoves
<1> HIDE DEF Leaps
<1>2. /\ \A q \in Rank : slice[q] \in Int /\ step[q] \in 1 .. 14
      /\ \A l \in lines : l.worker \in Rank /\ l.to \in Rank
      /\ \A m \in net : m.line \in lines /\ m.to \in Rank /\ m.slice \in 0 .. FirstSlice
      /\ \A s \in 0 .. FirstSlice : entered[s] \in SUBSET Rank
  BY Types
<1>3. BarrierInv'
  <2> SUFFICES ASSUME NEW s \in 0 .. FirstSlice, NEW q \in entered[s], slice'[q] = s
               PROVE  missing[q] = {} /\ \A l \in lines : l.worker = q => progress[l] = "sent"
    BY DEF BarrierInv
  <2>1. slice[q] = s
    <3>1. q \in Rank /\ (slice[q] < s \/ (slice[q] = s /\ step[q] >= 3))
      BY <1>2, Places DEF FlowInv, EnteredInv
    <3>2. QED
      BY <1>1, <1>2, <3>1 DEF Leaps
  <2>2. QED
    BY <2>1 DEF FlowInv, BarrierInv
<1>4. ASSUME NEW m \in net
      PROVE  m.line.worker # r
  <2> SUFFICES ASSUME m.line.worker = r PROVE FALSE
    OBVIOUS
  <2>1. slice[r] = m.slice /\ step[r] = 3
    BY Places DEF FlowInv, MessageInv
  <2>2. entered[m.slice] = Rank
    BY <2>1, Places DEF Waited
  <2>3. QED
    BY <2>2, MessagesMeet DEF FlowInv
<1>5. MessageInv'
  <2>1. ASSUME NEW m \in net
        PROVE  slice'[m.line.worker] = slice[m.line.worker] /\ step'[m.line.worker] = step[m.line.worker]
    BY <1>1, <1>2, <1>4
  <2>2. QED
    BY <2>1 DEF FlowInv, MessageInv
<1>6. MissingInv'
  <2> SUFFICES ASSUME NEW l \in lines, slice'[l.to] >= 0, step'[l.to] >= 2, Unsent(l, slice[l.to])'
               PROVE  l \in missing[l.to]
    BY DEF MissingInv
  <2>1. l.to \in Rank /\ l.worker \in Rank /\ slice[l.to] \in Int /\ slice[l.worker] \in Int
        /\ step[l.to] \in 1 .. 14 /\ step[l.worker] \in 1 .. 14
    BY <1>2
  <2>2. slice'[l.to] = slice[l.to] /\ step[l.to] >= 2
    BY <1>1, <1>2, <2>1 DEF Leaps
  <2>3. Near(l.worker, l.to)
    BY <2>1 DEF NearInv
  <2>4. Unsent(l, slice[l.to])
    <3>1. CASE \E m \in net : m.type = "output" /\ m.line = l /\ m.slice = slice[l.to]
      BY <3>1 DEF Unsent
    <3>2. CASE /\ ~ \E m \in net : m.type = "output" /\ m.line = l /\ m.slice = slice[l.to]
               /\ l.worker # r
      <4>1. slice'[l.worker] = slice[l.worker] /\ step'[l.worker] = step[l.worker]
        BY <1>1, <2>1, <3>2
      <4>2. QED
        BY <2>2, <3>2, <4>1 DEF Unsent
    <3>3. CASE /\ ~ \E m \in net : m.type = "output" /\ m.line = l /\ m.slice = slice[l.to]
               /\ l.worker = r
      <4>1. \/ slice'[r] = slice[l.to] + 1
            \/ slice'[r] = slice[l.to] /\ step'[r] = 1
            \/ slice'[r] = slice[l.to] /\ step'[r] \in 2 .. 3 /\ progress[l] # "sent"
        BY <2>2, <3>3, Places DEF Unsent
      <4>2. slice[r] <= slice[l.to] + 1
        BY <2>3, <3>3 DEF Near
      <4>3. \/ slice[r] = slice[l.to] + 1
            \/ slice[r] = slice[l.to] /\ step[r] \in 2 .. 3 /\ progress[l] # "sent"
        BY <1>1, <2>1, <3>3, <4>1, <4>2 DEF Leaps
      <4>4. QED
        BY <3>3, <4>3, Places DEF Unsent
    <3>4. QED
      BY <3>1, <3>2, <3>3
  <2>5. QED
    BY <2>1, <2>2, <2>4 DEF FlowInv, MissingInv
<1>7. QED
  BY <1>3, <1>5, <1>6

\* Block stores, whatever a step does with those of rank r: it keeps them, drops those
\* of other slices, or freezes them
LEMMA GoOnKeepsBlocks ==
  ASSUME SlicesTypeOK, LoopInv, HoldsInv,
         NEW r \in Rank, slice[r] >= 0, GoOn(r),
         \A q \in Rank : q # r => holds'[q] = holds[q],
         step[r] \notin {4, 6} => holds[r] \subseteq holds'[r],
         step[r] = 4 => {h \in holds[r] : h[1] = slice[r]} \subseteq holds'[r],
         step[r] = 6 => \A h \in holds[r] : <<h[1], "frozen">> \in holds'[r],
         step[r] = 1 => <<slice[r], "computed">> \in holds'[r]
  PROVE  HoldsInv'
<1> DEFINE Leaps == \/ /\ step[r] < 14 /\ slice'[r] = slice[r]
                       /\ step'[r] = IF step[r] = 8 /\ slice[r] > Save THEN 14 ELSE step[r] + 1
                    \/ step[r] = 14 /\ slice'[r] = slice[r] - 1 /\ step'[r] = 1
<1>1. Leaps /\ \A q \in Rank : q # r => slice'[q] = slice[q] /\ step'[q] = step[q]
  BY GoOnMoves
<1> HIDE DEF Leaps
<1>2. slice[r] \in Int /\ step[r] \in 1 .. 14 /\ FirstSlice \in Int
  BY Types, Constants
<1> DEFINE Above == <<slice[r] + 1, "frozen">>
           Own == <<slice[r], "computed">>
           Frozen == <<slice[r], "frozen">>
<1>7. /\ slice[r] < FirstSlice /\ step[r] <= 4 => Above \in holds[r]
      /\ step[r] \in 2 .. 6 => Own \in holds[r]
      /\ step[r] > 6 => Frozen \in holds[r]
  BY Places DEF HoldsInv
<1>8. /\ step[r] < 4 /\ Above \in holds[r] => Above \in holds'[r]
      /\ step[r] # 6 /\ Own \in holds[r] => Own \in holds'[r]
      /\ step[r] > 6 /\ Frozen \in holds[r] => Frozen \in holds'[r]
  <2>1. Own[1] = slice[r]
    OBVIOUS
  <2> HIDE DEF Above, Own, Frozen
  <2>2. QED
    BY <1>2, <2>1
<1>9. step[r] = 6 /\ Own \in holds[r] => Frozen \in holds'[r]
  OBVIOUS
<1> HIDE DEF Above, Own, Frozen
<1>3. slice'[r] < FirstSlice /\ step'[r] <= 4 => <<slice'[r] + 1, "frozen">> \in holds'[r]
  <2>1. CASE step[r] = 14
    <3>1. slice'[r] + 1 = slice[r]
      BY <1>1, <1>2, <2>1 DEF Leaps
    <3>2. Frozen \in holds[r]
      BY <1>7, <2>1
    <3>3. Frozen \in holds'[r]
      BY <1>8, <2>1, <3>2
    <3>4. QED
      BY <3>1, <3>3 DEF Frozen
  <2>2. CASE step[r] < 14
    <3> SUFFICES ASSUME slice'[r] < FirstSlice, step'[r] <= 4
                 PROVE  Above \in holds'[r]
      BY <1>1, <2>2 DEF Leaps, Above
    <3>1. slice[r] < FirstSlice /\ step[r] < 4
      BY <1>1, <1>2, <2>2 DEF Leaps
    <3>2. Above \in holds[r]
      BY <1>2, <1>7, <3>1
    <3>3. QED
      BY <1>8, <3>1, <3>2
  <2>3. QED
    BY <1>2, <2>1, <2>2
<1>4. step'[r] \in 2 .. 6 => <<slice'[r], "computed">> \in holds'[r]
  <2> SUFFICES ASSUME step'[r] \in 2 .. 6
               PROVE  Own \in holds'[r]
    BY <1>1, <1>2 DEF Leaps, Own
  <2>1. step[r] \in 1 .. 5
    BY <1>1, <1>2 DEF Leaps
  <2>2. step[r] # 1 => Own \in holds[r]
    BY <1>7, <2>1
  <2>3. step[r] = 1 => Own \in holds'[r]
    BY DEF Own
  <2>4. QED
    BY <1>8, <2>1, <2>2, <2>3
<1>5. step'[r] > 6 => <<slice'[r], "frozen">> \in holds'[r]
  <2> SUFFICES ASSUME step'[r] > 6
               PROVE  Frozen \in holds'[r]
    BY <1>1, <1>2 DEF Leaps, Frozen
  <2>1. step[r] >= 6
    BY <1>1, <1>2 DEF Leaps
  <2>2. CASE step[r] = 6
    <3>1. Own \in holds[r]
      BY <1>7, <2>2
    <3>2. QED
      BY <1>9, <2>2, <3>1
  <2>3. CASE step[r] > 6
    <3>1. Frozen \in holds[r]
      BY <1>7, <2>3
    <3>2. QED
      BY <1>8, <2>3, <3>1
  <2>4. QED
    BY <1>2, <2>1, <2>2, <2>3
<1>6. QED
  BY <1>1, <1>3, <1>4, <1>5, Places DEF HoldsInv

\* Files, of which no part is lost
LEMMA GoOnKeepsFile ==
  ASSUME SlicesTypeOK, LoopInv, NearInv, FileInv,
         NEW r \in Rank, slice[r] >= 0, GoOn(r),
         \A s \in 0 .. Save : file[s] \subseteq file'[s],
         step[r] = 10 => <<"blocks", r>> \in file'[slice[r]],
         HeaderAfterBlocks'
  PROVE  FileInv'
<1> DEFINE Leaps == \/ /\ step[r] < 14 /\ slice'[r] = slice[r]
                       /\ step'[r] = IF step[r] = 8 /\ slice[r] > Save THEN 14 ELSE step[r] + 1
                    \/ step[r] = 14 /\ slice'[r] = slice[r] - 1 /\ step'[r] = 1
<1>1. Leaps /\ \A q \in Rank : q # r => slice'[q] = slice[q] /\ step'[q] = step[q]
  BY GoOnMoves
<1> HIDE DEF Leaps
<1>2. /\ \A q \in Rank : slice[q] \in Int /\ step[q] \in 1 .. 14
      /\ Save \in Int
  BY Types, Constants
<1>3. ASSUME NEW q \in Rank, slice'[q] \in 0 .. Save, step'[q] > 10
      PROVE  <<"blocks", q>> \in file'[slice'[q]]
  <2>1. slice'[q] = slice[q] /\ (step[q] > 10 \/ (q = r /\ step[q] = 10))
    BY <1>1, <1>2, <1>3 DEF Leaps
  <2>2. CASE step[q] > 10
    <3>1. <<"blocks", q>> \in file[slice[q]]
      BY <1>3, <2>1, <2>2, Places DEF FileInv
    <3>2. QED
      BY <1>3, <2>1, <3>1
  <2>3. CASE q = r /\ step[q] = 10
    BY <2>1, <2>3
  <2>4. QED
    BY <2>1, <2>2, <2>3
<1>4. ASSUME NEW q \in Rank, NEW p \in Rank, slice'[p] = slice'[q] + 1, slice'[p] \in 0 .. Save
      PROVE  <<"blocks", q>> \in file'[slice'[p]]
  <2>1. <<"blocks", q>> \in file[slice'[p]]
    <3>1. CASE slice[p] = slice[q] + 1 /\ slice'[p] = slice[p]
      BY <1>4, <3>1 DEF FileInv
    <3>2. CASE q = r /\ p # r /\ step[r] = 14
      <4>1. slice[r] = slice'[p]
        BY <1>1, <1>2, <1>4, <3>2 DEF Leaps
      <4>2. QED
        BY <1>2, <1>4, <3>2, <4>1, Places DEF FileInv
    <3>3. CASE p = r /\ q # r /\ step[r] = 14
      <4>1. slice[p] = slice[q] + 2
        BY <1>1, <1>2, <1>4, <3>3 DEF Leaps
      <4>2. Near(p, q)
        BY DEF NearInv
      <4>3. QED
        BY <1>2, <4>1, <4>2 DEF Near
    <3>4. p # q
      BY <1>1, <1>2, <1>4 DEF Leaps
    <3>5. QED
      BY <1>1, <1>2, <1>4, <3>1, <3>2, <3>3, <3>4 DEF Leaps
  <2>2. QED
    BY <1>4, <2>1
<1>5. QED
  BY <1>3, <1>4, Places DEF FileInv

-----------------------------------------------------------------------------
(***************************************************************************)
(* The steps of the loop.                                                  *)
(***************************************************************************)

\* Allocate: the blocks of the slice miss everything, and nothing has been sent
LEMMA AllocateStep ==
  ASSUME SlicesInv, NEW r \in Rank, Allocate(r)
  PROVE  SlicesInv'
<1> USE DEF SlicesInv
<1>1. /\ slice[r] >= 0 /\ slice[r] \in 0 .. FirstSlice /\ step[r] = 1 /\ GoOn(r)
      /\ \A q \in Rank : slice[q] \in Int /\ step[q] \in 1 .. 14
      /\ \A l \in lines : l.worker \in Rank /\ l.to \in Rank
      /\ \A m \in net : m.line \in lines /\ m.to \in Rank /\ m.slice \in 0 .. FirstSlice
      /\ \A s \in 0 .. FirstSlice : entered[s] \in SUBSET Rank
  BY Types, StepNames DEF Allocate, At
<1>2. /\ slice' = slice /\ step'[r] = 2
      /\ \A q \in Rank : q # r => step'[q] = step[q]
  <2>1. slice \in [Rank -> -2 .. FirstSlice] /\ slice' \in [Rank -> -2 .. FirstSlice]
    BY <1>1, GoOnMoves DEF SlicesTypeOK
  <2>2. slice'[r] = slice[r] /\ step'[r] = 2 /\ \A q \in Rank \ {r} : slice'[q] = slice[q] /\ step'[q] = step[q]
    BY <1>1, GoOnMoves
  <2>3. QED
    BY <2>1, <2>2
<1>3. /\ holds' = [holds EXCEPT ![r] = @ \cup {<<slice[r], "computed">>}]
      /\ missing' = [missing EXCEPT ![r] = {l \in lines : l.to = r}]
      /\ progress' = [l \in lines |-> IF l.worker = r THEN "unscheduled" ELSE progress[l]]
      /\ UNCHANGED <<lines, entered, net, died, file, crashes>>
  BY DEF Allocate
<1>4. SlicesTypeOK'
  <2>1. slice' \in [Rank -> -2 .. FirstSlice] /\ step' \in [Rank -> DOMAIN Steps]
    BY <1>1, GoOnMoves, StepNames
  <2>2. holds' \in [Rank -> SUBSET ((0 .. FirstSlice) \X {"computed", "frozen"})]
    BY <1>1, <1>3 DEF SlicesTypeOK
  <2>3. missing' \in [Rank -> SUBSET lines]
    BY <1>3 DEF SlicesTypeOK
  <2>4. progress' \in [lines -> {"unscheduled", "gathering", "gathered", "sent"}]
    BY <1>3 DEF SlicesTypeOK
  <2>5. QED
    BY <1>3, <2>1, <2>2, <2>3, <2>4 DEF SlicesTypeOK
<1>5. NearInv' /\ EnteredInv' /\ LoopInv'
  BY <1>1, <1>3, GoOnKeepsOrder, Places DEF Waited, FlowInv
<1>6. HoldsInv'
  <2>1. holds \in [Rank -> SUBSET ((0 .. FirstSlice) \X {"computed", "frozen"})]
    BY DEF SlicesTypeOK
  <2>2. /\ \A q \in Rank : q # r => holds'[q] = holds[q]
        /\ holds'[r] = holds[r] \cup {<<slice[r], "computed">>}
    BY <1>3, <2>1
  <2>3. /\ step[r] \notin {4, 6} => holds[r] \subseteq holds'[r]
        /\ step[r] = 4 => {h \in holds[r] : h[1] = slice[r]} \subseteq holds'[r]
        /\ step[r] = 6 => \A h \in holds[r] : <<h[1], "frozen">> \in holds'[r]
        /\ step[r] = 1 => <<slice[r], "computed">> \in holds'[r]
    BY <1>1, <2>2
  <2>4. HoldsInv
    BY DEF FlowInv
  <2>5. QED
    BY <1>1, <2>2, <2>3, <2>4, GoOnKeepsBlocks
<1>7. r \notin entered[slice[r]]
  BY <1>1, Places DEF FlowInv, EnteredInv
<1>8. BarrierInv'
  <2> SUFFICES ASSUME NEW s \in 0 .. FirstSlice, NEW q \in entered[s], slice[q] = s
               PROVE  missing'[q] = {} /\ \A l \in lines : l.worker = q => progress'[l] = "sent"
    BY <1>2, <1>3 DEF BarrierInv
  <2>1. q # r
    BY <1>7
  <2>2. missing[q] = {} /\ \A l \in lines : l.worker = q => progress[l] = "sent"
    BY DEF FlowInv, BarrierInv
  <2>3. missing \in [Rank -> SUBSET lines] /\ q \in Rank
    BY <1>1 DEF SlicesTypeOK
  <2>4. QED
    BY <1>3, <2>1, <2>2, <2>3
<1>9. MessageInv'
  <2>1. ASSUME NEW m \in net
        PROVE  /\ slice'[m.line.worker] = slice[m.line.worker] /\ step'[m.line.worker] = step[m.line.worker]
               /\ progress'[m.line] = progress[m.line]
    <3>1. m.line.worker # r /\ m.line.worker \in Rank /\ m.line \in lines
      BY <1>1, Places DEF FlowInv, MessageInv
    <3>2. QED
      BY <1>2, <1>3, <3>1
  <2>2. QED
    BY <1>3, <2>1 DEF FlowInv, MessageInv
<1>10. MissingInv'
  <2> SUFFICES ASSUME NEW l \in lines, slice'[l.to] >= 0, step'[l.to] >= 2, Unsent(l, slice[l.to])'
               PROVE  l \in missing'[l.to]
    BY <1>3 DEF MissingInv
  <2>1. l.to \in Rank /\ l.worker \in Rank /\ missing \in [Rank -> SUBSET lines]
    BY <1>1 DEF SlicesTypeOK
  <2>2. CASE l.to = r
    BY <1>3, <2>1, <2>2
  <2>3. CASE l.to # r
    <3>1. slice[l.to] >= 0 /\ step[l.to] >= 2 /\ missing'[l.to] = missing[l.to]
      BY <1>2, <1>3, <2>1, <2>3
    <3>2. Unsent(l, slice[l.to])
      <4>1. CASE l.worker = r
        BY <1>1, <1>2, <1>3, <4>1 DEF Unsent
      <4>2. CASE l.worker # r
        <5>1. slice'[l.worker] = slice[l.worker] /\ step'[l.worker] = step[l.worker] /\ progress'[l] = progress[l]
          BY <1>2, <1>3, <2>1, <4>2
        <5>2. QED
          BY <1>2, <1>3, <5>1 DEF Unsent
      <4>3. QED
        BY <4>1, <4>2
    <3>3. QED
      BY <3>1, <3>2 DEF FlowInv, MissingInv
  <2>4. QED
    BY <2>2, <2>3
<1>11. FileInv'
  <2>1. file' = file /\ FileInv /\ step[r] # 10
    BY <1>1, <1>3
  <2>2. /\ \A s \in 0 .. Save : file[s] \subseteq file'[s]
        /\ step[r] = 10 => <<"blocks", r>> \in file'[slice[r]]
        /\ HeaderAfterBlocks'
    BY <2>1 DEF FileInv, HeaderAfterBlocks
  <2>3. QED
    BY <1>1, <2>1, <2>2, GoOnKeepsFile
<1>12. QED
  BY <1>3, <1>4, <1>5, <1>6, <1>8, <1>9, <1>10, <1>11 DEF FlowInv

\* Collectives change nothing; what they wait for keeps the ranks together
LEMMA CollectiveStep ==
  ASSUME SlicesInv, NEW r \in Rank, Collective(r)
  PROVE  SlicesInv'
<1> USE DEF SlicesInv
<1>1. /\ slice[r] >= 0 /\ step[r] \in {2, 5, 7, 8, 9, 11, 14} /\ GoOn(r)
      /\ \A q \in WaitsFor(r) : Called(q, r)
      /\ UNCHANGED <<flow, holds, file, crashes>>
  <2>1. Steps[step[r]] \in {"balance", "report", "counts", "offsets", "start", "blobs", "times"}
    BY DEF Collective
  <2>2. step[r] \in 1 .. 14
    BY Types
  <2>3. step[r] \in {2, 5, 7, 8, 9, 11, 14}
    BY <2>1, <2>2, StepNames
  <2>4. QED
    BY <2>3 DEF Collective
<1>2. Waited(r)
  <2>1. step[r] \in {7, 11} /\ r = 0 => WaitsFor(r) = Rank
    BY <1>1, StepNames DEF WaitsFor, At
  <2>2. step[r] = 8 /\ r # 0 => 0 \in WaitsFor(r)
    <3> SUFFICES ASSUME step[r] = 8, r # 0 PROVE 0 \in WaitsFor(r)
      OBVIOUS
    <3>1. WaitsFor(r) = 0 .. r - 1
      BY <1>1, StepNames DEF WaitsFor, At
    <3>2. QED
      BY <3>1, Constants
  <2>3. QED
    BY <1>1, <2>1, <2>2, Places DEF Waited
<1>3. NearInv' /\ EnteredInv' /\ LoopInv'
  BY <1>1, <1>2, GoOnKeepsOrder DEF flow, FlowInv
<1>4. BarrierInv' /\ MessageInv' /\ MissingInv'
  BY <1>1, <1>2, GoOnKeepsFlow DEF flow
<1>5. HoldsInv'
  <2>1. holds' = holds /\ HoldsInv /\ step[r] # 1 /\ step[r] # 4 /\ step[r] # 6
    BY <1>1 DEF FlowInv
  <2>2. /\ \A q \in Rank : q # r => holds'[q] = holds[q]
        /\ step[r] \notin {4, 6} => holds[r] \subseteq holds'[r]
        /\ step[r] = 4 => {h \in holds[r] : h[1] = slice[r]} \subseteq holds'[r]
        /\ step[r] = 6 => \A h \in holds[r] : <<h[1], "frozen">> \in holds'[r]
        /\ step[r] = 1 => <<slice[r], "computed">> \in holds'[r]
    BY <2>1
  <2>3. QED
    BY <1>1, <2>1, <2>2, GoOnKeepsBlocks
<1>6. FileInv'
  <2>1. file' = file /\ FileInv /\ step[r] # 10
    BY <1>1
  <2>2. /\ \A s \in 0 .. Save : file[s] \subseteq file'[s]
        /\ step[r] = 10 => <<"blocks", r>> \in file'[slice[r]]
        /\ HeaderAfterBlocks'
    BY <2>1 DEF FileInv, HeaderAfterBlocks
  <2>3. QED
    BY <1>1, <2>1, <2>2, GoOnKeepsFile
<1>7. SlicesTypeOK'
  BY <1>1, GoOnMoves, StepNames DEF SlicesTypeOK, flow
<1>8. QED
  BY <1>1, <1>3, <1>4, <1>5, <1>6, <1>7 DEF FlowInv, flow

\* Dropping keeps the blocks of the slice
LEMMA DropStep ==
  ASSUME SlicesInv, NEW r \in Rank, Drop(r)
  PROVE  SlicesInv'
<1> USE DEF SlicesInv
<1>1. slice[r] >= 0 /\ step[r] = 4 /\ GoOn(r) /\ UNCHANGED <<flow, file, crashes>>
  BY Types, StepNames DEF Drop, At
<1>2. Waited(r)
  BY <1>1, Places DEF Waited
<1>3. NearInv' /\ EnteredInv' /\ LoopInv'
  BY <1>1, <1>2, GoOnKeepsOrder DEF flow, FlowInv
<1>4. BarrierInv' /\ MessageInv' /\ MissingInv'
  BY <1>1, <1>2, GoOnKeepsFlow DEF flow
<1>5. holds \in [Rank -> SUBSET ((0 .. FirstSlice) \X {"computed", "frozen"})]
  BY DEF SlicesTypeOK
<1>6. /\ \A q \in Rank : q # r => holds'[q] = holds[q]
      /\ holds'[r] = {h \in holds[r] : h[1] = slice[r]}
      /\ holds' \in [Rank -> SUBSET ((0 .. FirstSlice) \X {"computed", "frozen"})]
  BY <1>5 DEF Drop
<1>7. HoldsInv'
  <2>1. /\ step[r] \notin {4, 6} => holds[r] \subseteq holds'[r]
        /\ step[r] = 4 => {h \in holds[r] : h[1] = slice[r]} \subseteq holds'[r]
        /\ step[r] = 6 => \A h \in holds[r] : <<h[1], "frozen">> \in holds'[r]
        /\ step[r] = 1 => <<slice[r], "computed">> \in holds'[r]
    BY <1>1, <1>6
  <2>2. HoldsInv
    BY DEF FlowInv
  <2>3. QED
    BY <1>1, <1>6, <2>1, <2>2, GoOnKeepsBlocks
<1>8. FileInv'
  <2>1. file' = file /\ FileInv /\ step[r] # 10
    BY <1>1
  <2>2. /\ \A s \in 0 .. Save : file[s] \subseteq file'[s]
        /\ step[r] = 10 => <<"blocks", r>> \in file'[slice[r]]
        /\ HeaderAfterBlocks'
    BY <2>1 DEF FileInv, HeaderAfterBlocks
  <2>3. QED
    BY <1>1, <2>1, <2>2, GoOnKeepsFile
<1>9. SlicesTypeOK'
  BY <1>1, <1>6, GoOnMoves, StepNames DEF SlicesTypeOK, flow
<1>10. QED
  BY <1>1, <1>3, <1>4, <1>7, <1>8, <1>9 DEF FlowInv, flow

\* Freezing keeps all blocks
LEMMA FreezeStep ==
  ASSUME SlicesInv, NEW r \in Rank, Freeze(r)
  PROVE  SlicesInv'
<1> USE DEF SlicesInv
<1>1. slice[r] >= 0 /\ step[r] = 6 /\ GoOn(r) /\ UNCHANGED <<flow, file, crashes>>
  BY Types, StepNames DEF Freeze, At
<1>2. Waited(r)
  BY <1>1, Places DEF Waited
<1>3. NearInv' /\ EnteredInv' /\ LoopInv'
  BY <1>1, <1>2, GoOnKeepsOrder DEF flow, FlowInv
<1>4. BarrierInv' /\ MessageInv' /\ MissingInv'
  BY <1>1, <1>2, GoOnKeepsFlow DEF flow
<1>5. holds \in [Rank -> SUBSET ((0 .. FirstSlice) \X {"computed", "frozen"})]
  BY DEF SlicesTypeOK
<1>6. /\ \A q \in Rank : q # r => holds'[q] = holds[q]
      /\ holds'[r] = {<<h[1], "frozen">> : h \in holds[r]}
      /\ holds' \in [Rank -> SUBSET ((0 .. FirstSlice) \X {"computed", "frozen"})]
  <2>1. holds' = [holds EXCEPT ![r] = {<<h[1], "frozen">> : h \in holds[r]}]
    BY DEF Freeze
  <2>2. {<<h[1], "frozen">> : h \in holds[r]} \subseteq (0 .. FirstSlice) \X {"computed", "frozen"}
    BY <1>5
  <2>3. QED
    BY <1>5, <2>1, <2>2
<1>7. HoldsInv'
  <2>1. /\ step[r] \notin {4, 6} => holds[r] \subseteq holds'[r]
        /\ step[r] = 4 => {h \in holds[r] : h[1] = slice[r]} \subseteq holds'[r]
        /\ step[r] = 6 => \A h \in holds[r] : <<h[1], "frozen">> \in holds'[r]
        /\ step[r] = 1 => <<slice[r], "computed">> \in holds'[r]
    BY <1>1, <1>6
  <2>2. HoldsInv
    BY DEF FlowInv
  <2>3. QED
    BY <1>1, <1>6, <2>1, <2>2, GoOnKeepsBlocks
<1>8. FileInv'
  <2>1. file' = file /\ FileInv /\ step[r] # 10
    BY <1>1
  <2>2. /\ \A s \in 0 .. Save : file[s] \subseteq file'[s]
        /\ step[r] = 10 => <<"blocks", r>> \in file'[slice[r]]
        /\ HeaderAfterBlocks'
    BY <2>1 DEF FileInv, HeaderAfterBlocks
  <2>3. QED
    BY <1>1, <2>1, <2>2, GoOnKeepsFile
<1>9. SlicesTypeOK'
  BY <1>1, <1>6, GoOnMoves, StepNames DEF SlicesTypeOK, flow
<1>10. QED
  BY <1>1, <1>3, <1>4, <1>7, <1>8, <1>9 DEF FlowInv, flow

\* The header is written by rank 0, for which all ranks have written their blocks
LEMMA WriteStep ==
  ASSUME SlicesInv, NEW r \in Rank, Write(r)
  PROVE  SlicesInv'
<1> USE DEF SlicesInv
<1>1. slice[r] >= 0 /\ step[r] \in {10, 12, 13} /\ GoOn(r) /\ UNCHANGED <<flow, holds, crashes>>
  <2>1. Steps[step[r]] \in {"blocks", "indices", "header"} /\ step[r] \in 1 .. 14
    BY Types DEF Write
  <2>2. step[r] \in {10, 12, 13}
    BY <2>1, StepNames
  <2>3. QED
    BY <2>2 DEF Write
<1>2. Waited(r)
  BY <1>1, Places DEF Waited
<1>3. NearInv' /\ EnteredInv' /\ LoopInv'
  BY <1>1, <1>2, GoOnKeepsOrder DEF flow, FlowInv
<1>4. BarrierInv' /\ MessageInv' /\ MissingInv'
  BY <1>1, <1>2, GoOnKeepsFlow DEF flow
<1>5. HoldsInv'
  <2>1. holds' = holds /\ HoldsInv /\ step[r] # 1 /\ step[r] # 4 /\ step[r] # 6
    BY <1>1 DEF FlowInv
  <2>2. /\ \A q \in Rank : q # r => holds'[q] = holds[q]
        /\ step[r] \notin {4, 6} => holds[r] \subseteq holds'[r]
        /\ step[r] = 4 => {h \in holds[r] : h[1] = slice[r]} \subseteq holds'[r]
        /\ step[r] = 6 => \A h \in holds[r] : <<h[1], "frozen">> \in holds'[r]
        /\ step[r] = 1 => <<slice[r], "computed">> \in holds'[r]
    BY <2>1
  <2>3. QED
    BY <1>1, <2>1, <2>2, GoOnKeepsBlocks
<1>6. slice[r] \in 0 .. Save
  BY <1>1, Types, Constants, Places DEF LoopInv
<1>7. /\ file' \in [0 .. Save -> SUBSET Parts]
      /\ \A s \in 0 .. Save : s # slice[r] => file'[s] = file[s]
      /\ file'[slice[r]] = file[slice[r]] \cup (Parts \cap {<<Steps[step[r]], r>>})
  BY <1>6 DEF Write, SlicesTypeOK
<1>8. step[r] = 10 => <<"blocks", r>> \in file'[slice[r]]
  BY <1>7, StepNames DEF Parts
<1>9. HeaderAfterBlocks'
  <2> SUFFICES ASSUME NEW s \in 0 .. Save, Header \in file'[s], NEW q \in Rank
               PROVE  <<"blocks", q>> \in file'[s]
    BY <1>7 DEF HeaderAfterBlocks
  <2>1. CASE Header \in file[s]
    <3>1. DOMAIN file = 0 .. Save
      BY DEF SlicesTypeOK
    <3>2. <<"blocks", q>> \in file[s]
      BY <2>1, <3>1 DEF FileInv, HeaderAfterBlocks
    <3>3. QED
      BY <1>7, <3>2
  <2>2. CASE Header \notin file[s]
    <3>1. s = slice[r] /\ Header = <<Steps[step[r]], r>>
      BY <1>7, <2>2
    <3>2. r = 0 /\ step[r] = 13
      BY <1>1, <3>1, StepNames DEF Header
    <3>3. Near(q, r)
      BY DEF NearInv
    <3>4. slice[q] \in Int /\ slice[r] \in Int /\ step[q] \in 1 .. 14
      BY Types
    <3>5. slice[q] < slice[r] \/ (slice[q] = slice[r] /\ step[q] >= 11)
      BY <1>6, <3>2, <3>3, <3>4, Constants, Places DEF Near
    <3>6. Near(r, q)
      BY DEF NearInv
    <3>7. slice[r] = slice[q] + 1 \/ (slice[q] = slice[r] /\ step[q] >= 11)
      BY <3>4, <3>5, <3>6 DEF Near
    <3>8. <<"blocks", q>> \in file[slice[r]]
      BY <1>6, <3>4, <3>7, Places DEF FileInv
    <3>9. QED
      BY <1>7, <3>1, <3>8
  <2>3. QED
    BY <2>1, <2>2
<1>10. FileInv'
  BY <1>1, <1>7, <1>8, <1>9, GoOnKeepsFile
<1>11. SlicesTypeOK'
  BY <1>1, <1>7, GoOnMoves, StepNames DEF SlicesTypeOK, flow
<1>12. QED
  BY <1>1, <1>3, <1>4, <1>5, <1>10, <1>11 DEF FlowInv, flow

\* Leaving the barrier, in which everyone is
LEMMA LeaveStep ==
  ASSUME SlicesInv, NEW r \in Rank, Leave(r)
  PROVE  SlicesInv'
<1> USE DEF SlicesInv
<1>1. /\ slice[r] >= 0 /\ step[r] = 3 /\ GoOn(r) /\ entered[slice[r]] = Rank
      /\ UNCHANGED <<flow, holds, file, crashes>>
  BY Types, StepNames DEF Leave, At
<1>2. Waited(r)
  BY <1>1, Places DEF Waited
<1>3. NearInv' /\ EnteredInv' /\ LoopInv'
  BY <1>1, <1>2, GoOnKeepsOrder DEF flow, FlowInv
<1>4. BarrierInv' /\ MessageInv' /\ MissingInv'
  BY <1>1, <1>2, GoOnKeepsFlow DEF flow
<1>5. HoldsInv'
  <2>1. holds' = holds /\ HoldsInv /\ step[r] # 1 /\ step[r] # 4 /\ step[r] # 6
    BY <1>1 DEF FlowInv
  <2>2. /\ \A q \in Rank : q # r => holds'[q] = holds[q]
        /\ step[r] \notin {4, 6} => holds[r] \subseteq holds'[r]
        /\ step[r] = 4 => {h \in holds[r] : h[1] = slice[r]} \subseteq holds'[r]
        /\ step[r] = 6 => \A h \in holds[r] : <<h[1], "frozen">> \in holds'[r]
        /\ step[r] = 1 => <<slice[r], "computed">> \in holds'[r]
    BY <2>1
  <2>3. QED
    BY <1>1, <2>1, <2>2, GoOnKeepsBlocks
<1>6. FileInv'
  <2>1. file' = file /\ FileInv /\ step[r] # 10
    BY <1>1
  <2>2. /\ \A s \in 0 .. Save : file[s] \subseteq file'[s]
        /\ step[r] = 10 => <<"blocks", r>> \in file'[slice[r]]
        /\ HeaderAfterBlocks'
    BY <2>1 DEF FileInv, HeaderAfterBlocks
  <2>3. QED
    BY <1>1, <2>1, <2>2, GoOnKeepsFile
<1>7. SlicesTypeOK'
  BY <1>1, GoOnMoves, StepNames DEF SlicesTypeOK, flow
<1>8. QED
  BY <1>1, <1>3, <1>4, <1>5, <1>6, <1>7 DEF FlowInv, flow

-----------------------------------------------------------------------------
(***************************************************************************)
(* The steps of the flow.                                                  *)
(***************************************************************************)

\* Steps of the flow leave alone where the ranks are, block stores and files
LEMMA FlowKeepsLoop ==
  ASSUME SlicesInv, UNCHANGED <<slice, step, holds, file>>
  PROVE  NearInv' /\ HoldsInv' /\ FileInv' /\ (entered' = entered => LoopInv' /\ EnteredInv')
<1>1. NearInv'
  BY DEF SlicesInv, NearInv, Near
<1>2. HoldsInv'
  BY DEF SlicesInv, FlowInv, HoldsInv
<1>3. FileInv'
  BY DEF SlicesInv, FileInv, HeaderAfterBlocks
<1>4. entered' = entered => LoopInv' /\ EnteredInv'
  BY DEF SlicesInv, FlowInv, LoopInv, EnteredInv
<1>5. QED
  BY <1>1, <1>2, <1>3, <1>4

\* Types and what the flow's steps need of the state, at rank r in the barrier's loop
LEMMA InFlow ==
  ASSUME SlicesInv, NEW r \in Rank, At(r, "compute")
  PROVE  /\ slice[r] \in 0 .. FirstSlice /\ step[r] = 3
         /\ \A m \in net : m.to = r => slice[r] = m.slice
<1>1. slice[r] \in Int /\ slice[r] >= 0 /\ slice[r] \in -2 .. FirstSlice /\ step[r] \in 1 .. 14
  BY Types DEF At, SlicesInv
<1>2. step[r] = 3
  BY <1>1, StepNames DEF At
<1>3. slice[r] \in 0 .. FirstSlice
  BY <1>1, Constants
<1>4. ASSUME NEW m \in net, m.to = r
      PROVE  slice[r] = m.slice
  <2>1. slice[m.to] = m.slice \/ step[m.to] >= 7
    <3>1. SlicesTypeOK /\ NearInv /\ EnteredInv /\ HoldsInv /\ BarrierInv /\ MessageInv /\ MissingInv
      BY DEF SlicesInv, FlowInv
    <3>2. QED
      BY <3>1, MessagesMeet
  <2>2. QED
    BY <1>2, <1>4, <2>1
<1>5. QED
  BY <1>2, <1>3, <1>4

LEMMA RequestStep ==
  ASSUME SlicesInv, NEW r \in Rank, NEW l \in lines, Request(r, l)
  PROVE  SlicesInv'
<1> DEFINE m0 == Message("request", l, slice[r], l.from)
<1>1. /\ slice[r] \in 0 .. FirstSlice /\ step[r] = 3 /\ l.worker = r /\ progress[l] = "unscheduled"
      /\ UNCHANGED <<lines, slice, step, holds, missing, entered, died, file, crashes>>
  BY InFlow DEF Request
<1>2. /\ \A k \in lines : k.worker \in Rank /\ k.from \in Rank /\ k.to \in Rank
      /\ \A s \in 0 .. FirstSlice : entered[s] \in SUBSET Rank
      /\ \A m \in net : m.line \in lines
  BY Types DEF SlicesInv
<1>3. /\ progress' \in [lines -> {"unscheduled", "gathering", "gathered", "sent"}]
      /\ progress'[l] # "sent"
      /\ \A k \in lines : k # l => progress'[k] = progress[k]
      /\ \/ net' = net
         \/ net' = net \cup {m0} /\ progress'[l] = "gathering" /\ slice[r] # FirstSlice
  <2>1. progress \in [lines -> {"unscheduled", "gathering", "gathered", "sent"}]
    BY DEF SlicesInv, SlicesTypeOK
  <2>2. QED
    BY <2>1 DEF Request
<1>4. /\ m0.type = "request" /\ m0.line = l /\ m0.slice = slice[r] /\ m0.to = l.from
      /\ m0 \in [type : {"request", "response", "output"}, line : lines, slice : 0 .. FirstSlice, to : Rank]
  BY <1>1, <1>2 DEF Message
<1> HIDE DEF m0
<1>5. SlicesTypeOK'
  <2>1. net' \subseteq [type : {"request", "response", "output"}, line : lines, slice : 0 .. FirstSlice, to : Rank]
    BY <1>3, <1>4 DEF SlicesInv, SlicesTypeOK
  <2>2. QED
    BY <1>1, <1>3, <2>1 DEF SlicesInv, SlicesTypeOK
<1>6. \A m \in net : m.line # l
  <2>1. \A m \in net : m.type \in {"request", "response", "output"}
    BY Types DEF SlicesInv
  <2>2. \A m \in net : progress[m.line] \in {"gathering", "sent"}
    BY <2>1 DEF SlicesInv, FlowInv, MessageInv
  <2>3. QED
    BY <1>1, <2>2
<1>7. r \notin entered[slice[r]]
  BY <1>1 DEF SlicesInv, FlowInv, BarrierInv
<1>8. BarrierInv'
  BY <1>1, <1>2, <1>3, <1>7 DEF SlicesInv, FlowInv, BarrierInv
<1>9. MessageInv'
  <2>1. ASSUME NEW m \in net
        PROVE  progress'[m.line] = progress[m.line]
    BY <1>2, <1>3, <1>6
  <2>2. slice[r] # FirstSlice => slice[r] < FirstSlice
    BY <1>1, Constants
  <2>3. QED
    BY <1>1, <1>3, <1>4, <2>1, <2>2, Places DEF SlicesInv, FlowInv, MessageInv
<1>10. MissingInv'
  <2> SUFFICES ASSUME NEW k \in lines, slice[k.to] >= 0, step[k.to] >= 2, Unsent(k, slice[k.to])'
               PROVE  k \in missing[k.to]
    BY <1>1 DEF MissingInv
  <2>1. Unsent(k, slice[k.to])
    <3>1. CASE k = l
      BY <1>1, <1>3, <1>4, <3>1, Places DEF Unsent
    <3>2. CASE k # l
      BY <1>1, <1>3, <1>4, <3>2 DEF Unsent
    <3>3. QED
      BY <3>1, <3>2
  <2>2. QED
    BY <2>1 DEF SlicesInv, FlowInv, MissingInv
<1>11. QED
  BY <1>1, <1>5, <1>8, <1>9, <1>10, FlowKeepsLoop DEF SlicesInv, FlowInv

\* Whoever is asked has the block
LEMMA ProcessRequestStep ==
  ASSUME SlicesInv, NEW r \in Rank, NEW m \in net, ProcessRequest(r, m)
  PROVE  SlicesInv'
<1> DEFINE m0 == Message("response", m.line, slice[r], m.line.worker)
<1>1. /\ slice[r] \in 0 .. FirstSlice /\ step[r] = 3 /\ m.type = "request" /\ m.to = r /\ slice[r] = m.slice
      /\ net' = (net \ {m}) \cup {m0}
      /\ died' = (died \/ <<slice[r] + 1, "frozen">> \notin holds[r])
      /\ UNCHANGED <<lines, slice, step, holds, progress, missing, entered, file, crashes>>
  BY InFlow DEF ProcessRequest
<1>2. /\ \A k \in lines : k.worker \in Rank /\ k.from \in Rank /\ k.to \in Rank
      /\ m.line \in lines
  BY Types DEF SlicesInv
<1>3. /\ m0.type = "response" /\ m0.line = m.line /\ m0.slice = m.slice /\ m0.to = m.line.worker
      /\ m0 \in [type : {"request", "response", "output"}, line : lines, slice : 0 .. FirstSlice, to : Rank]
  BY <1>1, <1>2 DEF Message
<1> HIDE DEF m0
<1>4. ~died'
  <2>1. <<m.slice + 1, "frozen">> \in holds[m.to] /\ ~died
    BY <1>1, MessagesMeet DEF SlicesInv, FlowInv
  <2>2. QED
    BY <1>1, <2>1
<1>5. SlicesTypeOK'
  BY <1>1, <1>3, <1>4 DEF SlicesInv, SlicesTypeOK
<1>6. BarrierInv'
  BY <1>1 DEF SlicesInv, FlowInv, BarrierInv
<1>7. MessageInv'
  BY <1>1, <1>3 DEF SlicesInv, FlowInv, MessageInv
<1>8. MissingInv'
  <2>1. ASSUME NEW k \in lines, Unsent(k, slice[k.to])'
        PROVE  Unsent(k, slice[k.to])
    BY <1>1, <1>3, <2>1 DEF Unsent
  <2>2. QED
    BY <1>1, <2>1 DEF SlicesInv, FlowInv, MissingInv
<1>9. QED
  BY <1>1, <1>4, <1>5, <1>6, <1>7, <1>8, FlowKeepsLoop DEF SlicesInv, FlowInv

\* There is one message for a line
LEMMA ProcessResponseStep ==
  ASSUME SlicesInv, NEW r \in Rank, NEW m \in net, ProcessResponse(r, m)
  PROVE  SlicesInv'
<1>1. /\ slice[r] \in 0 .. FirstSlice /\ step[r] = 3 /\ m.type = "response" /\ m.to = r /\ slice[r] = m.slice
      /\ net' = net \ {m}
      /\ progress' = [progress EXCEPT ![m.line] = "gathered"]
      /\ UNCHANGED <<lines, slice, step, holds, missing, entered, died, file, crashes>>
  BY InFlow DEF ProcessResponse
<1>2. m.line \in lines /\ m.line.worker = r /\ progress[m.line] = "gathering"
  BY <1>1, Types DEF SlicesInv, FlowInv, MessageInv
<1>3. /\ progress' \in [lines -> {"unscheduled", "gathering", "gathered", "sent"}]
      /\ progress'[m.line] # "sent"
      /\ \A k \in lines : k # m.line => progress'[k] = progress[k]
  <2>1. progress \in [lines -> {"unscheduled", "gathering", "gathered", "sent"}]
    BY DEF SlicesInv, SlicesTypeOK
  <2>2. QED
    BY <1>1, <1>2, <2>1
<1>4. SlicesTypeOK'
  BY <1>1, <1>3 DEF SlicesInv, SlicesTypeOK
<1>5. \A k \in net' : k \in net /\ k.line # m.line /\ k.line \in lines /\ progress'[k.line] = progress[k.line]
  BY <1>1, <1>3, Types DEF SlicesInv, FlowInv, MessageInv
<1>6. r \notin entered[slice[r]]
  BY <1>1, <1>2 DEF SlicesInv, FlowInv, BarrierInv
<1>7. BarrierInv'
  <2>1. \A s \in 0 .. FirstSlice : entered[s] \in SUBSET Rank
    BY Types DEF SlicesInv
  <2>2. QED
    BY <1>1, <1>2, <1>3, <1>6, <2>1 DEF SlicesInv, FlowInv, BarrierInv
<1>8. MessageInv'
  BY <1>1, <1>5 DEF SlicesInv, FlowInv, MessageInv
<1>9. MissingInv'
  <2>1. ASSUME NEW k \in lines, Unsent(k, slice[k.to])'
        PROVE  Unsent(k, slice[k.to])
    <3>1. CASE k = m.line
      BY <1>1, <1>2, <2>1, <3>1 DEF Unsent
    <3>2. CASE k # m.line
      BY <1>1, <1>3, <2>1, <3>2 DEF Unsent
    <3>3. QED
      BY <3>1, <3>2
  <2>2. QED
    BY <1>1, <2>1 DEF SlicesInv, FlowInv, MissingInv
<1>10. QED
  BY <1>1, <1>4, <1>7, <1>8, <1>9, FlowKeepsLoop DEF SlicesInv, FlowInv

LEMMA SendStep ==
  ASSUME SlicesInv, NEW r \in Rank, NEW l \in lines, Send(r, l)
  PROVE  SlicesInv'
<1> DEFINE m0 == Message("output", l, slice[r], l.to)
<1>1. /\ slice[r] \in 0 .. FirstSlice /\ step[r] = 3 /\ l.worker = r /\ progress[l] = "gathered"
      /\ net' = net \cup {m0} /\ progress' = [progress EXCEPT ![l] = "sent"]
      /\ UNCHANGED <<lines, slice, step, holds, missing, entered, died, file, crashes>>
  BY InFlow DEF Send
<1>2. /\ \A k \in lines : k.worker \in Rank /\ k.from \in Rank /\ k.to \in Rank
      /\ \A s \in 0 .. FirstSlice : entered[s] \in SUBSET Rank
      /\ \A m \in net : m.line \in lines
  BY Types DEF SlicesInv
<1>3. /\ progress' \in [lines -> {"unscheduled", "gathering", "gathered", "sent"}]
      /\ progress'[l] = "sent"
      /\ \A k \in lines : k # l => progress'[k] = progress[k]
  <2>1. progress \in [lines -> {"unscheduled", "gathering", "gathered", "sent"}]
    BY DEF SlicesInv, SlicesTypeOK
  <2>2. QED
    BY <1>1, <2>1
<1>4. /\ m0.type = "output" /\ m0.line = l /\ m0.slice = slice[r] /\ m0.to = l.to
      /\ m0 \in [type : {"request", "response", "output"}, line : lines, slice : 0 .. FirstSlice, to : Rank]
  BY <1>1, <1>2 DEF Message
<1> HIDE DEF m0
<1>5. SlicesTypeOK'
  <2>1. net' \subseteq [type : {"request", "response", "output"}, line : lines, slice : 0 .. FirstSlice, to : Rank]
    BY <1>1, <1>4 DEF SlicesInv, SlicesTypeOK
  <2>2. QED
    BY <1>1, <1>3, <2>1 DEF SlicesInv, SlicesTypeOK
<1>6. \A m \in net : m.line # l
  <2>1. \A m \in net : m.type \in {"request", "response", "output"}
    BY Types DEF SlicesInv
  <2>2. \A m \in net : progress[m.line] \in {"gathering", "sent"}
    BY <2>1 DEF SlicesInv, FlowInv, MessageInv
  <2>3. QED
    BY <1>1, <2>2
<1>7. r \notin entered[slice[r]]
  BY <1>1 DEF SlicesInv, FlowInv, BarrierInv
<1>8. BarrierInv'
  BY <1>1, <1>2, <1>3, <1>7 DEF SlicesInv, FlowInv, BarrierInv
<1>9. MessageInv'
  <2>1. ASSUME NEW m \in net
        PROVE  progress'[m.line] = progress[m.line]
    BY <1>2, <1>3, <1>6
  <2>2. QED
    BY <1>1, <1>3, <1>4, <1>6, <2>1, Places DEF SlicesInv, FlowInv, MessageInv
<1>10. MissingInv'
  <2> SUFFICES ASSUME NEW k \in lines, slice[k.to] >= 0, step[k.to] >= 2, Unsent(k, slice[k.to])'
               PROVE  k \in missing[k.to]
    BY <1>1 DEF MissingInv
  <2>1. Unsent(k, slice[k.to])
    <3>1. CASE k = l
      <4>1. slice[r] \in {slice[k.to], slice[k.to] + 1}
        BY <1>1, <1>4, <1>6, <3>1 DEF Unsent
      <4>2. QED
        BY <1>1, <3>1, <4>1, Places DEF Unsent
    <3>2. CASE k # l
      BY <1>1, <1>3, <1>4, <3>2 DEF Unsent
    <3>3. QED
      BY <3>1, <3>2
  <2>2. QED
    BY <2>1 DEF SlicesInv, FlowInv, MissingInv
<1>11. QED
  BY <1>1, <1>5, <1>8, <1>9, <1>10, FlowKeepsLoop DEF SlicesInv, FlowInv

\* Nothing but the output that comes takes a line from what is missing
LEMMA ProcessOutputStep ==
  ASSUME SlicesInv, NEW r \in Rank, NEW m \in net, ProcessOutput(r, m)
  PROVE  SlicesInv'
<1>1. /\ slice[r] \in 0 .. FirstSlice /\ step[r] = 3 /\ m.type = "output" /\ m.to = r /\ slice[r] = m.slice
      /\ net' = net \ {m}
      /\ missing' = [missing EXCEPT ![r] = @ \ {m.line}]
      /\ died' = (died \/ m.line \notin missing[r])
      /\ UNCHANGED <<lines, slice, step, holds, progress, entered, file, crashes>>
  BY InFlow DEF ProcessOutput
<1>2. /\ m.line \in lines /\ m.line.to = r /\ progress[m.line] = "sent"
      /\ slice[m.line.worker] = m.slice /\ step[m.line.worker] = 3
  BY <1>1, Places, Types DEF SlicesInv, FlowInv, MessageInv
<1>3. missing \in [Rank -> SUBSET lines]
  BY DEF SlicesInv, SlicesTypeOK
<1>4. ~died'
  <2>1. m.line \in missing[r]
    <3>1. SlicesTypeOK /\ NearInv /\ EnteredInv /\ HoldsInv /\ BarrierInv /\ MessageInv /\ MissingInv
      BY DEF SlicesInv, FlowInv
    <3>2. m.type = "output" /\ slice[m.to] = m.slice /\ step[m.to] >= 2
      BY <1>1
    <3>3. m.line \in missing[m.to]
      BY <3>1, <3>2, MessagesMeet
    <3>4. QED
      BY <1>1, <3>3
  <2>2. QED
    BY <1>1, <2>1 DEF SlicesInv, FlowInv
<1>5. SlicesTypeOK'
  BY <1>1, <1>3, <1>4 DEF SlicesInv, SlicesTypeOK
<1>6. BarrierInv'
  <2>1. \A s \in 0 .. FirstSlice : entered[s] \in SUBSET Rank
    BY Types DEF SlicesInv
  <2>2. QED
    BY <1>1, <1>3, <2>1 DEF SlicesInv, FlowInv, BarrierInv
<1>7. MessageInv'
  BY <1>1 DEF SlicesInv, FlowInv, MessageInv
<1>8. MissingInv'
  <2> SUFFICES ASSUME NEW k \in lines, slice[k.to] >= 0, step[k.to] >= 2, Unsent(k, slice[k.to])'
               PROVE  k \in missing'[k.to]
    BY <1>1 DEF MissingInv
  <2>1. Unsent(k, slice[k.to])
    BY <1>1 DEF Unsent
  <2>2. k \in missing[k.to]
    BY <2>1 DEF SlicesInv, FlowInv, MissingInv
  <2>3. k # m.line
    <3> SUFFICES ASSUME k = m.line PROVE FALSE
      OBVIOUS
    <3>1. slice[k.worker] = slice[k.to] /\ step[k.worker] = 3 /\ progress[k] = "sent" /\ slice[r] \in Int
      BY <1>1, <1>2
    <3>2. \E n \in net' : n.line = k
      <4>1. slice[k.to] # slice[k.to] + 1
        BY <1>1, <1>2
      <4>2. QED
        BY <1>1, <3>1, <4>1, Places DEF Unsent
    <3>3. QED
      BY <1>1, <3>2 DEF SlicesInv, FlowInv, MessageInv
  <2>4. k.to \in Rank
    BY Types DEF SlicesInv
  <2>5. QED
    BY <1>1, <1>3, <2>2, <2>3, <2>4
<1>9. QED
  BY <1>1, <1>4, <1>5, <1>6, <1>7, <1>8, FlowKeepsLoop DEF SlicesInv, FlowInv

\* A rank enters when it has sent and got everything
LEMMA EnterStep ==
  ASSUME SlicesInv, NEW r \in Rank, Enter(r)
  PROVE  SlicesInv'
<1>1. /\ slice[r] \in 0 .. FirstSlice /\ step[r] = 3
      /\ missing[r] = {} /\ \A l \in lines : l.worker = r => progress[l] = "sent"
      /\ entered' = [entered EXCEPT ![slice[r]] = @ \cup {r}]
      /\ UNCHANGED <<lines, slice, step, holds, progress, missing, net, died, file, crashes>>
  BY InFlow DEF Enter
<1>2. /\ entered' \in [0 .. FirstSlice -> SUBSET Rank]
      /\ \A s \in 0 .. FirstSlice : entered[s] \subseteq entered'[s] /\ (s # slice[r] => entered'[s] = entered[s])
      /\ entered'[slice[r]] = entered[slice[r]] \cup {r}
  BY <1>1 DEF SlicesInv, SlicesTypeOK
<1>3. SlicesTypeOK'
  BY <1>1, <1>2 DEF SlicesInv, SlicesTypeOK
<1>4. \A q \in Rank : slice[q] # -2
  BY <1>1 DEF SlicesInv, LoopInv
<1>5. LoopInv'
  BY <1>1, <1>4 DEF SlicesInv, LoopInv
<1>6. EnteredInv'
  <2>1. ASSUME NEW s \in 0 .. FirstSlice, NEW q \in entered'[s]
        PROVE  slice[q] < s \/ (slice[q] = s /\ step[q] >= Place("compute"))
    <3>1. CASE q \in entered[s]
      BY <3>1 DEF SlicesInv, FlowInv, EnteredInv
    <3>2. CASE q \notin entered[s]
      BY <1>1, <1>2, <3>2, Places
    <3>3. QED
      BY <3>1, <3>2
  <2>2. ASSUME NEW q \in Rank, slice[q] >= 0, step[q] > Place("compute")
        PROVE  entered'[slice[q]] = Rank
    <3>1. entered[slice[q]] = Rank
      BY <2>2 DEF SlicesInv, FlowInv, EnteredInv
    <3>2. slice[q] \in 0 .. FirstSlice
      BY <2>2, Types, Constants DEF SlicesInv
    <3>3. QED
      BY <1>2, <3>1, <3>2
  <2>3. QED
    BY <1>1, <2>1, <2>2 DEF EnteredInv
<1>7. BarrierInv'
  BY <1>1, <1>2 DEF SlicesInv, FlowInv, BarrierInv
<1>8. MessageInv' /\ MissingInv'
  BY <1>1 DEF SlicesInv, FlowInv, MessageInv, MissingInv, Unsent
<1>9. QED
  BY <1>1, <1>3, <1>5, <1>6, <1>7, <1>8, FlowKeepsLoop DEF SlicesInv, FlowInv

-----------------------------------------------------------------------------
(***************************************************************************)
(* Crashes, and what may come of them.                                     *)
(***************************************************************************)
LEMMA CrashStep ==
  ASSUME SlicesInv, Crash
  PROVE  SlicesInv'
<1>1. /\ crashes < MaxCrashes /\ crashes' = crashes + 1
      /\ slice' = [r \in Rank |-> -2] /\ step' = [r \in Rank |-> 1] /\ holds' = [r \in Rank |-> {}]
      /\ progress' = [l \in lines |-> "unscheduled"] /\ missing' = [r \in Rank |-> {}]
      /\ entered' = [s \in 0 .. FirstSlice |-> {}] /\ net' = {}
      /\ UNCHANGED <<lines, died, file>>
  BY DEF Crash
<1>2. SlicesTypeOK'
  <2>1. crashes' \in 0 .. MaxCrashes
    BY <1>1, Constants DEF SlicesInv, SlicesTypeOK
  <2>2. slice' \in [Rank -> -2 .. FirstSlice] /\ step' \in [Rank -> DOMAIN Steps]
    BY <1>1, Constants, StepNames
  <2>3. QED
    BY <1>1, <2>1, <2>2 DEF SlicesInv, SlicesTypeOK
<1>3. LoopInv' /\ NearInv' /\ EnteredInv' /\ HoldsInv'
  <2>1. \A r \in Rank : slice'[r] = -2 /\ step'[r] = 1
    BY <1>1
  <2>2. \A s \in 0 .. FirstSlice : entered'[s] = {}
    BY <1>1
  <2>3. LoopInv'
    BY <2>1, <2>2, Constants DEF LoopInv
  <2>4. NearInv'
    BY <2>1, Places DEF NearInv, Near
  <2>5. EnteredInv' /\ HoldsInv'
    BY <2>1, <2>2 DEF EnteredInv, HoldsInv
  <2>6. QED
    BY <2>3, <2>4, <2>5
<1>4. BarrierInv' /\ MessageInv' /\ MissingInv'
  <2>1. MissingInv'
    BY <1>1, Types DEF MissingInv, SlicesInv
  <2>2. QED
    BY <1>1, <2>1 DEF BarrierInv, MessageInv
<1>5. FileInv'
  BY <1>1, Constants DEF SlicesInv, FileInv, HeaderAfterBlocks
<1>6. QED
  BY <1>1, <1>2, <1>3, <1>4, <1>5 DEF SlicesInv, FlowInv

LEMMA RestartStep ==
  ASSUME SlicesInv, Restart
  PROVE  SlicesInv'
<1>1. PICK s \in 0 .. Save : /\ slice' = [r \in Rank |-> s - 1]
                             /\ holds' = [r \in Rank |-> {<<s, "frozen">>}]
  BY DEF Restart, SlicesInv, SlicesTypeOK
<1>2. /\ \A r \in Rank : slice[r] = -2
      /\ file' = [i \in DOMAIN file |-> {}] /\ DOMAIN file = 0 .. Save
      /\ UNCHANGED <<flow, step, crashes>>
  BY DEF Restart, SlicesInv, SlicesTypeOK
<1>3. \A r \in Rank : step[r] = 1
  BY <1>2 DEF SlicesInv, LoopInv
<1>4. \A i \in 0 .. FirstSlice : entered[i] = {}
  BY <1>2, Constants DEF SlicesInv, LoopInv
<1>5. net = {}
  BY <1>2, Types DEF SlicesInv, FlowInv, MessageInv
<1>6. SlicesTypeOK'
  <2>1. slice' \in [Rank -> -2 .. FirstSlice]
    BY <1>1, Constants
  <2>2. holds' \in [Rank -> SUBSET ((0 .. FirstSlice) \X {"computed", "frozen"})]
    BY <1>1, Constants
  <2>3. file' \in [0 .. Save -> SUBSET Parts]
    BY <1>2
  <2>4. QED
    BY <1>2, <2>1, <2>2, <2>3 DEF SlicesInv, SlicesTypeOK, flow
<1>7. LoopInv' /\ NearInv'
  <2>1. \A r \in Rank : slice'[r] = s - 1 /\ step'[r] = 1
    BY <1>1, <1>2, <1>3
  <2>2. s - 1 \in Int /\ s - 1 # -2 /\ s - 1 <= (s - 1) + 1 /\ s - 1 # (s - 1) + 1
    BY Constants
  <2>3. LoopInv'
    BY <2>1, <2>2, Places DEF LoopInv
  <2>4. NearInv'
    BY <2>1, <2>2, Places DEF NearInv, Near
  <2>5. QED
    BY <2>3, <2>4
<1>8. EnteredInv' /\ BarrierInv'
  BY <1>2, <1>3, <1>4, Places DEF flow, EnteredInv, BarrierInv
<1>9. HoldsInv'
  BY <1>1, <1>2, <1>3, Constants, Places DEF HoldsInv
<1>10. MessageInv' /\ MissingInv'
  BY <1>2, <1>3, <1>5, Types DEF SlicesInv, flow, MessageInv, MissingInv
<1>11. FileInv'
  <2>1. \A r \in Rank : slice'[r] = s - 1 /\ step'[r] = 1
    BY <1>1, <1>2, <1>3
  <2>2. QED
    BY <1>2, <2>1, Constants, Places DEF FileInv, HeaderAfterBlocks
<1>12. QED
  BY <1>2, <1>6, <1>7, <1>8, <1>9, <1>10, <1>11 DEF SlicesInv, FlowInv, flow

-----------------------------------------------------------------------------
(***************************************************************************)
(* The theorems.                                                           *)
(***************************************************************************)
LEMMA InitSlicesInv ==
  ASSUME Init
  PROVE  SlicesInv
<1>1. /\ lines \in {{f[i] : i \in 1 .. MaxLines} : f \in [1 .. MaxLines -> Line]}
      /\ slice = [r \in Rank |-> FirstSlice] /\ step = [r \in Rank |-> 1] /\ holds = [r \in Rank |-> {}]
      /\ progress = [l \in lines |-> "unscheduled"] /\ missing = [r \in Rank |-> {}]
      /\ entered = [s \in 0 .. FirstSlice |-> {}] /\ net = {} /\ died = FALSE
      /\ file = [s \in 0 .. Save |-> {}] /\ crashes = 0
  BY DEF Init
<1>2. SlicesTypeOK
  <2>1. lines \subseteq Line
    <3>1. PICK f \in [1 .. MaxLines -> Line] : lines = {f[i] : i \in 1 .. MaxLines}
      BY <1>1
    <3>2. QED
      BY <3>1
  <2>2. slice \in [Rank -> -2 .. FirstSlice] /\ step \in [Rank -> DOMAIN Steps] /\ crashes \in 0 .. MaxCrashes
    BY <1>1, Constants, StepNames
  <2>3. QED
    BY <1>1, <2>1, <2>2 DEF SlicesTypeOK
<1>3. LoopInv /\ NearInv
  BY <1>1, Constants, Places DEF LoopInv, NearInv, Near
<1>4. EnteredInv /\ HoldsInv
  BY <1>1, Constants, Places DEF EnteredInv, HoldsInv
<1>5. BarrierInv /\ MessageInv
  BY <1>1 DEF BarrierInv, MessageInv
<1>6. MissingInv
  BY <1>1, <1>2, Types DEF MissingInv
<1>7. FileInv
  BY <1>1, Constants, Places DEF FileInv, HeaderAfterBlocks
<1>8. QED
  BY <1>1, <1>2, <1>3, <1>4, <1>5, <1>6, <1>7 DEF SlicesInv, FlowInv

(***************************************************************************)
(* The invariant holds whatever the ranks do and however messages are      *)
(* delayed, across crashes and restarts.                                   *)
(***************************************************************************)
THEOREM SlicesInvariance == Spec => []SlicesInv
<1>1. Init => SlicesInv
  BY InitSlicesInv
<1>2. SlicesInv /\ [Next]_vars => SlicesInv'
  <2> SUFFICES ASSUME SlicesInv, [Next]_vars PROVE SlicesInv'
    OBVIOUS
  <2>1. ASSUME NEW r \in Rank, Loop(r) PROVE SlicesInv'
    BY <2>1, AllocateStep, CollectiveStep, DropStep, FreezeStep, WriteStep DEF Loop
  <2>2. ASSUME NEW r \in Rank, Flow(r) PROVE SlicesInv'
    <3>1. ASSUME NEW l \in lines, Request(r, l) \/ Send(r, l) PROVE SlicesInv'
      BY <3>1, RequestStep, SendStep
    <3>2. ASSUME NEW m \in net, ProcessRequest(r, m) \/ ProcessResponse(r, m) \/ ProcessOutput(r, m)
          PROVE  SlicesInv'
      BY <3>2, ProcessRequestStep, ProcessResponseStep, ProcessOutputStep
    <3>3. QED
      BY <2>2, <3>1, <3>2, EnterStep, LeaveStep DEF Flow
  <2>3. CASE UNCHANGED vars
    <3>1. UNCHANGED <<lines, slice, step, holds, progress, missing, entered, net, died, file, crashes>>
      BY <2>3 DEF vars, flow
    <3>2. NearInv' /\ HoldsInv' /\ FileInv' /\ LoopInv' /\ EnteredInv'
      BY <3>1, FlowKeepsLoop
    <3>3. SlicesTypeOK'
      BY <3>1 DEF SlicesInv, SlicesTypeOK
    <3>4. BarrierInv' /\ MessageInv'
      BY <3>1 DEF SlicesInv, FlowInv, BarrierInv, MessageInv
    <3>5. MissingInv'
      BY <3>1 DEF SlicesInv, FlowInv, MissingInv, Unsent
    <3>6. QED
      BY <3>1, <3>2, <3>3, <3>4, <3>5 DEF SlicesInv, FlowInv
  <2>4. QED
    BY <2>1, <2>2, <2>3, CrashStep, RestartStep DEF Next
<1>3. QED
  BY <1>1, <1>2, PTL DEF Spec

\* Types, with where a rank may be in the loop and the contents of a message
THEOREM SlicesTypeCorrect == Spec => []SlicesTypeOK
BY SlicesInvariance, PTL DEF SlicesInv

(***************************************************************************)
(* No message is taken in another slice than the one it was sent in, and   *)
(* no rank is asked for a block it does not have, for any number of ranks  *)
(* and slices: what the barrier of compute_lines and the collectives of    *)
(* toplevel.cc:350 and io.cc wait for is enough.                           *)
(***************************************************************************)
THEOREM MessagesStayInSlice == Spec => []MessagesMeetTheirSlice
<1>1. SlicesInv => MessagesMeetTheirSlice
  BY MessagesMeet, Types, Places DEF SlicesInv, FlowInv, MessagesMeetTheirSlice
<1>2. QED
  BY <1>1, SlicesInvariance, PTL

(***************************************************************************)
(* The header of a file is not written before the blocks of every rank     *)
(* are, for any number of ranks, although only a reduction orders the two  *)
(* (io.cc:298).                                                            *)
(***************************************************************************)
THEOREM HeaderWaitsForBlocks == Spec => []HeaderAfterBlocks
BY SlicesInvariance, PTL DEF SlicesInv, FileInv
-----------------------------------------------------------------------------
(***************************************************************************)
(* What a slice is divided by.  From here on the loop does not occur, only *)
(* functions that need no table, for every input: ranges of loops, the     *)
(* reading of blobs, pseudorandom permutations, and the random partition.  *)
(***************************************************************************)
\* A nonempty set of naturals has a least element
LEMMA LeastOf ==
  ASSUME NEW S \in SUBSET Nat, S # {}
  PROVE  \E m \in S : \A k \in S : m <= k
<1> DEFINE Below == {ss \in Nat \X Nat : ss[1] < ss[2]}
<1>1. IsWellFoundedOn(Below, Nat)
  BY NatLessThanWellFounded DEF OpToRel
<1> HIDE DEF Below
<1>2. PICK m \in S : \A k \in S : ~(<<k, m>> \in Below)
  BY <1>1, WFMin
<1>3. \A k \in S : ~(k < m)
  BY <1>2 DEF Below
<1>4. QED
  BY <1>3

\* What is computed in m steps, each from the one before
InSteps(f, X, m, base, next) ==
  f \in [0 .. m -> X] /\ f[0] = base /\ \A n \in 1 .. m : f[n] = next[n][f[n - 1]]

LEMMA Recursion ==
  ASSUME NEW X, NEW m \in Nat, NEW base \in X, NEW next \in [1 .. m -> [X -> X]]
  PROVE  \E f : InSteps(f, X, m, base, next)
<1> DEFINE Makes(f, k) == /\ f \in [0 .. k -> X] /\ f[0] = base
                          /\ \A n \in 1 .. k : f[n] = next[n][f[n - 1]]
           Bad == {k \in 0 .. m : ~ \E f : Makes(f, k)}
<1>1. SUFFICES ASSUME Bad # {} PROVE FALSE
  <2>1. m \in 0 .. m
    OBVIOUS
  <2>2. \E f : Makes(f, m)
    BY <2>1
  <2>3. QED
    BY <2>2 DEF InSteps
<1>2. PICK k \in Bad : \A j \in Bad : k <= j
  <2>1. Bad \in SUBSET Nat
    OBVIOUS
  <2> HIDE DEF Bad
  <2>2. QED
    BY <1>1, <2>1, LeastOf
<1>3. k # 0
  <2> SUFFICES ASSUME k = 0 PROVE FALSE
    OBVIOUS
  <2>1. Makes([n \in 0 .. 0 |-> base], 0)
    OBVIOUS
  <2> HIDE DEF Makes
  <2>2. QED
    BY <1>2, <2>1
<1>4. k \in 1 .. m /\ k - 1 \in 0 .. m /\ ~(k <= k - 1)
  <2> HIDE DEF Makes
  <2> QED
    BY <1>2, <1>3
<1>5. PICK f : Makes(f, k - 1)
  <2> HIDE DEF Makes
  <2> QED
    BY <1>2, <1>4
<1> DEFINE g == [n \in 0 .. k |-> IF n = k THEN next[k][f[k - 1]] ELSE f[n]]
<1>6. next[k] \in [X -> X] /\ f[k - 1] \in X
  <2>1. k - 1 \in 0 .. k - 1
    BY <1>4
  <2>2. QED
    BY <1>4, <1>5, <2>1
<1>7. \A n \in 0 .. k : n # k => n \in 0 .. k - 1
  BY <1>4
<1>8. g \in [0 .. k -> X]
  BY <1>5, <1>6, <1>7
<1>9. g[0] = base
  BY <1>4, <1>5
<1>10. ASSUME NEW n \in 1 .. k PROVE g[n] = next[n][g[n - 1]]
  <2>1. n \in 0 .. k /\ n - 1 \in 0 .. k /\ n - 1 # k
    BY <1>4
  <2>2. g[n - 1] = f[n - 1]
    BY <2>1
  <2>3. CASE n = k
    BY <2>1, <2>2, <2>3
  <2>4. CASE n # k
    <3>1. n \in 1 .. k - 1
      BY <1>4, <2>4
    <3>2. g[n] = f[n]
      BY <2>1, <2>4
    <3> HIDE DEF g
    <3>3. QED
      BY <1>5, <2>2, <3>1, <3>2
  <2>5. QED
    BY <2>3, <2>4
<1>11. Makes(g, k)
  <2> HIDE DEF g
  <2> QED
    BY <1>8, <1>9, <1>10
<1>12. QED
  <2> HIDE DEF Makes, g
  <2> QED
    BY <1>2, <1>11

\* The greatest of a set
LEMMA MaxIs ==
  ASSUME NEW b \in Nat, NEW S \in SUBSET (0 .. b), S # {}
  PROVE  Max(S) \in S /\ \A x \in S : x <= Max(S)
<1> DEFINE Above == {u \in 0 .. b : \A x \in S : x <= u}
<1>1. PICK u \in Above : \A y \in Above : u <= y
  <2>1. Above \in SUBSET Nat /\ b \in Above
    OBVIOUS
  <2> HIDE DEF Above
  <2>2. QED
    BY <2>1, LeastOf
<1>2. u \in 0 .. b /\ \A x \in S : x <= u
  BY <1>1
<1>3. u \in S
  <2> SUFFICES ASSUME u \notin S PROVE FALSE
    OBVIOUS
  <2>1. PICK x \in S : x < u
    <3>1. PICK x \in S : TRUE
      OBVIOUS
    <3>2. x \in 0 .. b /\ x # u /\ x <= u
      BY <1>2, <3>1
    <3>3. QED
      BY <1>2, <3>2
  <2>2. u - 1 \in 0 .. b
    BY <1>2, <2>1
  <2>3. ASSUME NEW y \in S PROVE y <= u - 1
    <3>1. y \in 0 .. b /\ y # u /\ y <= u
      BY <1>2
    <3>2. QED
      BY <1>2, <3>1
  <2>4. u - 1 \in Above
    BY <2>2, <2>3
  <2>5. ~(u <= u - 1)
    BY <1>2
  <2>6. QED
    BY <1>1, <2>4, <2>5
<1>4. Max(S) \in S /\ \A y \in S : Max(S) >= y
  <2>1. \A y \in S : u >= y
    BY <1>2
  <2>2. QED
    BY <1>3, <2>1 DEF Max
<1>5. QED
  BY <1>4

-----------------------------------------------------------------------------
(***************************************************************************)
(* Loops cut into ranges, and blobs read from a file that many ranks hold. *)
(***************************************************************************)
LEMMA Divided ==
  ASSUME NEW n \in Nat, NEW d \in Nat, d > 0
  PROVE  /\ n \div d \in Nat /\ n % d \in 0 .. d - 1
         /\ n = d * (n \div d) + (n % d)
  BY Z3

LEMMA QuotientIs ==
  ASSUME NEW n \in Nat, NEW d \in Nat, NEW q \in Nat, d * q <= n, n < d * q + d
  PROVE  n \div d = q
  BY Z3

LEMMA ProductGrows ==
  ASSUME NEW a \in Nat, NEW b \in Nat, NEW c \in Nat
  PROVE  /\ a <= b => c * a <= c * b
         /\ c * a < c * b => a < b
         /\ c * (a + b) = c * a + c * b
         /\ c * (a + 1) = c * a + c
         /\ (c + 1) * a = c * a + a
         /\ c * a = a * c /\ c * a \in Nat
         /\ c * 0 = 0
  BY Z3

\* Where a thread's range begins
LoopStart(steps, threads, t) == (steps \div threads) * t + (IF t <= steps % threads THEN t ELSE steps % threads)

LEMMA LeastOfTwo ==
  ASSUME NEW a \in Nat, NEW b \in Nat
  PROVE  Min({a, b}) = IF b <= a THEN b ELSE a
<1> DEFINE m == IF b <= a THEN b ELSE a
<1>1. m \in {a, b} /\ \A y \in {a, b} : m <= y
  OBVIOUS
<1>2. \A z \in {a, b} : (\A y \in {a, b} : z <= y) => z = m
  OBVIOUS
<1>3. (CHOOSE x \in {a, b} : \A y \in {a, b} : x <= y) = m
  <2> HIDE DEF m
  <2>1. \E x \in {a, b} : \A y \in {a, b} : x <= y
    BY <1>1
  <2> QED
    BY <2>1, <1>2
<1> QED
  BY <1>3 DEF Min

LEMMA LoopRangeIs ==
  ASSUME NEW steps \in Nat, NEW threads \in Nat, threads > 0, NEW t \in Nat
  PROVE  /\ partition_loop(steps, threads, t) = [lo |-> LoopStart(steps, threads, t), hi |-> LoopStart(steps, threads, t + 1)]
         /\ LoopStart(steps, threads, t) \in Nat
         /\ LoopStart(steps, threads, t + 1) - LoopStart(steps, threads, t)
              = (steps \div threads) + (IF t < steps % threads THEN 1 ELSE 0)
<1>1. steps \div threads \in Nat /\ steps % threads \in Nat
  BY Divided
<1>2. PICK e \in Nat, x \in Nat : e = steps \div threads /\ x = steps % threads
  BY <1>1
<1>3. e * (t + 1) = e * t + e /\ e * t \in Nat
  BY ProductGrows
<1>4. PICK p \in Nat : p = e * t
  BY <1>3
<1>5. Min({x, t}) = IF t <= x THEN t ELSE x
  BY LeastOfTwo
<1>6. LoopStart(steps, threads, t) = p + (IF t <= x THEN t ELSE x)
  BY <1>2, <1>4 DEF LoopStart
<1>7. LoopStart(steps, threads, t + 1) = p + e + (IF t + 1 <= x THEN t + 1 ELSE x)
  BY <1>2, <1>3, <1>4 DEF LoopStart
<1>8. LoopStart(steps, threads, t + 1) = LoopStart(steps, threads, t) + e + (IF t < x THEN 1 ELSE 0)
  BY <1>6, <1>7
<1>9. partition_loop(steps, threads, t)
        = [lo |-> p + Min({x, t}), hi |-> p + Min({x, t}) + e + (IF t < x THEN 1 ELSE 0)]
  BY <1>2, <1>4 DEF partition_loop
<1> QED
  BY <1>2, <1>5, <1>6, <1>8, <1>9

LEMMA RangesAre ==
  ASSUME NEW steps \in Nat, NEW threads \in Nat, threads > 0
  PROVE  \A t \in Nat : /\ partition_loop(steps, threads, t) = [lo |-> LoopStart(steps, threads, t), hi |-> LoopStart(steps, threads, t + 1)]
                        /\ LoopStart(steps, threads, t) \in Nat
<1> TAKE t \in Nat
<1> QED
  BY LoopRangeIs

LEMMA RangesGrow ==
  ASSUME NEW steps \in Nat, NEW threads \in Nat, threads > 0
  PROVE  \E each \in Nat, extra \in Nat : \A t \in Nat :
           LoopStart(steps, threads, t + 1) - LoopStart(steps, threads, t) = each + (IF t < extra THEN 1 ELSE 0)
<1>1. steps \div threads \in Nat /\ steps % threads \in Nat
  BY Divided
<1>2. PICK each \in Nat, extra \in Nat : each = steps \div threads /\ extra = steps % threads
  BY <1>1
<1>3. ASSUME NEW t \in Nat
      PROVE  LoopStart(steps, threads, t + 1) - LoopStart(steps, threads, t) = each + (IF t < extra THEN 1 ELSE 0)
  <2>1. LoopStart(steps, threads, t + 1) - LoopStart(steps, threads, t)
          = (steps \div threads) + (IF t < steps % threads THEN 1 ELSE 0)
    BY LoopRangeIs
  <2> QED
    BY <2>1, <1>2
<1> QED
  BY <1>3

LEMMA RangesRise ==
  ASSUME NEW steps \in Nat, NEW threads \in Nat, threads > 0, NEW t \in Nat, NEW u \in Nat, t <= u
  PROVE  LoopStart(steps, threads, t) <= LoopStart(steps, threads, u)
<1>1. steps \div threads \in Nat /\ steps % threads \in Nat
  BY Divided
<1>2. PICK e \in Nat, x \in Nat : e = steps \div threads /\ x = steps % threads
  BY <1>1
<1>3. e * t <= e * u /\ e * t \in Nat /\ e * u \in Nat
  BY ProductGrows
<1>4. PICK p \in Nat, q \in Nat : p = e * t /\ q = e * u
  BY <1>3
<1> QED
  BY <1>2, <1>3, <1>4 DEF LoopStart

LEMMA LoopEnds ==
  ASSUME NEW steps \in Nat, NEW threads \in Nat, threads > 0
  PROVE  LoopStart(steps, threads, 0) = 0 /\ LoopStart(steps, threads, threads) = steps
<1>1. /\ steps \div threads \in Nat /\ steps % threads \in 0 .. threads - 1
      /\ steps = threads * (steps \div threads) + (steps % threads)
  BY Divided
<1>2. PICK e \in Nat, x \in Nat : e = steps \div threads /\ x = steps % threads
  BY <1>1
<1>3. e * 0 = 0 /\ e * threads = threads * e /\ e * threads \in Nat
  BY ProductGrows
<1>4. PICK p \in Nat : p = e * threads
  BY <1>3
<1>5. LoopStart(steps, threads, 0) = 0
  BY <1>2, <1>3 DEF LoopStart
<1>6. steps = p + x /\ x < threads
  BY <1>1, <1>2, <1>3, <1>4
<1>7. LoopStart(steps, threads, threads) = p + x
  BY <1>2, <1>4, <1>6 DEF LoopStart
<1> QED
  BY <1>5, <1>6, <1>7

\* The thread partition_loop_inverse names has the step
LEMMA InverseFinds ==
  ASSUME NEW steps \in Nat, NEW threads \in Nat, threads > 0, NEW i \in 0 .. steps - 1,
         NEW t, t = partition_loop_inverse(steps, threads, i)
  PROVE  t \in 0 .. threads - 1 /\ LoopStart(steps, threads, t) <= i /\ i < LoopStart(steps, threads, t + 1)
<1>1. /\ steps \div threads \in Nat /\ steps % threads \in 0 .. threads - 1
      /\ steps = threads * (steps \div threads) + (steps % threads)
  BY Divided
<1>2. PICK e \in Nat, x \in Nat : e = steps \div threads /\ x = steps % threads
  BY <1>1
<1>3. threads * e = e * threads /\ e * threads \in Nat /\ e * x \in Nat /\ (e + 1) * x = e * x + x /\ (e + 1) * x \in Nat
  BY ProductGrows
<1>4. PICK h \in Nat : h = (e + 1) * x
  BY <1>3
<1>5. t = IF i < h THEN i \div (e + 1) ELSE x + ((i - h) \div e)
  BY <1>2, <1>4 DEF partition_loop_inverse
<1>6. i \in Nat /\ i < steps /\ x < threads /\ steps = e * threads + x
  BY <1>1, <1>2, <1>3
<1>7. CASE i < h
  <2>1. PICK q \in Nat : q = i \div (e + 1)
    BY <1>6, Divided
  <2>2. PICK r \in 0 .. e : i = (e + 1) * q + r
    <3>1. i = (e + 1) * (i \div (e + 1)) + (i % (e + 1)) /\ i % (e + 1) \in 0 .. (e + 1) - 1
      BY <1>6, Divided
    <3> QED
      BY <3>1, <2>1
  <2>3. (e + 1) * q \in Nat /\ ((e + 1) * q < (e + 1) * x => q < x) /\ (e + 1) * q = e * q + q /\ e * q \in Nat
    BY ProductGrows
  <2>4. (e + 1) * q < (e + 1) * x
    BY <2>2, <2>3, <1>7, <1>4
  <2>5. q < x
    BY <2>3, <2>4
  <2>6. e * (q + 1) = e * q + e
    BY ProductGrows
  <2>7. PICK p \in Nat : p = e * q
    BY <2>3
  <2>8. LoopStart(steps, threads, q) = p + q
    BY <1>2, <2>5, <2>7 DEF LoopStart
  <2>9. LoopStart(steps, threads, q + 1) = p + e + q + 1
    BY <1>2, <2>5, <2>6, <2>7 DEF LoopStart
  <2>10. i = p + q + r
    BY <2>2, <2>3, <2>7
  <2>11. t = q
    BY <1>5, <1>7, <2>1
  <2> QED
    BY <2>5, <2>8, <2>9, <2>10, <2>11, <1>6
<1>8. CASE ~(i < h)
  <2>1. PICK k \in Nat : k = i - h
    BY <1>8, <1>6
  <2>2. e * x + k < e * threads
    BY <2>1, <1>3, <1>4, <1>6
  <2>3. e > 0
    <3>1. CASE e = 0
      <4>1. 0 * x = 0 /\ 0 * threads = 0
        OBVIOUS
      <4> QED
        BY <4>1, <3>1, <2>2
    <3> QED
      BY <3>1
  <2>4. PICK q \in Nat : q = k \div e
    BY <2>3, Divided
  <2>5. PICK r \in 0 .. e - 1 : k = e * q + r
    BY <2>3, <2>4, Divided
  <2>6. e * (x + q) = e * x + e * q /\ (e * (x + q) < e * threads => x + q < threads) /\ e * q \in Nat /\ e * (x + q + 1) = e * (x + q) + e
    <3>1. x + q \in Nat
      OBVIOUS
    <3> QED
      BY <3>1, ProductGrows
  <2>7. x + q < threads
    BY <2>2, <2>5, <2>6
  <2>8. PICK p \in Nat, w \in Nat : p = e * q /\ w = e * x
    BY <2>6, <1>3
  <2>9. LoopStart(steps, threads, x + q) = w + p + x
    BY <1>2, <2>6, <2>8 DEF LoopStart
  <2>10. LoopStart(steps, threads, x + q + 1) = w + p + e + x
    BY <1>2, <2>6, <2>8 DEF LoopStart
  <2>11. i = w + x + p + r
    BY <2>1, <2>5, <2>8, <1>3, <1>4
  <2>12. t = x + q
    BY <1>5, <1>8, <2>1, <2>4
  <2> QED
    BY <2>7, <2>9, <2>10, <2>11, <2>12
<1> QED
  BY <1>7, <1>8

\* A loop of any length cut for any number of threads: the ranges follow one another
\* from the first step to the last, differ in length by one at most, and
\* partition_loop_inverse names the one thread that has a step (range.cc)
THEOREM LoopsDivideEvenly ==
  ASSUME NEW steps \in Nat, NEW threads \in Nat \ {0}
  PROVE  /\ partition_loop(steps, threads, 0).lo = 0
         /\ partition_loop(steps, threads, threads - 1).hi = steps
         /\ \A t \in 1 .. threads - 1 : partition_loop(steps, threads, t).lo = partition_loop(steps, threads, t - 1).hi
         /\ \A t, u \in 0 .. threads - 1 :
              Length(partition_loop(steps, threads, t)) - Length(partition_loop(steps, threads, u)) \in -1 .. 1
         /\ \A i \in 0 .. steps - 1, t \in 0 .. threads - 1 :
              i \in In(partition_loop(steps, threads, t)) <=> t = partition_loop_inverse(steps, threads, i)
         /\ \A i \in 0 .. steps - 1 : partition_loop_inverse(steps, threads, i) \in 0 .. threads - 1
<1> DEFINE S(t) == LoopStart(steps, threads, t)
           P(t) == partition_loop(steps, threads, t)
<1>1. \A t \in Nat : /\ P(t) = [lo |-> S(t), hi |-> S(t + 1)]
                     /\ S(t) \in Nat
                     /\ S(t + 1) - S(t) = (steps \div threads) + (IF t < steps % threads THEN 1 ELSE 0)
  <2> TAKE t \in Nat
  <2>1. threads \in Nat /\ threads > 0
    OBVIOUS
  <2> HIDE DEF P, S
  <2>2. /\ partition_loop(steps, threads, t) = [lo |-> LoopStart(steps, threads, t), hi |-> LoopStart(steps, threads, t + 1)]
        /\ LoopStart(steps, threads, t) \in Nat
        /\ LoopStart(steps, threads, t + 1) - LoopStart(steps, threads, t)
             = (steps \div threads) + (IF t < steps % threads THEN 1 ELSE 0)
    BY <2>1, LoopRangeIs
  <2> QED
    BY <2>2 DEF P, S
<1>2. \A t, u \in Nat : t <= u => S(t) <= S(u)
  BY RangesRise
<1>3. S(0) = 0 /\ S(threads) = steps
  BY LoopEnds
<1>4. steps \div threads \in Nat /\ steps % threads \in Nat
  BY Divided
<1>5. \A i \in 0 .. steps - 1 :
        LET t == partition_loop_inverse(steps, threads, i) IN t \in 0 .. threads - 1 /\ S(t) <= i /\ i < S(t + 1)
  BY InverseFinds
<1> HIDE DEF S
<1>6. P(0).lo = 0
  BY <1>1, <1>3
<1>7. P(threads - 1).hi = steps
  <2>1. threads - 1 \in Nat /\ threads - 1 + 1 = threads
    OBVIOUS
  <2>2. P(threads - 1).hi = S(threads - 1 + 1)
    BY <1>1, <2>1
  <2> QED
    BY <2>1, <2>2, <1>3
<1>8. \A t \in 1 .. threads - 1 : P(t).lo = P(t - 1).hi
  <2> SUFFICES ASSUME NEW t \in 1 .. threads - 1 PROVE P(t).lo = P(t - 1).hi
    OBVIOUS
  <2>1. t - 1 \in Nat /\ t \in Nat /\ t - 1 + 1 = t
    OBVIOUS
  <2>2. P(t - 1).hi = S(t - 1 + 1) /\ P(t).lo = S(t)
    BY <1>1, <2>1
  <2> QED
    BY <2>1, <2>2
<1>9. \A t \in 0 .. threads - 1 : Length(P(t)) \in {steps \div threads, (steps \div threads) + 1}
  <2> SUFFICES ASSUME NEW t \in 0 .. threads - 1 PROVE Length(P(t)) \in {steps \div threads, (steps \div threads) + 1}
    OBVIOUS
  <2>1. t \in Nat
    OBVIOUS
  <2>2. Length(P(t)) = S(t + 1) - S(t)
    BY <1>1, <2>1 DEF Length
  <2>3. PICK e \in Nat, x \in Nat : e = steps \div threads /\ x = steps % threads
    BY <1>4
  <2>4. S(t + 1) - S(t) = e + (IF t < x THEN 1 ELSE 0)
    BY <1>1, <2>1, <2>3
  <2> QED
    BY <2>2, <2>3, <2>4
<1>10. \A t, u \in 0 .. threads - 1 : Length(P(t)) - Length(P(u)) \in -1 .. 1
  <2> HIDE DEF P
  <2>1. PICK e \in Nat : e = steps \div threads
    BY <1>4
  <2> QED
    BY <2>1, <1>9
<1>11. \A i \in 0 .. steps - 1, t \in 0 .. threads - 1 :
         i \in In(P(t)) <=> t = partition_loop_inverse(steps, threads, i)
  <2> SUFFICES ASSUME NEW i \in 0 .. steps - 1, NEW t \in 0 .. threads - 1
               PROVE  i \in In(P(t)) <=> t = partition_loop_inverse(steps, threads, i)
    OBVIOUS
  <2>1. PICK u \in 0 .. threads - 1 : u = partition_loop_inverse(steps, threads, i) /\ S(u) <= i /\ i < S(u + 1)
    BY <1>5
  <2>2. t \in Nat /\ u \in Nat /\ t + 1 \in Nat /\ u + 1 \in Nat
    OBVIOUS
  <2>3. S(t) \in Nat /\ S(u) \in Nat /\ S(t + 1) \in Nat /\ S(u + 1) \in Nat
    BY <1>1, <2>2
  <2>4. In(P(t)) = S(t) .. S(t + 1) - 1
    BY <1>1, <2>2 DEF In
  <2>5. i \in In(P(t)) <=> S(t) <= i /\ i < S(t + 1)
    BY <2>3, <2>4
  <2>6. t < u => S(t + 1) <= S(u)
    BY <1>2, <2>2
  <2>7. u < t => S(u + 1) <= S(t)
    BY <1>2, <2>2
  <2>8. t = u \/ t < u \/ u < t
    BY <2>2
  <2> QED
    BY <2>1, <2>3, <2>5, <2>6, <2>7, <2>8
<1>12. \A i \in 0 .. steps - 1 : partition_loop_inverse(steps, threads, i) \in 0 .. threads - 1
  BY <1>5
<1> QED
  BY <1>6, <1>7, <1>8, <1>10, <1>11, <1>12

LEMMA GreatestOfTwo ==
  ASSUME NEW a \in Nat, NEW b \in Nat
  PROVE  Max({a, b}) = IF a <= b THEN b ELSE a
<1> DEFINE m == IF a <= b THEN b ELSE a
<1>1. m \in {a, b} /\ \A y \in {a, b} : m >= y
  OBVIOUS
<1>2. \A z \in {a, b} : (\A y \in {a, b} : z >= y) => z = m
  OBVIOUS
<1>3. (CHOOSE x \in {a, b} : \A y \in {a, b} : x >= y) = m
  <2> HIDE DEF m
  <2>1. \E x \in {a, b} : \A y \in {a, b} : x >= y
    BY <1>1
  <2> QED
    BY <2>1, <1>2
<1> QED
  BY <1>3 DEF Max

\* Who has a step of a loop
LEMMA StepOwner ==
  ASSUME NEW steps \in Nat, NEW threads \in Nat \ {0}, NEW i \in 0 .. steps - 1
  PROVE  \E t \in 0 .. threads - 1 :
           /\ t = partition_loop_inverse(steps, threads, i)
           /\ LoopStart(steps, threads, t) <= i /\ i < LoopStart(steps, threads, t + 1)
           /\ \A u \in Nat : LoopStart(steps, threads, u) <= i /\ i < LoopStart(steps, threads, u + 1) => u = t
<1> DEFINE S(t) == LoopStart(steps, threads, t)
<1>0. threads \in Nat /\ threads > 0
  OBVIOUS
<1>1. PICK t \in 0 .. threads - 1 : t = partition_loop_inverse(steps, threads, i) /\ S(t) <= i /\ i < S(t + 1)
  BY <1>0, InverseFinds
<1>2. \A u \in Nat : S(u) \in Nat
  BY <1>0, LoopRangeIs
<1>3. \A u, v \in Nat : u <= v => S(u) <= S(v)
  BY <1>0, RangesRise
<1> HIDE DEF S
<1>4. \A u \in Nat : S(u) <= i /\ i < S(u + 1) => u = t
  <2> SUFFICES ASSUME NEW u \in Nat, S(u) <= i, i < S(u + 1) PROVE u = t
    OBVIOUS
  <2>1. t \in Nat /\ t + 1 \in Nat /\ u + 1 \in Nat
    OBVIOUS
  <2>2. S(t) \in Nat /\ S(u) \in Nat /\ S(t + 1) \in Nat /\ S(u + 1) \in Nat
    BY <1>2, <2>1
  <2>3. t < u => S(t + 1) <= S(u)
    BY <1>3, <2>1
  <2>4. u < t => S(u + 1) <= S(t)
    BY <1>3, <2>1
  <2> QED
    BY <2>1, <2>2, <2>3, <2>4, <1>1
<1> QED
  BY <1>1, <1>4 DEF S

\* Of which ranks does t alone have byte i
AloneHas(total, ranks, t, i) ==
  /\ LoopStart(total, ranks, t) <= i /\ i < LoopStart(total, ranks, t + 1)
  /\ \A u \in Nat : LoopStart(total, ranks, u) <= i /\ i < LoopStart(total, ranks, u + 1) => u = t

LEMMA OneHas ==
  ASSUME NEW total \in Nat, NEW ranks \in Nat \ {0}
  PROVE  \A i \in 0 .. total - 1 : \E t \in 0 .. ranks - 1 : AloneHas(total, ranks, t, i)
<1> TAKE i \in 0 .. total - 1
<1> QED
  BY StepOwner DEF AloneHas

\* One piece of a blob, from the rank t
Piece(total, ranks, lo, hi, t) ==
  LET from == IF LoopStart(total, ranks, t) <= lo THEN lo ELSE LoopStart(total, ranks, t)
      end == IF hi <= LoopStart(total, ranks, t + 1) THEN hi ELSE LoopStart(total, ranks, t + 1)
  IN [rank |-> t, to |-> from - lo, from |-> from - LoopStart(total, ranks, t), size |-> end - from]

\* The ranks a and b have its first and its last byte
AreParts(total, ranks, lo, hi, blob, a, b) ==
  /\ a = partition_loop_inverse(total, ranks, lo)
  /\ b = partition_loop_inverse(total, ranks, hi - 1)
  /\ a <= b
  /\ Gets(total, ranks, blob) = [i \in 1 .. b - a + 1 |-> Piece(total, ranks, lo, hi, a + i - 1)]
  /\ Range(Gets(total, ranks, blob)) = {Piece(total, ranks, lo, hi, t) : t \in a .. b}

LEMMA PiecesAre ==
  ASSUME NEW total \in Nat, NEW ranks \in Nat \ {0}, NEW blob,
         NEW lo \in Nat, NEW hi \in Nat, lo < hi, hi <= total, blob.offset = lo, blob.offset + blob.size = hi
  PROVE  \E a \in Nat, b \in Nat : a < ranks /\ b < ranks /\ AreParts(total, ranks, lo, hi, blob, a, b)
<1> DEFINE S(t) == LoopStart(total, ranks, t)
<1>0. ranks \in Nat /\ ranks > 0 /\ lo \in 0 .. total - 1 /\ hi - 1 \in 0 .. total - 1
  OBVIOUS
<1>1. PICK a \in 0 .. ranks - 1 : /\ a = partition_loop_inverse(total, ranks, lo) /\ S(a) <= lo /\ lo < S(a + 1)
  BY <1>0, StepOwner
<1>2. PICK b \in 0 .. ranks - 1 : /\ b = partition_loop_inverse(total, ranks, hi - 1) /\ S(b) <= hi - 1 /\ hi - 1 < S(b + 1)
  BY <1>0, StepOwner
<1>3. \A t \in Nat : partition_loop(total, ranks, t) = [lo |-> S(t), hi |-> S(t + 1)] /\ S(t) \in Nat
  BY <1>0, LoopRangeIs
<1>4. \A u, v \in Nat : u <= v => S(u) <= S(v)
  BY <1>0, RangesRise
<1>5. a <= b
  <2> HIDE DEF S
  <2>1. a \in Nat /\ b \in Nat /\ a + 1 \in Nat /\ b + 1 \in Nat
    OBVIOUS
  <2>2. S(a) \in Nat /\ S(b) \in Nat /\ S(b + 1) \in Nat
    BY <1>3, <2>1
  <2>3. b < a => S(b + 1) <= S(a)
    BY <1>4, <2>1
  <2> QED
    BY <2>1, <2>2, <2>3, <1>1, <1>2
<1> DEFINE Q(t) == LET part == partition_loop(total, ranks, t)
                       from == Max({lo, part.lo})
                   IN [rank |-> t, to |-> from - lo, from |-> from - part.lo, size |-> Min({hi, part.hi}) - from]
<1>6. \A t \in Nat : Q(t) = Piece(total, ranks, lo, hi, t)
  <2> TAKE t \in Nat
  <2>1. PICK s \in Nat, e \in Nat : s = S(t) /\ e = S(t + 1)
    <3>1. t + 1 \in Nat
      OBVIOUS
    <3> QED
      BY <1>3, <3>1
  <2>2. partition_loop(total, ranks, t) = [lo |-> s, hi |-> e]
    BY <1>3, <2>1
  <2>3. Max({lo, s}) = IF lo <= s THEN s ELSE lo
    BY GreatestOfTwo
  <2>4. Min({hi, e}) = IF e <= hi THEN e ELSE hi
    BY LeastOfTwo
  <2>5. Q(t) = [rank |-> t, to |-> Max({lo, s}) - lo, from |-> Max({lo, s}) - s, size |-> Min({hi, e}) - Max({lo, s})]
    BY <2>2
  <2>6. (IF lo <= s THEN s ELSE lo) = (IF s <= lo THEN lo ELSE s) /\ (IF e <= hi THEN e ELSE hi) = (IF hi <= e THEN hi ELSE e)
    OBVIOUS
  <2> QED
    BY <2>1, <2>3, <2>4, <2>5, <2>6 DEF Piece
<1>7. Gets(total, ranks, blob) = [i \in 1 .. b - a + 1 |-> Q(a + i - 1)]
  BY <1>1, <1>2 DEF Gets
<1> HIDE DEF Q, S
<1>8. \A i \in 1 .. b - a + 1 : a + i - 1 \in Nat
  OBVIOUS
<1>9. Gets(total, ranks, blob) = [i \in 1 .. b - a + 1 |-> Piece(total, ranks, lo, hi, a + i - 1)]
  BY <1>6, <1>7, <1>8
<1>10. Range(Gets(total, ranks, blob)) = {Piece(total, ranks, lo, hi, t) : t \in a .. b}
  <2>1. Range(Gets(total, ranks, blob)) = {Piece(total, ranks, lo, hi, a + i - 1) : i \in 1 .. b - a + 1}
    BY <1>9 DEF Range
  <2>2. \A i \in 1 .. b - a + 1 : a + i - 1 \in a .. b
    OBVIOUS
  <2>3. \A t \in a .. b : t - a + 1 \in 1 .. b - a + 1 /\ a + (t - a + 1) - 1 = t
    OBVIOUS
  <2>4. \A t \in a .. b : \E i \in 1 .. b - a + 1 : t = a + i - 1
    BY <2>3
  <2> QED
    BY <2>1, <2>2, <2>4
<1>11. AreParts(total, ranks, lo, hi, blob, a, b)
  BY <1>1, <1>2, <1>5, <1>9, <1>10 DEF AreParts
<1>12. a \in Nat /\ b \in Nat /\ a < ranks /\ b < ranks
  OBVIOUS
<1> QED
  BY <1>11, <1>12

\* What one rank of those that have bytes of a blob gives of it
IsPart(total, ranks, lo, hi, t, s, e, f, g) ==
  /\ s = LoopStart(total, ranks, t) /\ e = LoopStart(total, ranks, t + 1)
  /\ partition_loop(total, ranks, t) = [lo |-> s, hi |-> e]
  /\ Piece(total, ranks, lo, hi, t) = [rank |-> t, to |-> f - lo, from |-> f - s, size |-> g - f]
  /\ s < hi /\ lo < e /\ f < g
  /\ f = (IF s <= lo THEN lo ELSE s) /\ g = IF hi <= e THEN hi ELSE e

LEMMA PieceIs ==
  ASSUME NEW total \in Nat, NEW ranks \in Nat \ {0}, NEW lo \in Nat, NEW hi \in Nat, lo < hi, hi <= total,
         NEW a \in Nat, NEW b \in Nat, a < ranks, b < ranks, NEW t \in Nat, a <= t, t <= b,
         a = partition_loop_inverse(total, ranks, lo), b = partition_loop_inverse(total, ranks, hi - 1)
  PROVE  \E s \in Nat, e \in Nat, f \in Nat, g \in Nat : IsPart(total, ranks, lo, hi, t, s, e, f, g)
<1>0. /\ ranks \in Nat /\ ranks > 0 /\ lo \in 0 .. total - 1 /\ hi - 1 \in 0 .. total - 1
      /\ t \in Nat /\ t + 1 \in Nat /\ a \in Nat /\ a + 1 \in Nat /\ b \in Nat /\ b + 1 \in Nat /\ t <= b /\ a <= t
  OBVIOUS
<1>1. \A u \in Nat : /\ partition_loop(total, ranks, u) = [lo |-> LoopStart(total, ranks, u), hi |-> LoopStart(total, ranks, u + 1)]
                     /\ LoopStart(total, ranks, u) \in Nat
  BY <1>0, RangesAre
<1>2. \A u, v \in Nat : u <= v => LoopStart(total, ranks, u) <= LoopStart(total, ranks, v)
  BY <1>0, RangesRise
<1>3. PICK s \in Nat, e \in Nat : s = LoopStart(total, ranks, t) /\ e = LoopStart(total, ranks, t + 1)
  BY <1>0, <1>1
<1>4. PICK sb \in Nat, eb \in Nat : sb = LoopStart(total, ranks, b) /\ eb = LoopStart(total, ranks, b + 1)
  BY <1>0, <1>1
<1>5. PICK ea \in Nat : ea = LoopStart(total, ranks, a + 1)
  BY <1>0, <1>1
<1>6. lo < ea
  BY <1>0, <1>5, StepOwner
<1>7. sb <= hi - 1 /\ hi - 1 < eb
  <2>1. PICK c \in 0 .. ranks - 1 : /\ c = partition_loop_inverse(total, ranks, hi - 1)
                                    /\ LoopStart(total, ranks, c) <= hi - 1 /\ hi - 1 < LoopStart(total, ranks, c + 1)
    BY <1>0, StepOwner
  <2> QED
    BY <2>1, <1>4
<1>8. s <= sb /\ ea <= e
  <2>1. LoopStart(total, ranks, t) <= LoopStart(total, ranks, b)
    BY <1>0, <1>2
  <2>2. LoopStart(total, ranks, a + 1) <= LoopStart(total, ranks, t + 1)
    <3>1. a + 1 <= t + 1
      BY <1>0
    <3> QED
      BY <1>0, <1>2, <3>1
  <2> QED
    BY <2>1, <2>2, <1>3, <1>4, <1>5
\* The last rank that has a byte of the blob, and all before it, have bytes
<1>9. s < e
  <2>11. PICK k \in Nat, x \in Nat : \A u \in Nat :
           LoopStart(total, ranks, u + 1) - LoopStart(total, ranks, u) = k + (IF u < x THEN 1 ELSE 0)
    BY <1>0, RangesGrow
  <2>2. LoopStart(total, ranks, b + 1) - LoopStart(total, ranks, b) = k + (IF b < x THEN 1 ELSE 0)
    BY <1>0, <2>11
  <2>3. LoopStart(total, ranks, t + 1) - LoopStart(total, ranks, t) = k + (IF t < x THEN 1 ELSE 0)
    BY <1>0, <2>11
  <2>4. eb - sb = k + (IF b < x THEN 1 ELSE 0) /\ e - s = k + (IF t < x THEN 1 ELSE 0)
    BY <2>2, <2>3, <1>3, <1>4
  <2>5. k > 0 \/ b < x
    BY <2>4, <1>7
  <2> QED
    BY <2>4, <2>5, <1>0
<1>10. PICK f \in Nat, g \in Nat : f = (IF s <= lo THEN lo ELSE s) /\ g = IF hi <= e THEN hi ELSE e
  OBVIOUS
<1>11. Piece(total, ranks, lo, hi, t) = [rank |-> t, to |-> f - lo, from |-> f - s, size |-> g - f]
  BY <1>3, <1>10 DEF Piece
<1>12. s < hi /\ lo < e
  BY <1>6, <1>7, <1>8
<1>13. f < g
  BY <1>9, <1>10, <1>12
<1>14. partition_loop(total, ranks, t) = [lo |-> s, hi |-> e]
  BY <1>0, <1>1, <1>3
<1>15. IsPart(total, ranks, lo, hi, t, s, e, f, g)
  BY <1>3, <1>10, <1>11, <1>12, <1>13, <1>14 DEF IsPart
<1> QED
  BY <1>15

ReadWith(data, ranks, blob, total) ==
  LET raw == [r \in 0 .. ranks - 1 |-> LET part == partition_loop(total, ranks, r) IN [i \in 0 .. Length(part) - 1 |-> data[part.lo + i]]]
      gets == Gets(total, ranks, blob)
  IN [k \in 1 .. blob.size |->
       LET g == CHOOSE g \in Range(gets) : k - 1 \in g.to .. g.to + g.size - 1 IN raw[g.rank][g.from + k - 1 - g.to]]

Fetched(total, data, ranks, blob) ==
  /\ \A g \in Range(Gets(total, ranks, blob)) :
       /\ g.rank \in 0 .. ranks - 1 /\ g.size > 0 /\ g.from >= 0
       /\ g.from + g.size <= Length(partition_loop(total, ranks, g.rank))
  /\ Gets(total, ranks, blob)[1].to = 0
  /\ \A i \in 2 .. Len(Gets(total, ranks, blob)) :
       Gets(total, ranks, blob)[i].to = Gets(total, ranks, blob)[i - 1].to + Gets(total, ranks, blob)[i - 1].size
  /\ LET n == Len(Gets(total, ranks, blob)) IN
       n > 0 /\ Gets(total, ranks, blob)[n].to + Gets(total, ranks, blob)[n].size = blob.size
  /\ ReadBlob(data, ranks, blob) = [k \in 1 .. blob.size |-> data[blob.offset + k - 1]]

LEMMA BlobParts ==
  ASSUME NEW total \in Nat, NEW data, DOMAIN data = 0 .. total - 1, NEW ranks \in Nat \ {0},
         NEW lo \in Nat, NEW hi \in Nat, NEW len \in Nat, len > 0, hi = lo + len, hi <= total,
         NEW blob, blob.offset = lo, blob.size = len
  PROVE  Fetched(total, data, ranks, blob)
<1>1. blob.offset = lo /\ blob.size = len /\ hi = lo + len
  OBVIOUS
<1>2. len > 0 /\ lo < hi /\ hi <= total /\ blob.offset + blob.size = hi
  BY <1>1
<1>3. PICK a \in Nat, b \in Nat : a < ranks /\ b < ranks /\ AreParts(total, ranks, lo, hi, blob, a, b)
  BY <1>2, PiecesAre
<1>31. a <= b /\ a = partition_loop_inverse(total, ranks, lo) /\ b = partition_loop_inverse(total, ranks, hi - 1)
  BY <1>3 DEF AreParts
<1>4. ranks \in Nat /\ ranks > 0 /\ lo \in 0 .. total - 1 /\ hi - 1 \in 0 .. total - 1
  BY <1>2
<1> DEFINE P(t) == Piece(total, ranks, lo, hi, t)
           S(t) == LoopStart(total, ranks, t)
           gets == Gets(total, ranks, blob)
<1>6. /\ \A t \in a .. b : t \in Nat /\ t <= b /\ a <= t /\ t \in 0 .. ranks - 1
      /\ \A i \in 1 .. b - a + 1 : a + i - 1 \in a .. b
      /\ b - a + 1 \in Nat /\ b - a + 1 > 0
  <2>1. \A t \in a .. b : t \in Nat /\ t <= b /\ a <= t /\ t \in 0 .. ranks - 1
    BY <1>3, <1>4
  <2>2. b - a + 1 \in Nat /\ b - a + 1 > 0
    BY <1>31
  <2>3. ASSUME NEW i \in 1 .. b - a + 1 PROVE a + i - 1 \in a .. b
    <3>1. i \in Int /\ 1 <= i /\ i <= b - a + 1
      BY <2>2
    <3>2. a + i - 1 \in Int /\ a <= a + i - 1 /\ a + i - 1 <= b
      BY <3>1
    <3> QED
      BY <3>2
  <2> QED
    BY <2>1, <2>2, <2>3
<1>51. ASSUME NEW t \in a .. b
       PROVE  \E s \in Nat, e \in Nat, f \in Nat, g \in Nat : IsPart(total, ranks, lo, hi, t, s, e, f, g)
  <2>1. t \in Nat /\ t <= b /\ a <= t
    BY <1>6
  <2> HIDE DEF P, S, gets
  <2> QED
    BY <1>2, <1>3, <1>31, <2>1, PieceIs
<1>5. \A t \in a .. b : \E s \in Nat, e \in Nat, f \in Nat, g \in Nat :
           /\ s = S(t) /\ e = S(t + 1)
           /\ partition_loop(total, ranks, t) = [lo |-> s, hi |-> e]
           /\ P(t) = [rank |-> t, to |-> f - lo, from |-> f - s, size |-> g - f]
           /\ s < hi /\ lo < e /\ f < g
           /\ f = (IF s <= lo THEN lo ELSE s) /\ g = IF hi <= e THEN hi ELSE e
  BY <1>51 DEF IsPart
<1>7. S(a) <= lo /\ hi - 1 < S(b + 1)
  <2>1. S(a) <= lo
    BY <1>31, <1>4, StepOwner
  <2>2. hi - 1 < S(b + 1)
    BY <1>31, <1>4, StepOwner
  <2> QED
    BY <2>1, <2>2
<1>8. \A i \in 0 .. total - 1 : \E t \in 0 .. ranks - 1 :
        S(t) <= i /\ i < S(t + 1) /\ \A u \in Nat : S(u) <= i /\ i < S(u + 1) => u = t
  BY OneHas DEF AloneHas
<1>9. \A u \in Nat : S(u) \in Nat
  BY <1>4, RangesAre
<1>10. \A u, v \in Nat : u <= v => S(u) <= S(v)
  BY <1>4, RangesRise
<1>11. Cardinality(DOMAIN data) = total
  <2>1. 0 \in Int /\ total - 1 \in Int
    OBVIOUS
  <2>2. Cardinality(0 .. total - 1) = IF 0 > total - 1 THEN 0 ELSE total - 1 - 0 + 1
    BY <2>1, FS_Interval
  <2>3. DOMAIN data = 0 .. total - 1
    OBVIOUS
  <2> QED
    BY <2>2, <2>3
<1> HIDE DEF P, S
<1>12. gets = [i \in 1 .. b - a + 1 |-> P(a + i - 1)] /\ Range(gets) = {P(t) : t \in a .. b}
  BY <1>3 DEF P, AreParts
<1> HIDE DEF gets
<1>13. Len(gets) = b - a + 1 /\ DOMAIN gets = 1 .. b - a + 1 /\ \A i \in 1 .. b - a + 1 : gets[i] = P(a + i - 1)
  BY <1>6, <1>12
<1>14. ASSUME NEW g \in Range(gets)
       PROVE  /\ g.rank \in 0 .. ranks - 1 /\ g.size > 0 /\ g.from >= 0
              /\ g.from + g.size <= Length(partition_loop(total, ranks, g.rank))
  <2>1. PICK t \in a .. b : g = P(t)
    BY <1>12
  <2>20. PICK s \in Nat, e \in Nat, f \in Nat, h \in Nat : IsPart(total, ranks, lo, hi, t, s, e, f, h)
    BY <1>51
  <2>2. /\ partition_loop(total, ranks, t) = [lo |-> s, hi |-> e]
        /\ P(t) = [rank |-> t, to |-> f - lo, from |-> f - s, size |-> h - f]
        /\ f < h /\ f = (IF s <= lo THEN lo ELSE s) /\ h = IF hi <= e THEN hi ELSE e
    BY <2>20 DEF IsPart, S, P
  <2>3. g.rank = t /\ g.size = h - f /\ g.from = f - s
    BY <2>1, <2>2
  <2>4. Length(partition_loop(total, ranks, g.rank)) = e - s
    BY <2>2, <2>3 DEF Length
  <2>5. s <= f /\ h <= e /\ h - f > 0 /\ f - s >= 0 /\ (f - s) + (h - f) <= e - s
    BY <2>2
  <2> QED
    BY <1>6, <2>3, <2>4, <2>5
<1>15. gets[1].to = 0
  <2>1. a \in a .. b /\ a + 1 - 1 = a
    BY <1>3, <1>31
  <2>20. PICK s \in Nat, e \in Nat, f \in Nat, h \in Nat : IsPart(total, ranks, lo, hi, a, s, e, f, h)
    BY <1>51, <2>1
  <2>2. /\ s = S(a) /\ P(a) = [rank |-> a, to |-> f - lo, from |-> f - s, size |-> h - f]
        /\ f = IF s <= lo THEN lo ELSE s
    BY <2>20 DEF IsPart, S, P
  <2>3. f = lo /\ P(a).to = f - lo
    BY <1>7, <2>2
  <2>4. gets[1] = P(a)
    BY <1>6, <1>13, <2>1
  <2> QED
    BY <2>3, <2>4
<1>16. gets[b - a + 1].to + gets[b - a + 1].size = len
  <2>1. b \in a .. b /\ a + (b - a + 1) - 1 = b
    BY <1>3, <1>31
  <2>20. PICK s \in Nat, e \in Nat, f \in Nat, h \in Nat : IsPart(total, ranks, lo, hi, b, s, e, f, h)
    BY <1>51, <2>1
  <2>2. /\ e = S(b + 1) /\ P(b) = [rank |-> b, to |-> f - lo, from |-> f - s, size |-> h - f]
        /\ h = IF hi <= e THEN hi ELSE e
    BY <2>20 DEF IsPart, S, P
  <2>3. h = hi /\ P(b).to = f - lo /\ P(b).size = h - f
    BY <1>7, <2>2
  <2>4. gets[b - a + 1] = P(b)
    BY <1>6, <1>13, <2>1
  <2> QED
    BY <2>3, <2>4, <1>1
<1>17. ASSUME NEW i \in 2 .. b - a + 1
       PROVE  gets[i].to = gets[i - 1].to + gets[i - 1].size
  <2>0. i \in Nat /\ i >= 2 /\ i <= b - a + 1
    BY <1>6
  <2>1. PICK t \in a .. b : t = a + i - 2 /\ t + 1 \in a .. b
    <3>1. a + i - 2 \in a .. b /\ a + i - 2 + 1 \in a .. b
      BY <2>0
    <3> QED
      BY <3>1
  <2>2. i \in 1 .. b - a + 1 /\ i - 1 \in 1 .. b - a + 1 /\ a + i - 1 = t + 1 /\ a + (i - 1) - 1 = t
    BY <2>1, <1>3
  <2>3. gets[i] = P(t + 1) /\ gets[i - 1] = P(t)
    BY <1>13, <2>2
  <2>40. PICK s \in Nat, e \in Nat, f \in Nat, h \in Nat : IsPart(total, ranks, lo, hi, t, s, e, f, h)
    BY <1>51, <2>1
  <2>4. /\ e = S(t + 1) /\ P(t) = [rank |-> t, to |-> f - lo, from |-> f - s, size |-> h - f]
        /\ lo < e /\ h = IF hi <= e THEN hi ELSE e
    BY <2>40 DEF IsPart, S, P
  <2>50. PICK s1 \in Nat, e1 \in Nat, f1 \in Nat, h1 \in Nat : IsPart(total, ranks, lo, hi, t + 1, s1, e1, f1, h1)
    BY <1>51, <2>1
  <2>5. /\ s1 = S(t + 1) /\ P(t + 1) = [rank |-> t + 1, to |-> f1 - lo, from |-> f1 - s1, size |-> h1 - f1]
        /\ s1 < hi /\ f1 = IF s1 <= lo THEN lo ELSE s1
    BY <2>50 DEF IsPart, S, P
  <2>6. h = e /\ f1 = s1 /\ e = s1
    BY <2>4, <2>5
  <2>7. P(t).to = f - lo /\ P(t).size = h - f /\ P(t + 1).to = f1 - lo
    BY <2>4, <2>5
  <2> QED
    BY <2>3, <2>6, <2>7
<1> DEFINE raw == [r \in 0 .. ranks - 1 |->
                     LET part == partition_loop(total, ranks, r) IN [i \in 0 .. Length(part) - 1 |-> data[part.lo + i]]]
           Chosen(k) == CHOOSE g \in Range(gets) : k - 1 \in g.to .. g.to + g.size - 1
<1>181. ReadBlob(data, ranks, blob) = ReadWith(data, ranks, blob, Cardinality(DOMAIN data))
  BY DEF ReadBlob, ReadWith
<1>182. ReadBlob(data, ranks, blob) = ReadWith(data, ranks, blob, total)
  BY <1>11, <1>181
<1>18. ReadBlob(data, ranks, blob) = [k \in 1 .. blob.size |-> raw[Chosen(k).rank][Chosen(k).from + k - 1 - Chosen(k).to]]
  BY <1>182 DEF ReadWith, gets
<1>19. ASSUME NEW k \in 1 .. len
       PROVE  raw[Chosen(k).rank][Chosen(k).from + k - 1 - Chosen(k).to] = data[lo + k - 1]
  <2> HIDE DEF raw, Chosen
  <2>1. PICK j \in 0 .. total - 1 : j = lo + k - 1 /\ lo <= j /\ j < hi
    BY <1>1, <1>2
  <2>2. PICK t \in 0 .. ranks - 1 : S(t) <= j /\ j < S(t + 1) /\ \A u \in Nat : S(u) <= j /\ j < S(u + 1) => u = t
    BY <1>8
  <2>3. t \in a .. b
    <3>1. t \in Nat /\ t + 1 \in Nat /\ a \in Nat /\ b \in Nat /\ a + 1 \in Nat /\ b + 1 \in Nat
      OBVIOUS
    <3>2. PICK st \in Nat, et \in Nat, sa \in Nat, eb \in Nat :
            st = S(t) /\ et = S(t + 1) /\ sa = S(a) /\ eb = S(b + 1)
      BY <3>1, <1>9
    <3>3. t < a => et <= sa
      <4>1. t < a => t + 1 <= a
        BY <3>1
      <4> QED
        BY <3>1, <3>2, <4>1, <1>10
    <3>4. b < t => eb <= st
      <4>1. b < t => b + 1 <= t
        BY <3>1
      <4> QED
        BY <3>1, <3>2, <4>1, <1>10
    <3>5. st <= j /\ j < et /\ sa <= lo /\ hi - 1 < eb
      BY <3>2, <2>2, <1>7
    <3> QED
      BY <3>1, <3>3, <3>4, <3>5, <2>1
  <2>4. ASSUME NEW u \in a .. b
        PROVE  k - 1 \in P(u).to .. P(u).to + P(u).size - 1 <=> S(u) <= j /\ j < S(u + 1)
    <3>10. PICK s \in Nat, e \in Nat, f \in Nat, g \in Nat : IsPart(total, ranks, lo, hi, u, s, e, f, g)
      BY <1>51
    <3>1. /\ s = S(u) /\ e = S(u + 1)
          /\ P(u) = [rank |-> u, to |-> f - lo, from |-> f - s, size |-> g - f]
          /\ f < g /\ f = (IF s <= lo THEN lo ELSE s) /\ g = IF hi <= e THEN hi ELSE e
      BY <3>10 DEF IsPart, S, P
    <3>2. P(u).to = f - lo /\ P(u).size = g - f
      BY <3>1
    <3>3. k - 1 \in (f - lo) .. (f - lo) + (g - f) - 1 <=> s <= j /\ j < e
      <4>1. k \in Nat /\ k - 1 = j - lo
        BY <2>1
      <4>2. k - 1 \in (f - lo) .. (f - lo) + (g - f) - 1 <=> f <= j /\ j < g
        BY <4>1
      <4> QED
        BY <4>2, <3>1, <2>1
    <3> QED
      BY <3>1, <3>2, <3>3
  <2>5. \A u \in a .. b : k - 1 \in P(u).to .. P(u).to + P(u).size - 1 <=> u = t
    <3>1. \A u \in a .. b : u \in Nat
      OBVIOUS
    <3> QED
      BY <2>2, <2>3, <2>4, <3>1
  <2>6. P(t) \in Range(gets) /\ k - 1 \in P(t).to .. P(t).to + P(t).size - 1
    BY <2>3, <2>5, <1>12
  <2>7. \A g \in Range(gets) : k - 1 \in g.to .. g.to + g.size - 1 => g = P(t)
    BY <2>5, <1>12
  <2>8. Chosen(k) = P(t)
    BY <2>6, <2>7 DEF Chosen
  <2>90. PICK s \in Nat, e \in Nat, f \in Nat, g \in Nat : IsPart(total, ranks, lo, hi, t, s, e, f, g)
    BY <1>51, <2>3
  <2>9. /\ s = S(t) /\ e = S(t + 1)
        /\ partition_loop(total, ranks, t) = [lo |-> s, hi |-> e]
        /\ P(t) = [rank |-> t, to |-> f - lo, from |-> f - s, size |-> g - f]
    BY <2>90 DEF IsPart, S, P
  <2>10. P(t).rank = t /\ P(t).from = f - s /\ P(t).to = f - lo
    BY <2>9
  <2>11. k \in Nat /\ (f - s) + k - 1 - (f - lo) = j - s
    BY <2>1
  <2>12. j - s \in 0 .. (e - s) - 1 /\ s + (j - s) = j
    <3>1. s <= j /\ j < e
      BY <2>2, <2>9
    <3> QED
      BY <3>1
  <2>13. raw[t] = [i \in 0 .. Length(partition_loop(total, ranks, t)) - 1 |-> data[partition_loop(total, ranks, t).lo + i]]
    BY DEF raw
  <2>14. raw[t] = [i \in 0 .. (e - s) - 1 |-> data[s + i]]
    BY <2>9, <2>13 DEF Length
  <2>15. raw[t][j - s] = data[j]
    BY <2>12, <2>14
  <2> QED
    BY <2>1, <2>8, <2>10, <2>11, <2>15
<1>20. ReadBlob(data, ranks, blob) = [k \in 1 .. blob.size |-> data[blob.offset + k - 1]]
  <2> HIDE DEF Chosen, raw
  <2> QED
    BY <1>1, <1>18, <1>19
<1>21. \A i \in 2 .. Len(gets) : gets[i].to = gets[i - 1].to + gets[i - 1].size
  BY <1>13, <1>17
<1>22. Len(gets) > 0 /\ gets[Len(gets)].to + gets[Len(gets)].size = blob.size
  BY <1>1, <1>6, <1>13, <1>16
<1> QED
  BY <1>14, <1>15, <1>20, <1>21, <1>22 DEF gets, Fetched

\* However a file is spread over ranks, the pieces in which a blob is fetched are never
\* empty, lie in what their ranks hold, follow one another through the whole blob, and
\* give the blob when put together (io.cc:452, 532)
THEOREM ReadersGetBlobs ==
  ASSUME NEW total \in Nat, NEW contents, NEW data \in [0 .. total - 1 -> contents], NEW ranks \in Nat \ {0},
         NEW blob \in [offset : Nat, size : Nat \ {0}], blob.offset + blob.size <= total
  PROVE  /\ \A g \in Range(Gets(total, ranks, blob)) :
              /\ g.rank \in 0 .. ranks - 1 /\ g.size > 0 /\ g.from >= 0
              /\ g.from + g.size <= Length(partition_loop(total, ranks, g.rank))
         /\ Gets(total, ranks, blob)[1].to = 0
         /\ \A i \in 2 .. Len(Gets(total, ranks, blob)) :
              Gets(total, ranks, blob)[i].to = Gets(total, ranks, blob)[i - 1].to + Gets(total, ranks, blob)[i - 1].size
         /\ LET n == Len(Gets(total, ranks, blob)) IN
              n > 0 /\ Gets(total, ranks, blob)[n].to + Gets(total, ranks, blob)[n].size = blob.size
         /\ ReadBlob(data, ranks, blob) = [k \in 1 .. blob.size |-> data[blob.offset + k - 1]]
<1>1. PICK lo \in Nat, len \in Nat, hi \in Nat : lo = blob.offset /\ len = blob.size /\ hi = lo + len
  OBVIOUS
<1>2. len > 0 /\ hi <= total
  <2>1. blob.size # 0 /\ blob.offset + blob.size <= total
    OBVIOUS
  <2> QED
    BY <1>1, <2>1
<1>3. DOMAIN data = 0 .. total - 1
  OBVIOUS
<1>4. Fetched(total, data, ranks, blob)
  BY <1>1, <1>2, <1>3, BlobParts
<1> QED
  BY <1>4 DEF Fetched
-----------------------------------------------------------------------------
(***************************************************************************)
(* Pseudorandom permutations.  Each of the three rounds of the cipher adds *)
(* to one part of a number what depends only on the other, so it is undone *)
(* by subtraction, and the rounds undo each other in reverse order.        *)
(* The cipher is therefore a permutation of a finite set, and a walk along *)
(* it from a number below n comes below n again, and back the same way.    *)
(***************************************************************************)
\* 2 to the powers that random_permute takes
LEMMA PowersAre ==
  ASSUME NEW bits \in 1 .. 31
  PROVE  \E A \in Nat, B \in Nat : /\ A = 2^Half(bits) /\ B = 2^(bits - Half(bits)) /\ 2^bits = A * B
                                   /\ A > 0 /\ B > 0
<1> DEFINE P(k) == 2^k
<1>1. /\ P(0) = 1 /\ P(1) = 2 /\ P(2) = 4 /\ P(3) = 8 /\ P(4) = 16 /\ P(5) = 32
      /\ P(6) = 64 /\ P(7) = 128 /\ P(8) = 256 /\ P(9) = 512 /\ P(10) = 1024 /\ P(11) = 2048
      /\ P(12) = 4096 /\ P(13) = 8192 /\ P(14) = 16384 /\ P(15) = 32768 /\ P(16) = 65536 /\ P(17) = 131072
      /\ P(18) = 262144 /\ P(19) = 524288 /\ P(20) = 1048576 /\ P(21) = 2097152 /\ P(22) = 4194304 /\ P(23) = 8388608
      /\ P(24) = 16777216 /\ P(25) = 33554432 /\ P(26) = 67108864 /\ P(27) = 134217728 /\ P(28) = 268435456 /\ P(29) = 536870912
      /\ P(30) = 1073741824 /\ P(31) = 2147483648
  OBVIOUS
<1>2. PICK k \in 0 .. 15 : bits = 2 * k \/ bits = 2 * k + 1
  OBVIOUS
<1>3. Half(bits) = k /\ bits - Half(bits) \in {k, k + 1} /\ (bits - Half(bits) = k <=> bits = 2 * k)
  BY <1>2 DEF Half
<1> HIDE DEF P
<1>4. P(k) \in Nat /\ P(k) > 0 /\ P(k + 1) \in Nat /\ P(k + 1) > 0
  BY <1>1
<1>5. P(2 * k) = P(k) * P(k) /\ P(2 * k + 1) = P(k) * P(k + 1)
  <2>1. k \in 0 .. 7 \/ k \in 8 .. 15
    OBVIOUS
  <2> QED
    BY <1>1, <2>1
<1>6. P(bits) = P(k) * P(bits - k) /\ P(bits - k) \in Nat /\ P(bits - k) > 0
  <2>1. CASE bits = 2 * k
    <3>1. bits - k = k
      BY <2>1
    <3> QED
      BY <1>4, <1>5, <2>1, <3>1
  <2>2. CASE bits = 2 * k + 1
    <3>1. bits - k = k + 1
      BY <2>2
    <3> QED
      BY <1>4, <1>5, <2>2, <3>1
  <2> QED
    BY <1>2, <2>1, <2>2
<1>7. P(Half(bits)) \in Nat /\ P(Half(bits)) > 0 /\ P(bits) = P(Half(bits)) * P(bits - Half(bits))
  BY <1>3, <1>4, <1>6
<1>8. P(bits - Half(bits)) \in Nat /\ P(bits - Half(bits)) > 0
  BY <1>3, <1>6
<1>9. \E A \in Nat, B \in Nat : A = P(Half(bits)) /\ B = P(bits - Half(bits)) /\ P(bits) = A * B /\ A > 0 /\ B > 0
  BY <1>7, <1>8
<1> QED
  BY <1>9 DEF P

LEMMA PowersRise == 2^0 = 1 /\ 2^31 = 2147483648 /\ \A k \in 0 .. 31 : 2^k \in Nat
<1>1. ASSUME NEW k \in 1 .. 31 PROVE 2^k \in Nat
  <2>1. PICK A \in Nat, B \in Nat : 2^k = A * B
    BY PowersAre
  <2> QED
    BY <2>1, ProductGrows
<1>2. 2^0 = 1 /\ 2^31 = 2147483648
  OBVIOUS
<1>3. \A k \in 0 .. 31 : k = 0 \/ k \in 1 .. 31
  OBVIOUS
<1>4. 2^0 \in Nat
  BY <1>2
<1> QED
  BY <1>1, <1>2, <1>3, <1>4

\* The numbers of lines that next_log of the model is for
LineLimit == 2147483648

LEMMA NextLogIs ==
  ASSUME NEW n \in Nat, n > 0, n < LineLimit
  PROVE  \E bits \in 1 .. 31 : \E N \in Nat : bits = next_log(n) /\ N = 2^bits /\ n < N
<1> DEFINE P(k) == 2^k
           S == {k \in 0 .. 30 : P(k) <= n}
<1>1. P(0) = 1 /\ P(31) = LineLimit /\ \A k \in 0 .. 31 : P(k) \in Nat
  BY PowersRise DEF LineLimit
<1>2. next_log(n) = Max(S) + 1
  BY DEF next_log
<1> HIDE DEF P
<1>3. S \in SUBSET (0 .. 30) /\ 0 \in S
  BY <1>1
<1>4. PICK m \in 0 .. 30 : m = Max(S) /\ m \in S /\ \A k \in S : k <= m
  <2> HIDE DEF S
  <2>1. Max(S) \in S /\ \A x \in S : x <= Max(S)
    BY <1>3, MaxIs
  <2>2. PICK m : m = Max(S)
    OBVIOUS
  <2>3. m \in S
    BY <2>1, <2>2
  <2>4. \A k \in S : k <= m
    BY <2>1, <2>2
  <2>5. m \in 0 .. 30
    BY <1>3, <2>3
  <2> QED
    BY <2>2, <2>3, <2>4, <2>5
<1>5. ~(m + 1 \in S)
  <2>1. ~(m + 1 <= m)
    OBVIOUS
  <2> QED
    BY <1>4, <2>1
<1>6. n < P(m + 1)
  <2>1. CASE m = 30
    <3>1. m + 1 = 31
      BY <2>1
    <3> QED
      BY <1>1, <3>1
  <2>2. CASE m # 30
    <3>1. m + 1 \in 0 .. 30 /\ P(m + 1) \in Nat
      BY <2>2, <1>1
    <3> QED
      BY <1>5, <3>1
  <2> QED
    BY <2>1, <2>2
<1>7. next_log(n) = m + 1
  BY <1>2, <1>4
<1>8. m + 1 \in 1 .. 31 /\ m + 1 \in 0 .. 31 /\ P(m + 1) \in Nat
  BY <1>1
<1>9. PICK bits \in 1 .. 31 : bits = m + 1
  BY <1>8
<1>10. PICK N \in Nat : N = P(bits) /\ n < N
  BY <1>6, <1>8, <1>9
<1>11. N = 2^bits
  BY <1>10 DEF P
<1>12. bits = next_log(n)
  BY <1>7, <1>9
<1> QED
  BY <1>10, <1>11, <1>12, Zenon

LEMMA Residue ==
  ASSUME NEW n \in Int, NEW d \in Nat, d > 0
  PROVE  n % d \in 0 .. d - 1 /\ \E q \in Int : n = d * q + (n % d)
<1>1. n % d \in 0 .. d - 1
  BY Z3
<1>2. n \div d \in Int
  BY Z3
<1>3. n = d * (n \div d) + (n % d)
  BY Z3
<1> QED
  BY <1>1, <1>2, <1>3

LEMMA ResidueIs ==
  ASSUME NEW d \in Nat, d > 0, NEW q \in Int, NEW r \in 0 .. d - 1
  PROVE  (d * q + r) % d = r /\ (d * q + r) \div d = q
  BY Z3

\* What is added modulo d can be taken away again
LEMMA AddedBack ==
  ASSUME NEW d \in Nat, d > 0, NEW c \in Int, NEW x \in 0 .. d - 1
  PROVE  /\ (x + c) % d \in 0 .. d - 1 /\ (x - c) % d \in 0 .. d - 1
         /\ (((x + c) % d) - c) % d = x /\ (((x - c) % d) + c) % d = x
<1>1. x + c \in Int /\ x - c \in Int
  OBVIOUS
<1>2. PICK q \in Int, r \in 0 .. d - 1 : r = (x + c) % d /\ x + c = d * q + r
  BY <1>1, Residue
<1>3. PICK p \in Int, t \in 0 .. d - 1 : t = (x - c) % d /\ x - c = d * p + t
  BY <1>1, Residue
<1>4. d * (-q) = -(d * q) /\ d * (-p) = -(d * p) /\ d * q \in Int /\ d * p \in Int /\ -q \in Int /\ -p \in Int
  BY Z3
<1>5. r - c = d * (-q) + x /\ t + c = d * (-p) + x
  BY <1>2, <1>3, <1>4
<1>6. (d * (-q) + x) % d = x /\ (d * (-p) + x) % d = x
  BY <1>4, ResidueIs
<1> QED
  BY <1>2, <1>3, <1>5, <1>6

LEMMA Shifts ==
  ASSUME NEW d \in Nat, d > 0
  PROVE  \A c \in Int, x \in 0 .. d - 1 : /\ \E u \in 0 .. d - 1 : u = (x + c) % d /\ (u - c) % d = x
                                          /\ \E u \in 0 .. d - 1 : u = (x - c) % d /\ (u + c) % d = x
<1> SUFFICES ASSUME NEW c \in Int, NEW x \in 0 .. d - 1
             PROVE  /\ \E u \in 0 .. d - 1 : u = (x + c) % d /\ (u - c) % d = x
                    /\ \E u \in 0 .. d - 1 : u = (x - c) % d /\ (u + c) % d = x
  OBVIOUS
<1>1. /\ (x + c) % d \in 0 .. d - 1 /\ (x - c) % d \in 0 .. d - 1
      /\ (((x + c) % d) - c) % d = x /\ (((x - c) % d) + c) % d = x
  BY AddedBack, Zenon
<1> QED
  BY <1>1, Zenon

\* A number below A * B in two parts, as the rounds take it apart and put it together
LEMMA PartsAre ==
  ASSUME NEW A \in Nat, A > 0, NEW B \in Nat, B > 0
  PROVE  /\ \A x \in 0 .. A * B - 1 : x \div B \in 0 .. A - 1 /\ x % B \in 0 .. B - 1 /\ x = (x \div B) * B + (x % B)
         /\ \A l \in 0 .. A - 1, r \in 0 .. B - 1 : /\ l * B + r \in 0 .. A * B - 1
                                                    /\ (l * B + r) \div B = l /\ (l * B + r) % B = r
<1>1. ASSUME NEW x \in 0 .. A * B - 1
      PROVE  x \div B \in 0 .. A - 1 /\ x % B \in 0 .. B - 1 /\ x = (x \div B) * B + (x % B)
  <2>1. A * B \in Nat /\ x \in Nat /\ x < A * B
    BY ProductGrows
  <2>2. PICK q \in Nat, r \in 0 .. B - 1 : q = x \div B /\ r = x % B /\ x = B * q + r
    BY <2>1, Divided
  <2>3. (B * q < B * A => q < A) /\ B * A = A * B /\ B * q = q * B /\ B * q \in Nat
    BY ProductGrows
  <2>4. q < A
    BY <2>1, <2>2, <2>3
  <2> QED
    BY <2>2, <2>3, <2>4
<1>2. ASSUME NEW l \in 0 .. A - 1, NEW r \in 0 .. B - 1
      PROVE  /\ l * B + r \in 0 .. A * B - 1
             /\ (l * B + r) \div B = l /\ (l * B + r) % B = r
  <2>1. l \in Nat /\ l \in Int /\ l + 1 <= A /\ l + 1 \in Nat
    OBVIOUS
  <2>2. l * B = B * l /\ B * l \in Nat /\ B * (l + 1) = B * l + B /\ B * (l + 1) <= B * A /\ B * A = A * B /\ A * B \in Nat
    BY <2>1, ProductGrows
  <2>3. (B * l + r) % B = r /\ (B * l + r) \div B = l
    BY <2>1, ResidueIs
  <2> QED
    BY <2>2, <2>3
<1> QED
  BY <1>1, <1>2

\* Three rounds are undone by three rounds
LEMMA RoundsUndone ==
  ASSUME NEW bits \in 1 .. 31, NEW cipher \in [(1 .. 3) \X Nat -> Nat], NEW x \in 0 .. 2^bits - 1
  PROVE  /\ fe2_encrypt(bits, cipher, x) \in 0 .. 2^bits - 1 /\ fe2_decrypt(bits, cipher, fe2_encrypt(bits, cipher, x)) = x
         /\ fe2_decrypt(bits, cipher, x) \in 0 .. 2^bits - 1 /\ fe2_encrypt(bits, cipher, fe2_decrypt(bits, cipher, x)) = x
<1>1. PICK A \in Nat, B \in Nat : A = 2^Half(bits) /\ B = 2^(bits - Half(bits)) /\ 2^bits = A * B /\ A > 0 /\ B > 0
  BY PowersAre
<1>2. \A r \in 1 .. 3, h \in Nat : cipher[<<r, h>>] \in Int
  <2>1. \A r \in 1 .. 3, h \in Nat : <<r, h>> \in (1 .. 3) \X Nat
    OBVIOUS
  <2> QED
    BY <2>1
<1>2a. /\ \A c \in Int, y \in 0 .. A - 1 : /\ \E u \in 0 .. A - 1 : u = (y + c) % A /\ (u - c) % A = y
                                           /\ \E u \in 0 .. A - 1 : u = (y - c) % A /\ (u + c) % A = y
      /\ \A c \in Int, y \in 0 .. B - 1 : /\ \E u \in 0 .. B - 1 : u = (y + c) % B /\ (u - c) % B = y
                                          /\ \E u \in 0 .. B - 1 : u = (y - c) % B /\ (u + c) % B = y
  BY <1>1, Shifts, Zenon
<1> DEFINE In1(y) == y \in 0 .. A * B - 1
           En(l, r) == LET L1 == (l + cipher[<<1, r>>]) % A
                           R1 == (r + cipher[<<2, L1>>]) % B
                       IN <<(L1 + cipher[<<3, R1>>]) % A, R1>>
           De(l, r) == LET L1 == (l - cipher[<<3, r>>]) % A
                           R1 == (r - cipher[<<2, L1>>]) % B
                       IN <<(L1 - cipher[<<1, R1>>]) % A, R1>>
           Join(u) == u[1] * B + u[2]
<1>3. \A y : fe2_encrypt(bits, cipher, y) = Join(En(y \div B, y % B)) /\ fe2_decrypt(bits, cipher, y) = Join(De(y \div B, y % B))
  BY <1>1 DEF fe2_encrypt, fe2_decrypt
<1>4. ASSUME NEW l \in 0 .. A - 1, NEW r \in 0 .. B - 1
      PROVE  \E u \in 0 .. A - 1, v \in 0 .. B - 1 : En(l, r) = <<u, v>> /\ De(u, v) = <<l, r>>
  <2>1. PICK c1 \in Int : c1 = cipher[<<1, r>>]
    BY <1>2
  <2>2. PICK L1 \in 0 .. A - 1 : L1 = (l + c1) % A /\ (L1 - c1) % A = l
    BY <1>2a, Zenon
  <2>3. PICK c2 \in Int : c2 = cipher[<<2, L1>>]
    BY <1>2
  <2>4. PICK R1 \in 0 .. B - 1 : R1 = (r + c2) % B /\ (R1 - c2) % B = r
    BY <1>2a, Zenon
  <2>5. PICK c3 \in Int : c3 = cipher[<<3, R1>>]
    BY <1>2
  <2>6. PICK u \in 0 .. A - 1 : u = (L1 + c3) % A /\ (u - c3) % A = L1
    BY <1>2a, Zenon
  <2>7. En(l, r) = <<u, R1>>
    BY <2>1, <2>2, <2>3, <2>4, <2>5, <2>6
  <2>8. De(u, R1) = <<l, r>>
    BY <2>1, <2>2, <2>3, <2>4, <2>5, <2>6
  <2> QED
    BY <2>7, <2>8
<1>5. ASSUME NEW l \in 0 .. A - 1, NEW r \in 0 .. B - 1
      PROVE  \E u \in 0 .. A - 1, v \in 0 .. B - 1 : De(l, r) = <<u, v>> /\ En(u, v) = <<l, r>>
  <2>1. PICK c3 \in Int : c3 = cipher[<<3, r>>]
    BY <1>2
  <2>2. PICK L1 \in 0 .. A - 1 : L1 = (l - c3) % A /\ (L1 + c3) % A = l
    BY <1>2a, Zenon
  <2>3. PICK c2 \in Int : c2 = cipher[<<2, L1>>]
    BY <1>2
  <2>4. PICK R1 \in 0 .. B - 1 : R1 = (r - c2) % B /\ (R1 + c2) % B = r
    BY <1>2a, Zenon
  <2>5. PICK c1 \in Int : c1 = cipher[<<1, R1>>]
    BY <1>2
  <2>6. PICK u \in 0 .. A - 1 : u = (L1 - c1) % A /\ (u + c1) % A = L1
    BY <1>2a, Zenon
  <2>7. De(l, r) = <<u, R1>>
    BY <2>1, <2>2, <2>3, <2>4, <2>5, <2>6
  <2>8. En(u, R1) = <<l, r>>
    BY <2>1, <2>2, <2>3, <2>4, <2>5, <2>6
  <2> QED
    BY <2>7, <2>8
<1>6. PICK l \in 0 .. A - 1, r \in 0 .. B - 1 : l = x \div B /\ r = x % B /\ x = l * B + r
  <2>1. x \in 0 .. A * B - 1 /\ A > 0 /\ B > 0
    BY <1>1
  <2>2. x \div B \in 0 .. A - 1 /\ x % B \in 0 .. B - 1 /\ x = (x \div B) * B + (x % B)
    BY <2>1, PartsAre, ZenonT(40)
  <2> QED
    BY <2>2, Zenon
<1>7. \A u \in 0 .. A - 1, v \in 0 .. B - 1 : /\ Join(<<u, v>>) \in 0 .. A * B - 1
                                              /\ Join(<<u, v>>) \div B = u /\ Join(<<u, v>>) % B = v
  <2>0. A > 0 /\ B > 0
    BY <1>1
  <2>1. \A u \in 0 .. A - 1, v \in 0 .. B - 1 : /\ u * B + v \in 0 .. A * B - 1
                                                /\ (u * B + v) \div B = u /\ (u * B + v) % B = v
    BY <2>0, PartsAre, ZenonT(30)
  <2> TAKE u \in 0 .. A - 1, v \in 0 .. B - 1
  <2>2. Join(<<u, v>>) = u * B + v
    OBVIOUS
  <2> QED
    BY <2>1, <2>2, Zenon
<1>8. Join(<<l, r>>) = x
  BY <1>6
<1> HIDE DEF En, De, Join
<1>9. PICK u \in 0 .. A - 1, v \in 0 .. B - 1 : En(l, r) = <<u, v>> /\ De(u, v) = <<l, r>>
  BY <1>4
<1>10. PICK s \in 0 .. A - 1, t \in 0 .. B - 1 : De(l, r) = <<s, t>> /\ En(s, t) = <<l, r>>
  BY <1>5
<1>11. fe2_encrypt(bits, cipher, x) = Join(<<u, v>>) /\ fe2_decrypt(bits, cipher, Join(<<u, v>>)) = x
  BY <1>3, <1>6, <1>7, <1>8, <1>9
<1>12. fe2_decrypt(bits, cipher, x) = Join(<<s, t>>) /\ fe2_encrypt(bits, cipher, Join(<<s, t>>)) = x
  BY <1>3, <1>6, <1>7, <1>8, <1>10
<1> QED
  BY <1>1, <1>7, <1>11, <1>12

(***************************************************************************)
(* Cycle walking.                                                          *)
(***************************************************************************)
\* What is found by applying E until it is below n
IsWalk(S, E, n, w) == w = [y \in S |-> IF E[y] < n THEN E[y] ELSE w[E[y]]]

\* From y by k applications of E, the last of which is the first below n
IsPath(S, E, n, y, k, o) ==
  /\ o \in [0 .. k -> S] /\ o[0] = y /\ \A i \in 1 .. k : o[i] = E[o[i - 1]]
  /\ \A i \in 1 .. k - 1 : n <= o[i]
  /\ o[k] < n

Ends(S, E, n, y) == {z \in S : \E k \in Nat : k > 0 /\ \E o : IsPath(S, E, n, y, k, o) /\ o[k] = z}

LEMMA EndsFollow ==
  ASSUME NEW S \in SUBSET Nat, NEW E \in [S -> S], NEW n \in Nat, NEW y \in S
  PROVE  Ends(S, E, n, y) = IF E[y] < n THEN {E[y]} ELSE Ends(S, E, n, E[y])
<1>0. E[y] \in S /\ E[y] \in Nat
  OBVIOUS
<1>1. CASE E[y] < n
  <2>1. E[y] \in Ends(S, E, n, y)
    <3> DEFINE o == [i \in 0 .. 1 |-> IF i = 0 THEN y ELSE E[y]]
    <3>1. o \in [0 .. 1 -> S] /\ o[0] = y /\ o[1] = E[y]
      BY <1>0
    <3>2. IsPath(S, E, n, y, 1, o)
      <4> HIDE DEF o
      <4>1. \A i \in 1 .. 1 : i = 1 /\ i - 1 = 0
        OBVIOUS
      <4>2. \A i \in 1 .. 1 - 1 : FALSE
        OBVIOUS
      <4> QED
        BY <3>1, <4>1, <4>2, <1>1 DEF IsPath
    <3> HIDE DEF o
    <3> QED
      BY <3>1, <3>2, <1>0 DEF Ends
  <2>2. ASSUME NEW z \in Ends(S, E, n, y) PROVE z = E[y]
    <3>0. PICK k \in Nat : k > 0 /\ \E o : IsPath(S, E, n, y, k, o) /\ o[k] = z
      BY <2>2 DEF Ends
    <3>1. PICK o : k > 0 /\ IsPath(S, E, n, y, k, o) /\ o[k] = z
      BY <3>0
    <3>2. o[1] = E[y]
      <4>1. 1 \in 1 .. k /\ 1 - 1 = 0
        BY <3>1
      <4> QED
        BY <3>1, <4>1 DEF IsPath
    <3>3. k = 1
      <4> SUFFICES ASSUME k # 1 PROVE FALSE
        OBVIOUS
      <4>1. 1 \in 1 .. k - 1
        BY <3>1
      <4>2. n <= o[1]
        BY <3>1, <4>1 DEF IsPath
      <4> QED
        BY <4>2, <3>2, <1>0, <1>1
    <3> QED
      BY <3>1, <3>2, <3>3
  <2> QED
    BY <1>1, <2>1, <2>2
<1>2. CASE ~(E[y] < n)
  <2>0. n <= E[y]
    BY <1>0, <1>2
  <2>1. ASSUME NEW z \in Ends(S, E, n, y) PROVE z \in Ends(S, E, n, E[y])
    <3>0. PICK k \in Nat : k > 0 /\ \E o : IsPath(S, E, n, y, k, o) /\ o[k] = z
      BY <2>1 DEF Ends
    <3>1. PICK o : k > 0 /\ IsPath(S, E, n, y, k, o) /\ o[k] = z /\ z \in S
      BY <2>1, <3>0 DEF Ends
    <3>2. o[1] = E[y] /\ o[k] < n
      <4>1. 1 \in 1 .. k /\ 1 - 1 = 0
        BY <3>1
      <4> QED
        BY <3>1, <4>1 DEF IsPath
    <3>3. k # 1
      BY <3>2, <1>2
    <3>4. PICK j \in Nat : j > 0 /\ k = j + 1
      <4>1. k - 1 \in Nat /\ k - 1 > 0 /\ k = (k - 1) + 1
        BY <3>1, <3>3
      <4> QED
        BY <4>1
    <3> DEFINE p == [i \in 0 .. j |-> o[i + 1]]
    <3>5. IsPath(S, E, n, E[y], j, p) /\ p[j] = z
      <4>1. o \in [0 .. j + 1 -> S] /\ \A i \in 0 .. j : i + 1 \in 0 .. j + 1
        BY <3>1, <3>4 DEF IsPath
      <4>2. p \in [0 .. j -> S] /\ \A i \in 0 .. j : p[i] = o[i + 1]
        BY <4>1
      <4>3. p[0] = E[y] /\ p[j] = z /\ p[j] < n
        <5>1. 0 \in 0 .. j /\ j \in 0 .. j /\ 0 + 1 = 1
          OBVIOUS
        <5> QED
          BY <5>1, <4>2, <3>1, <3>2, <3>4
      <4> HIDE DEF p
      <4>4. ASSUME NEW i \in 1 .. j PROVE p[i] = E[p[i - 1]]
        <5>1. i + 1 \in 1 .. k /\ i + 1 - 1 = i /\ i \in 0 .. j /\ i - 1 \in 0 .. j /\ i - 1 + 1 = i
          BY <3>4
        <5>2. o[i + 1] = E[o[i + 1 - 1]]
          BY <5>1, <3>1 DEF IsPath
        <5> QED
          BY <5>1, <5>2, <4>2
      <4>5. ASSUME NEW i \in 1 .. j - 1 PROVE n <= p[i]
        <5>1. i + 1 \in 1 .. k - 1 /\ i \in 0 .. j
          BY <3>4
        <5>2. n <= o[i + 1]
          BY <5>1, <3>1 DEF IsPath
        <5> QED
          BY <5>1, <5>2, <4>2
      <4> QED
        BY <4>2, <4>3, <4>4, <4>5 DEF IsPath
    <3> HIDE DEF p
    <3> QED
      BY <3>1, <3>4, <3>5 DEF Ends
  <2>2. ASSUME NEW z \in Ends(S, E, n, E[y]) PROVE z \in Ends(S, E, n, y)
    <3>0. PICK j \in Nat : j > 0 /\ \E p : IsPath(S, E, n, E[y], j, p) /\ p[j] = z
      BY <2>2 DEF Ends
    <3>1. PICK p : j > 0 /\ IsPath(S, E, n, E[y], j, p) /\ p[j] = z /\ z \in S
      BY <2>2, <3>0 DEF Ends
    <3> DEFINE k == j + 1
               o == [i \in 0 .. k |-> IF i = 0 THEN y ELSE p[i - 1]]
    <3>2. IsPath(S, E, n, y, k, o) /\ o[k] = z
      <4>1. p \in [0 .. j -> S] /\ \A i \in 1 .. k : i - 1 \in 0 .. j /\ i # 0 /\ i \in 0 .. k
        BY <3>1 DEF IsPath
      <4>2. \A i \in 1 .. k : o[i] = p[i - 1]
        BY <4>1
      <4>3. o[0] = y
        OBVIOUS
      <4>4. o \in [0 .. k -> S]
        <5>1. \A i \in 0 .. k : i = 0 \/ i \in 1 .. k
          OBVIOUS
        <5> QED
          BY <4>1, <5>1
      <4> HIDE DEF o
      <4>5. ASSUME NEW i \in 1 .. k PROVE o[i] = E[o[i - 1]]
        <5>1. CASE i = 1
          <6>1. i - 1 = 0 /\ p[0] = E[y]
            BY <5>1, <3>1 DEF IsPath
          <6> QED
            BY <6>1, <4>2, <4>3
        <5>2. CASE i # 1
          <6>1. i - 1 \in 1 .. j /\ i - 1 \in 1 .. k /\ i - 1 - 1 = (i - 1) - 1
            BY <5>2
          <6>2. p[i - 1] = E[p[(i - 1) - 1]]
            BY <6>1, <3>1 DEF IsPath
          <6>3. o[i - 1] = p[(i - 1) - 1] /\ o[i] = p[i - 1]
            BY <6>1, <4>2
          <6> QED
            BY <6>2, <6>3
        <5> QED
          BY <5>1, <5>2
      <4>6. ASSUME NEW i \in 1 .. k - 1 PROVE n <= o[i]
        <5>1. CASE i = 1
          <6>1. i - 1 = 0 /\ p[0] = E[y] /\ i \in 1 .. k
            BY <5>1, <3>1 DEF IsPath
          <6> QED
            BY <6>1, <4>2, <2>0
        <5>2. CASE i # 1
          <6>1. i - 1 \in 1 .. j - 1 /\ i \in 1 .. k
            BY <5>2
          <6> QED
            BY <6>1, <4>2, <3>1 DEF IsPath
        <5> QED
          BY <5>1, <5>2
      <4>7. o[k] = z /\ o[k] < n
        <5>1. k \in 1 .. k /\ k - 1 = j
          BY <3>1
        <5> QED
          BY <5>1, <4>2, <3>1 DEF IsPath
      <4> QED
        BY <4>3, <4>4, <4>5, <4>6, <4>7 DEF IsPath
    <3>3. k \in Nat /\ k > 0
      OBVIOUS
    <3> HIDE DEF k, o
    <3> QED
      BY <3>1, <3>2, <3>3 DEF Ends
  <2> QED
    BY <1>2, <2>1, <2>2
<1> QED
  BY <1>1, <1>2

LEMMA WalkExists ==
  ASSUME NEW S \in SUBSET Nat, NEW E \in [S -> S], NEW n \in Nat
  PROVE  \E w : IsWalk(S, E, n, w)
<1> DEFINE at(y) == CHOOSE z : z \in Ends(S, E, n, y)
           w == [y \in S |-> at(y)]
<1>1. \A y \in S : E[y] \in S /\ w[y] = at(y)
  OBVIOUS
<1>2. \A y \in S : at(y) = IF E[y] < n THEN E[y] ELSE at(E[y])
  <2> TAKE y \in S
  <2>1. Ends(S, E, n, y) = IF E[y] < n THEN {E[y]} ELSE Ends(S, E, n, E[y])
    BY EndsFollow
  <2>2. CASE E[y] < n
    <3>1. at(y) \in {E[y]}
      BY <2>1, <2>2
    <3> QED
      BY <3>1, <2>2
  <2>3. CASE ~(E[y] < n)
    BY <2>1, <2>3
  <2> QED
    BY <2>2, <2>3
<1> HIDE DEF at
<1>3. w = [y \in S |-> IF E[y] < n THEN E[y] ELSE w[E[y]]]
  <2>1. \A y \in S : w[y] = IF E[y] < n THEN E[y] ELSE w[E[y]]
    BY <1>1, <1>2
  <2> QED
    BY <2>1
<1> HIDE DEF w
<1> QED
  BY <1>3 DEF IsWalk

\* An injection of a finite set into itself takes each of its members back to itself
LEMMA Returns ==
  ASSUME NEW S \in SUBSET Nat, IsFiniteSet(S), NEW E \in [S -> S], NEW D \in [S -> S],
         \A y \in S : D[E[y]] = y, NEW x \in S
  PROVE  \E m \in Nat : \E o : /\ m > 0 /\ o \in [0 .. m -> S] /\ o[0] = x /\ o[m] = x
                               /\ \A i \in 1 .. m : o[i] = E[o[i - 1]]
<1>1. PICK c \in Nat : c = Cardinality(S)
  BY FS_CardinalityType
<1>2. PICK o : o \in [0 .. c -> S] /\ o[0] = x /\ \A i \in 1 .. c : o[i] = E[o[i - 1]]
  <2> DEFINE next == [i \in 1 .. c |-> E]
  <2>1. next \in [1 .. c -> [S -> S]] /\ \A i \in 1 .. c : next[i] = E
    OBVIOUS
  <2> HIDE DEF next
  <2>2. PICK o : InSteps(o, S, c, x, next)
    BY <2>1, Recursion
  <2> QED
    BY <2>1, <2>2 DEF InSteps
<1>3. PICK a \in 0 .. c, b \in 0 .. c : a < b /\ o[a] = o[b]
  <2>1. IsFiniteSet(0 .. c) /\ Cardinality(0 .. c) = c + 1
    BY FS_Interval
  <2>2. Cardinality(0 .. c) > Cardinality(S)
    BY <2>1, <1>1
  <2>3. \E a, b \in 0 .. c : a # b /\ o[a] = o[b]
    BY <1>2, <2>1, <2>2, FS_PigeonHole
  <2> QED
    BY <2>3
<1> DEFINE Back == {t \in 0 .. a : o[a - t] # o[b - t]}
<1>4. Back = {}
  <2> SUFFICES ASSUME Back # {} PROVE FALSE
    OBVIOUS
  <2>1. PICK t \in Back : \A u \in Back : t <= u
    <3>1. Back \in SUBSET Nat
      OBVIOUS
    <3> HIDE DEF Back
    <3> QED
      BY <3>1, LeastOf
  <2>2. t \in 0 .. a /\ o[a - t] # o[b - t] /\ t # 0
    BY <1>3, <2>1
  <2>3. t - 1 \in 0 .. a /\ ~(t <= t - 1)
    BY <2>2
  <2>4. o[a - (t - 1)] = o[b - (t - 1)]
    BY <2>1, <2>3
  <2>5. /\ a - (t - 1) \in 1 .. c /\ b - (t - 1) \in 1 .. c
        /\ a - (t - 1) - 1 = a - t /\ b - (t - 1) - 1 = b - t /\ a - t \in 0 .. c /\ b - t \in 0 .. c
    BY <1>3, <2>2
  <2>6. o[a - (t - 1)] = E[o[a - t]] /\ o[b - (t - 1)] = E[o[b - t]]
    BY <1>2, <2>5
  <2>7. o[a - t] \in S /\ o[b - t] \in S
    BY <1>2, <2>5
  <2> QED
    BY <2>2, <2>4, <2>6, <2>7
<1>5. o[b - a] = x
  <2>1. a \in 0 .. a /\ a - a = 0
    OBVIOUS
  <2>2. o[a - a] = o[b - a]
    BY <1>4, <2>1
  <2> QED
    BY <1>2, <2>1, <2>2
<1>6. PICK m \in Nat : m = b - a /\ m > 0 /\ m <= c
  <2>1. b - a \in Nat /\ b - a > 0 /\ b - a <= c
    BY <1>3
  <2> QED
    BY <2>1
<1> DEFINE p == [i \in 0 .. m |-> o[i]]
<1>7. p \in [0 .. m -> S] /\ \A i \in 0 .. m : p[i] = o[i]
  <2>1. \A i \in 0 .. m : i \in 0 .. c
    BY <1>6
  <2> QED
    BY <2>1, <1>2
<1> HIDE DEF p
<1>8. \A i \in 1 .. m : i \in 1 .. c /\ i \in 0 .. m /\ i - 1 \in 0 .. m
  BY <1>6
<1>9. 0 \in 0 .. m /\ m \in 0 .. m
  OBVIOUS
<1>10. \A i \in 1 .. m : p[i] = E[p[i - 1]]
  BY <1>2, <1>7, <1>8
<1>11. p[0] = x /\ p[m] = x
  BY <1>2, <1>5, <1>6, <1>7, <1>9
<1> QED
  BY <1>6, <1>7, <1>10, <1>11

\* A walk ends below n, and the walk back returns
LEMMA WalkRight ==
  ASSUME NEW S \in SUBSET Nat, IsFiniteSet(S), NEW E \in [S -> S], NEW D \in [S -> S],
         \A y \in S : D[E[y]] = y, NEW n \in Nat, NEW x \in S, x < n,
         NEW w, IsWalk(S, E, n, w), NEW v, IsWalk(S, D, n, v)
  PROVE  w[x] \in S /\ w[x] < n /\ v[w[x]] = x
<1>0. PICK m \in Nat : \E o : /\ m > 0 /\ o \in [0 .. m -> S] /\ o[0] = x /\ o[m] = x
                              /\ \A i \in 1 .. m : o[i] = E[o[i - 1]]
  BY Returns, SMTT(40)
<1>1. PICK o : /\ m > 0 /\ o \in [0 .. m -> S] /\ o[0] = x /\ o[m] = x
               /\ \A i \in 1 .. m : o[i] = E[o[i - 1]]
  BY <1>0
<1> DEFINE K == {i \in 1 .. m : o[i] < n}
<1>2. PICK k \in K : \A i \in K : k <= i
  <2>1. K \in SUBSET Nat /\ m \in K
    BY <1>1
  <2> HIDE DEF K
  <2> QED
    BY <2>1, LeastOf
<1>3. k \in 1 .. m /\ o[k] < n /\ \A i \in 1 .. k - 1 : ~(o[i] < n)
  <2>1. \A i \in 1 .. k - 1 : i \in 1 .. m /\ ~(k <= i)
    OBVIOUS
  <2> QED
    BY <1>2, <2>1
<1>4. \A i \in 0 .. k : i \in 0 .. m /\ o[i] \in S
  <2>1. \A i \in 0 .. k : i \in 0 .. m
    BY <1>3
  <2> QED
    BY <1>1, <2>1
<1>5. \A y \in S : w[y] = IF E[y] < n THEN E[y] ELSE w[E[y]]
  BY DEF IsWalk
<1>6. \A y \in S : v[y] = IF D[y] < n THEN D[y] ELSE v[D[y]]
  BY DEF IsWalk
<1>7. \A i \in 1 .. k : o[i] = E[o[i - 1]] /\ o[i - 1] = D[o[i]]
  <2>1. \A i \in 1 .. k : i \in 1 .. m /\ i - 1 \in 0 .. k
    BY <1>3
  <2> QED
    BY <2>1, <1>1, <1>4
<1> HIDE DEF K
<1> DEFINE Out == {t \in 1 .. k : w[o[k - t]] # o[k]}
<1>8. Out = {}
  <2> SUFFICES ASSUME Out # {} PROVE FALSE
    OBVIOUS
  <2>1. PICK t \in Out : \A u \in Out : t <= u
    <3>1. Out \in SUBSET Nat
      OBVIOUS
    <3> HIDE DEF Out
    <3> QED
      BY <3>1, LeastOf
  <2>2. t \in 1 .. k /\ w[o[k - t]] # o[k]
    BY <2>1
  <2>3. PICK j \in 0 .. k - 1 : j = k - t
    BY <2>2, <1>3
  <2>4. o[j + 1] = E[o[j]] /\ o[j] \in S
    <3>1. j + 1 \in 1 .. k /\ j + 1 - 1 = j /\ j \in 0 .. k
      BY <1>3
    <3> QED
      BY <3>1, <1>4, <1>7
  <2>5. CASE t = 1
    <3>1. j + 1 = k
      BY <2>3, <2>5, <1>3
    <3> QED
      BY <3>1, <2>2, <2>3, <2>4, <1>3, <1>5
  <2>6. CASE t # 1
    <3>1. t - 1 \in 1 .. k /\ ~(t <= t - 1) /\ j + 1 = k - (t - 1) /\ j + 1 \in 1 .. k - 1
      BY <2>2, <2>3, <2>6, <1>3
    <3>2. w[o[j + 1]] = o[k]
      BY <3>1, <2>1
    <3>3. ~(o[j + 1] < n)
      BY <3>1, <1>3
    <3> QED
      BY <3>2, <3>3, <2>2, <2>3, <2>4, <1>5
  <2> QED
    BY <2>5, <2>6
<1>9. w[x] = o[k]
  <2>1. k \in 1 .. k /\ k - k = 0
    BY <1>3
  <2> QED
    BY <2>1, <1>1, <1>8
<1> HIDE DEF Out
<1> DEFINE In2 == {t \in 1 .. k : v[o[t]] # x}
<1>10. In2 = {}
  <2> SUFFICES ASSUME In2 # {} PROVE FALSE
    OBVIOUS
  <2>1. PICK t \in In2 : \A u \in In2 : t <= u
    <3>1. In2 \in SUBSET Nat
      OBVIOUS
    <3> HIDE DEF In2
    <3> QED
      BY <3>1, LeastOf
  <2>2. t \in 1 .. k /\ v[o[t]] # x
    BY <2>1
  <2>3. D[o[t]] = o[t - 1] /\ o[t] \in S
    <3>1. t \in 0 .. k
      BY <2>2
    <3> QED
      BY <3>1, <2>2, <1>4, <1>7
  <2>4. CASE t = 1
    <3>1. o[t - 1] = x
      BY <2>4, <1>1
    <3> QED
      BY <3>1, <2>2, <2>3, <1>6
  <2>5. CASE t # 1
    <3>1. t - 1 \in 1 .. k /\ ~(t <= t - 1) /\ t - 1 \in 1 .. k - 1
      BY <2>2, <2>5, <1>3
    <3>2. v[o[t - 1]] = x
      BY <3>1, <2>1
    <3>3. ~(o[t - 1] < n)
      BY <3>1, <1>3
    <3> QED
      BY <3>2, <3>3, <2>2, <2>3, <1>6
  <2> QED
    BY <2>4, <2>5
<1>11. v[o[k]] = x
  <2>1. k \in 1 .. k
    BY <1>3
  <2> QED
    BY <2>1, <1>10
<1>12. o[k] \in S
  <2>1. k \in 0 .. k
    BY <1>3
  <2> QED
    BY <2>1, <1>4
<1> QED
  BY <1>3, <1>9, <1>11, <1>12

\* The cipher on the numbers of as many bits as n has, and its inverse
Coding(n, cipher, bits, S, E, D) ==
  /\ bits = next_log(n) /\ S = 0 .. 2^bits - 1
  /\ E = [y \in S |-> fe2_encrypt(bits, cipher, y)] /\ E \in [S -> S]
  /\ D = [y \in S |-> fe2_decrypt(bits, cipher, y)] /\ D \in [S -> S]

\* The loops of random_permute and random_unpermute, as walks
Walking(n, cipher, S, E, D, w, v) ==
  /\ IsWalk(S, E, n, w) /\ IsWalk(S, D, n, v)
  /\ \A x : random_permute(n, cipher, x) = w[x] /\ random_unpermute(n, cipher, x) = v[x]

LEMMA WalksAre ==
  ASSUME NEW n \in Nat, NEW cipher, NEW bits \in Nat, NEW S \in SUBSET Nat, NEW E, NEW D,
         Coding(n, cipher, bits, S, E, D)
  PROVE  \E w, v : Walking(n, cipher, S, E, D, w, v)
<1> DEFINE En(f) == f = [y \in S |-> LET z == fe2_encrypt(bits, cipher, y) IN IF z < n THEN z ELSE f[z]]
           De(f) == f = [y \in S |-> LET z == fe2_decrypt(bits, cipher, y) IN IF z < n THEN z ELSE f[z]]
           w == CHOOSE f : En(f)
           v == CHOOSE f : De(f)
<1>1. \A x : random_permute(n, cipher, x) = w[x]
  BY DEF random_permute, Coding
<1>2. \A x : random_unpermute(n, cipher, x) = v[x]
  BY DEF random_unpermute, Coding
<1>3. \A f : En(f) <=> IsWalk(S, E, n, f)
  BY DEF IsWalk, Coding
<1>4. \A f : De(f) <=> IsWalk(S, D, n, f)
  BY DEF IsWalk, Coding
<1>0. E \in [S -> S] /\ D \in [S -> S]
  BY DEF Coding
<1> HIDE DEF En, De
<1>5. \E f : IsWalk(S, E, n, f)
  BY <1>0, WalkExists
<1>6. \E f : IsWalk(S, D, n, f)
  BY <1>0, WalkExists
<1>7. En(w)
  BY <1>3, <1>5
<1>8. De(v)
  BY <1>4, <1>6
<1> HIDE DEF w, v
<1>9. IsWalk(S, E, n, w) /\ IsWalk(S, D, n, v)
  BY <1>3, <1>4, <1>7, <1>8
<1>10. \A x : random_permute(n, cipher, x) = w[x] /\ random_unpermute(n, cipher, x) = v[x]
  BY <1>1, <1>2
<1>11. Walking(n, cipher, S, E, D, w, v)
  BY <1>9, <1>10 DEF Walking
<1> QED
  BY <1>11

\* The two walks, on the powers of 2 that next_log gives
LEMMA WalksInvert ==
  ASSUME NEW n \in Nat, NEW bits \in 1 .. 31, NEW N \in Nat, bits = next_log(n), N = 2^bits, n < N,
         NEW cipher \in [(1 .. 3) \X Nat -> Nat], NEW x \in 0 .. n - 1
  PROVE  /\ random_permute(n, cipher, x) \in 0 .. n - 1
         /\ random_unpermute(n, cipher, random_permute(n, cipher, x)) = x
         /\ random_unpermute(n, cipher, x) \in 0 .. n - 1
         /\ random_permute(n, cipher, random_unpermute(n, cipher, x)) = x
<1>1. PICK S \in SUBSET Nat : S = 0 .. N - 1
  OBVIOUS
<1>2. PICK E : E = [y \in S |-> fe2_encrypt(bits, cipher, y)]
  OBVIOUS
<1>3. PICK D : D = [y \in S |-> fe2_decrypt(bits, cipher, y)]
  OBVIOUS
<1>4. \A y \in S : /\ fe2_encrypt(bits, cipher, y) \in S /\ fe2_decrypt(bits, cipher, fe2_encrypt(bits, cipher, y)) = y
                   /\ fe2_decrypt(bits, cipher, y) \in S /\ fe2_encrypt(bits, cipher, fe2_decrypt(bits, cipher, y)) = y
  <2> TAKE y \in S
  <2>1. y \in 0 .. 2^bits - 1 /\ S = 0 .. 2^bits - 1
    <3>1. S = 0 .. 2^bits - 1
      BY <1>1, Zenon
    <3> QED
      BY <3>1
  <2> QED
    BY <2>1, RoundsUndone
<1>5. E \in [S -> S] /\ D \in [S -> S] /\ \A y \in S : D[E[y]] = y /\ E[D[y]] = y
  BY <1>2, <1>3, <1>4
<1>6. PICK w, v : Walking(n, cipher, S, E, D, w, v)
  <2>1. S = 0 .. 2^bits - 1
    BY <1>1, Zenon
  <2>2. bits \in Nat
    OBVIOUS
  <2>3. Coding(n, cipher, bits, S, E, D)
    BY <2>1, <1>2, <1>3, <1>5 DEF Coding
  <2> QED
    BY <2>2, <2>3, WalksAre
<1>7. IsFiniteSet(S)
  BY <1>1, FS_Interval
<1>8. x \in S /\ x < n
  BY <1>1
<1>9. w[x] \in S /\ w[x] < n /\ v[w[x]] = x
  BY <1>5, <1>6, <1>7, <1>8, WalkRight DEF Walking
<1>10. v[x] \in S /\ v[x] < n /\ w[v[x]] = x
  BY <1>5, <1>6, <1>7, <1>8, WalkRight DEF Walking
<1>11. \A z \in S : z < n => z \in 0 .. n - 1
  BY <1>1
<1>12. random_permute(n, cipher, x) = w[x] /\ random_unpermute(n, cipher, w[x]) = v[w[x]]
  BY <1>6 DEF Walking
<1>13. random_unpermute(n, cipher, x) = v[x] /\ random_permute(n, cipher, v[x]) = w[v[x]]
  BY <1>6 DEF Walking
<1>14. w[x] \in 0 .. n - 1 /\ v[x] \in 0 .. n - 1
  BY <1>9, <1>10, <1>11
<1> QED
  BY <1>9, <1>10, <1>12, <1>13, <1>14

\* Any number of lines below 2^31 is permuted, whatever threefry gives: the loops of
\* random_permute and random_unpermute end, and each undoes the other (permute.cc)
THEOREM PermutationsInvert ==
  ASSUME NEW n \in Nat, n > 0, n < LineLimit, NEW cipher \in [(1 .. 3) \X Nat -> Nat], NEW x \in 0 .. n - 1
  PROVE  /\ random_permute(n, cipher, x) \in 0 .. n - 1
         /\ random_unpermute(n, cipher, random_permute(n, cipher, x)) = x
         /\ random_unpermute(n, cipher, x) \in 0 .. n - 1
         /\ random_permute(n, cipher, random_unpermute(n, cipher, x)) = x
<1>1. PICK bits \in 1 .. 31 : \E N \in Nat : bits = next_log(n) /\ N = 2^bits /\ n < N
  BY NextLogIs
<1>2. PICK N \in Nat : bits = next_log(n) /\ N = 2^bits /\ n < N
  BY <1>1
<1> QED
  BY <1>2, WalksInvert, Zenon

(***************************************************************************)
(* The random partition: the lines of the sections end to end, the ranks'  *)
(* ranges of their permuted numbers, and the blocks found by them.         *)
(***************************************************************************)
\* Vectors of three and of four numbers
LEMMA HighestIs ==
  ASSUME NEW m \in Nat, NEW v, DOMAIN v = 0 .. m
  PROVE  Highest(v) = m
<1>1. Cardinality(0 .. m) = m + 1
  BY FS_Interval
<1> QED
  BY <1>1 DEF Highest

LEMMA VolumeIs ==
  ASSUME NEW v \in [0 .. 2 -> Nat]
  PROVE  Volume(v) = v[2] * (v[1] * v[0])
<1>1. Highest(v) = 2
  BY HighestIs
<1>2. PICK a, b, c : a = v[0] /\ b = v[1] /\ c = v[2]
  OBVIOUS
<1>3. a \in Nat /\ b \in Nat /\ c \in Nat
  BY <1>2
<1> DEFINE Eq(f) == f = [i \in 0 .. 2 |-> v[i] * (IF i = 0 THEN 1 ELSE f[i - 1])]
           g == [i \in 0 .. 2 |-> IF i = 0 THEN a ELSE IF i = 1 THEN b * a ELSE c * (b * a)]
           p == CHOOSE f : Eq(f)
<1>4. Volume(v) = p[2]
  BY <1>1 DEF Volume
<1>5. g[0] = a /\ g[1] = b * a /\ g[2] = c * (b * a)
  OBVIOUS
<1>6. Eq(g)
  <2>1. \A i \in 0 .. 2 : g[i] = v[i] * (IF i = 0 THEN 1 ELSE g[i - 1])
    <3> HIDE DEF g
    <3>1. g[0] = v[0] * 1 /\ g[1] = v[1] * g[0] /\ g[2] = v[2] * g[1]
      BY <1>2, <1>3, <1>5
    <3>2. \A i \in 0 .. 2 : i = 0 \/ (i = 1 /\ i - 1 = 0) \/ (i = 2 /\ i - 1 = 1)
      OBVIOUS
    <3> QED
      BY <3>1, <3>2
  <2>2. g = [i \in 0 .. 2 |-> g[i]]
    OBVIOUS
  <2> HIDE DEF g
  <2> QED
    BY <2>1, <2>2
<1> HIDE DEF Eq
<1>7. Eq(p)
  BY <1>6
<1> HIDE DEF p
<1> USE DEF Eq
<1>8. p[0] = v[0] * 1 /\ p[1] = v[1] * p[0] /\ p[2] = v[2] * p[1]
  <2>1. 0 \in 0 .. 2 /\ 1 \in 0 .. 2 /\ 2 \in 0 .. 2 /\ 1 - 1 = 0 /\ 2 - 1 = 1 /\ 1 # 0 /\ 2 # 0
    OBVIOUS
  <2> QED
    BY <1>7, <2>1
<1>9. p[0] = a /\ p[1] = b * a /\ p[2] = c * (b * a)
  BY <1>2, <1>3, <1>8
<1> QED
  BY <1>2, <1>4, <1>9

\* A place in a box: its number, and what the number decomposes into
LEMMA IndexIs ==
  ASSUME NEW sizes \in [0 .. 2 -> Nat], NEW I \in [0 .. 2 -> Nat]
  PROVE  index(sizes, I) = (I[0] * sizes[1] + I[1]) * sizes[2] + I[2]
<1>1. Highest(sizes) = 2
  BY HighestIs
<1>2. PICK b, c, x, y, z : b = sizes[1] /\ c = sizes[2] /\ x = I[0] /\ y = I[1] /\ z = I[2]
  OBVIOUS
<1>3. b \in Nat /\ c \in Nat /\ x \in Nat /\ y \in Nat /\ z \in Nat
  BY <1>2
<1> DEFINE Eq(f) == f = [i \in 0 .. 2 |-> IF i = 0 THEN I[0] ELSE f[i - 1] * sizes[i] + I[i]]
           g == [i \in 0 .. 2 |-> IF i = 0 THEN x ELSE IF i = 1 THEN x * b + y ELSE (x * b + y) * c + z]
           flat == CHOOSE f : Eq(f)
<1>4. index(sizes, I) = flat[2]
  BY <1>1 DEF index
<1>5. g[0] = x /\ g[1] = x * b + y /\ g[2] = (x * b + y) * c + z
  OBVIOUS
<1>6. Eq(g)
  <2>1. \A i \in 0 .. 2 : g[i] = IF i = 0 THEN I[0] ELSE g[i - 1] * sizes[i] + I[i]
    <3> HIDE DEF g
    <3>1. g[0] = I[0] /\ g[1] = g[0] * sizes[1] + I[1] /\ g[2] = g[1] * sizes[2] + I[2]
      BY <1>2, <1>5
    <3>2. \A i \in 0 .. 2 : i = 0 \/ (i = 1 /\ i - 1 = 0) \/ (i = 2 /\ i - 1 = 1)
      OBVIOUS
    <3> QED
      BY <3>1, <3>2
  <2>2. g = [i \in 0 .. 2 |-> g[i]]
    OBVIOUS
  <2> HIDE DEF g
  <2> QED
    BY <2>1, <2>2
<1> HIDE DEF Eq
<1>7. Eq(flat)
  BY <1>6
<1> HIDE DEF flat
<1> USE DEF Eq
<1>8. flat[0] = I[0] /\ flat[1] = flat[0] * sizes[1] + I[1] /\ flat[2] = flat[1] * sizes[2] + I[2]
  <2>1. 0 \in 0 .. 2 /\ 1 \in 0 .. 2 /\ 2 \in 0 .. 2 /\ 1 - 1 = 0 /\ 2 - 1 = 1 /\ 1 # 0 /\ 2 # 0
    OBVIOUS
  <2> QED
    BY <1>7, <2>1
<1> QED
  BY <1>4, <1>8

LEMMA DecomposeIs ==
  ASSUME NEW sizes \in [0 .. 2 -> Nat \ {0}], NEW n \in Nat
  PROVE  decompose(sizes, n) = [i \in 0 .. 2 |-> IF i = 0 THEN (n \div sizes[2]) \div sizes[1]
                                                ELSE IF i = 1 THEN (n \div sizes[2]) % sizes[1] ELSE n % sizes[2]]
<1>1. Highest(sizes) = 2
  BY HighestIs
<1> DEFINE Eq(f) == f = [i \in 0 .. 2 |-> IF i = 2 THEN n ELSE f[i + 1] \div sizes[i + 1]]
           m == n \div sizes[2]
           g == [i \in 0 .. 2 |-> IF i = 2 THEN n ELSE IF i = 1 THEN m ELSE m \div sizes[1]]
           rest == CHOOSE f : Eq(f)
           whole == [i \in 0 .. 2 |-> IF i = 0 THEN rest[0] ELSE rest[i] % sizes[i]]
<1>2. decompose(sizes, n) = whole
  BY <1>1 DEF decompose
<1>3. g[2] = n /\ g[1] = n \div sizes[2] /\ g[0] = g[1] \div sizes[1]
  OBVIOUS
<1>4. Eq(g)
  <2>1. \A i \in 0 .. 2 : g[i] = IF i = 2 THEN n ELSE g[i + 1] \div sizes[i + 1]
    <3> HIDE DEF g
    <3>1. g[2] = n /\ g[1] = g[2] \div sizes[2] /\ g[0] = g[1] \div sizes[1]
      BY <1>3
    <3>2. \A i \in 0 .. 2 : i = 2 \/ (i = 1 /\ i + 1 = 2 /\ i # 2) \/ (i = 0 /\ i + 1 = 1 /\ i # 2)
      OBVIOUS
    <3> QED
      BY <3>1, <3>2
  <2>2. g = [i \in 0 .. 2 |-> g[i]]
    OBVIOUS
  <2> HIDE DEF g
  <2> QED
    BY <2>1, <2>2
<1> HIDE DEF Eq
<1>5. Eq(rest)
  BY <1>4
<1> HIDE DEF rest
<1> USE DEF Eq
<1>6. rest[2] = n /\ rest[1] = n \div sizes[2] /\ rest[0] = rest[1] \div sizes[1]
  <2>1. 0 \in 0 .. 2 /\ 1 \in 0 .. 2 /\ 2 \in 0 .. 2 /\ 1 + 1 = 2 /\ 0 + 1 = 1 /\ 1 # 2 /\ 0 # 2
    OBVIOUS
  <2> QED
    BY <1>5, <2>1
<1>7. \A i \in 0 .. 2 : i = 0 \/ i = 1 \/ i = 2
  OBVIOUS
<1> HIDE DEF Eq
<1> QED
  BY <1>2, <1>6, <1>7

LEMMA BoxIs ==
  ASSUME NEW sizes \in [0 .. 2 -> Nat], NEW I \in [0 .. 2 -> Nat], \A a \in 0 .. 2 : I[a] < sizes[a]
  PROVE  index(sizes, I) \in 0 .. Volume(sizes) - 1 /\ decompose(sizes, index(sizes, I)) = I
<1>1. PICK a, b, c, x, y, z : a = sizes[0] /\ b = sizes[1] /\ c = sizes[2] /\ x = I[0] /\ y = I[1] /\ z = I[2]
  OBVIOUS
<1>2. a \in Nat /\ b \in Nat /\ c \in Nat /\ x \in Nat /\ y \in Nat /\ z \in Nat /\ x < a /\ y < b /\ z < c
  BY <1>1
<1>3. PICK m \in Nat : m = x * b + y
  BY <1>2
<1>4. PICK n \in Nat : n = m * c + z
  BY <1>2
<1>5. index(sizes, I) = n
  BY <1>1, <1>3, <1>4, IndexIs
<1>6. Volume(sizes) = c * (b * a)
  BY <1>1, VolumeIs
<1>7. n < c * (b * a)
  <2>1. PICK d \in Nat : d = b * a
    BY <1>2
  <2>2. b * x + b <= b * a
    <3>1. b * (x + 1) <= b * a
      BY <1>2, Z3
    <3> QED
      BY <1>2, <3>1, Z3
  <2>3. m + 1 <= d
    <3>1. x * b = b * x
      BY <1>2
    <3> QED
      BY <1>2, <1>3, <2>1, <2>2, <3>1
  <2>4. c * (m + 1) <= c * d
    BY <1>2, <2>1, <2>3, Z3
  <2>5. m * c + c <= c * d
    BY <1>2, <2>1, <2>4, Z3
  <2>6. c * d \in Nat
    BY <1>2, <2>1, Z3
  <2> QED
    BY <1>2, <1>4, <2>1, <2>5, <2>6
<1>8. n % c = z /\ n \div c = m
  <2>1. z \in 0 .. c - 1 /\ c > 0
    BY <1>2
  <2>2. (c * m + z) % c = z /\ (c * m + z) \div c = m
    BY <1>2, <1>3, <2>1, ResidueIs
  <2>3. n = c * m + z
    BY <1>2, <1>3, <1>4
  <2> QED
    BY <2>2, <2>3
<1>9. m % b = y /\ m \div b = x
  <2>1. y \in 0 .. b - 1 /\ b > 0
    BY <1>2
  <2>2. (b * x + y) % b = y /\ (b * x + y) \div b = x
    BY <1>2, <2>1, ResidueIs
  <2>3. m = b * x + y
    BY <1>2, <1>3
  <2> QED
    BY <2>2, <2>3
<1>10. sizes \in [0 .. 2 -> Nat \ {0}]
  BY <1>1, <1>2
<1>11. decompose(sizes, n) = [i \in 0 .. 2 |-> IF i = 0 THEN (n \div c) \div b ELSE IF i = 1 THEN (n \div c) % b ELSE n % c]
  BY <1>1, <1>10, DecomposeIs
<1>12. decompose(sizes, n) = [i \in 0 .. 2 |-> IF i = 0 THEN x ELSE IF i = 1 THEN y ELSE z]
  BY <1>8, <1>9, <1>11
<1>13. decompose(sizes, n) = I
  <2>1. \A i \in 0 .. 2 : i = 0 \/ i = 1 \/ i = 2
    OBVIOUS
  <2>2. I = [i \in 0 .. 2 |-> I[i]]
    OBVIOUS
  <2> QED
    BY <1>1, <1>12, <2>1, <2>2
<1>14. n \in 0 .. Volume(sizes) - 1
  <2>1. c * (b * a) \in Nat
    BY <1>2, Z3
  <2> QED
    BY <1>6, <1>7, <2>1
<1> QED
  BY <1>5, <1>13, <1>14

\* One entry taken out and put back
LEMMA IndexRemoved ==
  ASSUME NEW X, NEW b \in [Quads -> X], NEW k \in Quads
  PROVE  /\ remove_index(b, k) = [i \in 0 .. 2 |-> b[IF i < k THEN i ELSE i + 1]]
         /\ remove_index(b, k) \in [0 .. 2 -> X]
         /\ insert(remove_index(b, k), b[k], k) = b
<1>1. Quads = 0 .. 3 /\ DOMAIN b = 0 .. 3
  BY DEF Quads
<1>2. Highest(b) = 3
  BY <1>1, HighestIs
<1>3. PICK v : v = [i \in 0 .. 2 |-> b[IF i < k THEN i ELSE i + 1]]
  OBVIOUS
<1>4. remove_index(b, k) = v
  BY <1>2, <1>3 DEF remove_index
<1>5. v \in [0 .. 2 -> X]
  BY <1>1, <1>3
<1>6. Highest(v) = 2
  BY <1>5, HighestIs
<1>7. insert(v, b[k], k) = [i \in 0 .. 3 |-> IF i = k THEN b[k] ELSE v[IF i < k THEN i ELSE i - 1]]
  BY <1>6 DEF insert
<1>8. ASSUME NEW i \in 0 .. 3, i # k PROVE v[IF i < k THEN i ELSE i - 1] = b[i]
  <2>1. CASE i < k
    BY <1>1, <1>3, <2>1
  <2>2. CASE ~(i < k)
    <3>1. i - 1 \in 0 .. 2 /\ ~(i - 1 < k) /\ (i - 1) + 1 = i
      BY <1>1, <1>8, <2>2
    <3> QED
      BY <1>3, <2>2, <3>1
  <2> QED
    BY <2>1, <2>2
<1>9. insert(v, b[k], k) = b
  <2>1. b = [i \in 0 .. 3 |-> b[i]]
    BY <1>1
  <2> QED
    BY <1>7, <1>8, <2>1
<1> QED
  BY <1>3, <1>4, <1>5, <1>9

\* One sequence after the other: what the result holds
LEMMA FlattenedIs ==
  ASSUME NEW A, NEW ss \in Seq(Seq(A))
  PROVE  /\ FlattenSeq(ss) \in Seq(A)
         /\ \A x : x \in Range(FlattenSeq(ss)) <=> \E i \in 1 .. Len(ss) : x \in Range(ss[i])
<1>1. PICK n \in Nat : n = Len(ss)
  OBVIOUS
<1>2. \A i \in 1 .. n : ss[i] \in Seq(A)
  BY <1>1
<1>3. CASE n = 0
  <2>1. FlattenSeq(ss) = ss
    BY <1>1, <1>3 DEF FlattenSeq
  <2>2. ss = <<>>
    BY <1>1, <1>3, EmptySeq
  <2>3. ss \in Seq(A) /\ Range(ss) = {}
    BY <2>2, EmptySeq DEF Range
  <2> QED
    BY <1>1, <1>3, <2>1, <2>3
<1>4. CASE n > 0
  <2> DEFINE Eq(f) == f = [i \in 1 .. n |-> IF i = 1 THEN ss[i] ELSE f[i - 1] \o ss[i]]
             flat == CHOOSE f : Eq(f)
             next == [k \in 1 .. n |-> [x \in Seq(A) |-> x \o ss[k]]]
  <2>1. FlattenSeq(ss) = flat[n]
    BY <1>1, <1>4 DEF FlattenSeq
  <2>2. next \in [1 .. n -> [Seq(A) -> Seq(A)]]
    BY <1>2
  <2>3. PICK f : InSteps(f, Seq(A), n, <<>>, next)
    <3>1. PICK X : X = Seq(A)
      OBVIOUS
    <3>2. PICK base \in X : base = <<>>
      <4>1. <<>> \in Seq(A)
        BY EmptySeq
      <4> QED
        BY <3>1, <4>1
    <3>3. PICK then \in [1 .. n -> [X -> X]] : then = next
      BY <2>2, <3>1
    <3> HIDE DEF next
    <3> QED
      BY <3>1, <3>2, <3>3, Recursion
  <2>4. \A i \in 1 .. n : f[i - 1] \in Seq(A) /\ f[i] = f[i - 1] \o ss[i]
    <3> TAKE i \in 1 .. n
    <3>1. i - 1 \in 0 .. n
      OBVIOUS
    <3> QED
      BY <2>3, <3>1 DEF InSteps
  <2> DEFINE g == [i \in 1 .. n |-> f[i]]
  <2>5. Eq(g)
    <3>1. \A i \in 1 .. n : g[i] = IF i = 1 THEN ss[i] ELSE g[i - 1] \o ss[i]
      <4> TAKE i \in 1 .. n
      <4>1. CASE i = 1
        <5>0. f[0] = <<>> /\ 1 - 1 = 0 /\ 1 \in 1 .. n
          BY <2>3, <4>1 DEF InSteps
        <5>1. f[1] = <<>> \o ss[1]
          <6> HIDE DEF next
          <6> QED
            BY <2>4, <5>0
        <5>2. <<>> \o ss[1] = ss[1]
          BY <1>2, <4>1
        <5> QED
          BY <4>1, <5>1, <5>2
      <4>2. CASE i # 1
        <5>1. i - 1 \in 1 .. n
          BY <4>2
        <5> QED
          BY <2>4, <4>2, <5>1
      <4> QED
        BY <4>1, <4>2
    <3> HIDE DEF g
    <3>2. g = [i \in 1 .. n |-> g[i]]
      BY DEF g
    <3> QED
      BY <3>1, <3>2
  <2> HIDE DEF Eq, next
  <2>6. Eq(flat)
    BY <2>5
  <2> HIDE DEF flat
  <2>7. \A i \in 1 .. n : flat[i] = IF i = 1 THEN ss[i] ELSE flat[i - 1] \o ss[i]
    BY <2>6 DEF Eq
  <2> DEFINE Right(i) == /\ flat[i] \in Seq(A)
                         /\ \A x : x \in Range(flat[i]) <=> \E j \in 1 .. i : x \in Range(ss[j])
             Bad == {i \in 1 .. n : ~Right(i)}
  <2>8. Bad = {}
    <3> SUFFICES ASSUME Bad # {} PROVE FALSE
      OBVIOUS
    <3>1. PICK i \in Bad : \A j \in Bad : i <= j
      <4>1. Bad \in SUBSET Nat
        OBVIOUS
      <4> HIDE DEF Bad
      <4> QED
        BY <4>1, LeastOf
    <3>2. i \in 1 .. n /\ ~Right(i)
      BY <3>1
    <3>3. i # 1
      <4> SUFFICES ASSUME i = 1 PROVE FALSE
        OBVIOUS
      <4>1. flat[1] = ss[1]
        BY <2>7, <3>2
      <4>2. \A j \in 1 .. 1 : j = 1
        OBVIOUS
      <4>3. Right(1)
        BY <1>2, <3>2, <4>1, <4>2
      <4> QED
        BY <3>2, <4>3
    <3>4. i - 1 \in 1 .. n /\ ~(i <= i - 1)
      BY <3>2, <3>3
    <3>5. Right(i - 1)
      <4> HIDE DEF Right
      <4> QED
        BY <3>1, <3>4
    <3>6. flat[i] = flat[i - 1] \o ss[i]
      BY <2>7, <3>2, <3>3
    <3>7. PICK s \in Seq(A), t \in Seq(A) : s = flat[i - 1] /\ t = ss[i] /\ flat[i] = s \o t
      BY <1>2, <3>2, <3>5, <3>6
    <3>8. s \o t \in Seq(A) /\ \A x : x \in Range(s \o t) <=> x \in Range(s) \/ x \in Range(t)
      <4>1. s \o t \in Seq(A) /\ Len(s \o t) = Len(s) + Len(t)
        OBVIOUS
      <4>2. \A k \in 1 .. Len(s) : (s \o t)[k] = s[k]
        OBVIOUS
      <4>3. \A k \in 1 .. Len(t) : (s \o t)[Len(s) + k] = t[k]
        OBVIOUS
      <4>4. \A k \in 1 .. Len(s) + Len(t) : k \in 1 .. Len(s) \/ \E h \in 1 .. Len(t) : k = Len(s) + h
        <5> TAKE k \in 1 .. Len(s) + Len(t)
        <5>1. CASE k <= Len(s)
          BY <5>1
        <5>2. CASE ~(k <= Len(s))
          <6>1. k - Len(s) \in 1 .. Len(t) /\ k = Len(s) + (k - Len(s))
            BY <5>2
          <6> QED
            BY <6>1
        <5> QED
          BY <5>1, <5>2
      <4>5. \A k \in 1 .. Len(s) : k \in 1 .. Len(s) + Len(t)
        OBVIOUS
      <4>6. \A k \in 1 .. Len(t) : Len(s) + k \in 1 .. Len(s) + Len(t)
        OBVIOUS
      <4>7. DOMAIN s = 1 .. Len(s) /\ DOMAIN t = 1 .. Len(t) /\ DOMAIN (s \o t) = 1 .. Len(s) + Len(t)
        BY <4>1
      <4>8. ASSUME NEW x, x \in Range(s \o t) PROVE x \in Range(s) \/ x \in Range(t)
        <5>1. PICK k \in 1 .. Len(s) + Len(t) : x = (s \o t)[k]
          BY <4>7, <4>8 DEF Range
        <5> QED
          BY <4>2, <4>3, <4>4, <4>7, <5>1 DEF Range
      <4>9. ASSUME NEW x, x \in Range(s) \/ x \in Range(t) PROVE x \in Range(s \o t)
        BY <4>2, <4>3, <4>5, <4>6, <4>7, <4>9 DEF Range
      <4> QED
        BY <4>1, <4>8, <4>9
    <3>9. \A x : (\E j \in 1 .. i : x \in Range(ss[j])) <=> (\E j \in 1 .. i - 1 : x \in Range(ss[j])) \/ x \in Range(ss[i])
      <4>1. \A j \in 1 .. i : j \in 1 .. i - 1 \/ j = i
        BY <3>2
      <4>2. i \in 1 .. i /\ \A j \in 1 .. i - 1 : j \in 1 .. i
        BY <3>2
      <4> QED
        BY <4>1, <4>2
    <3>10. Right(i)
      <4>1. \A x : x \in Range(flat[i]) <=> \E j \in 1 .. i : x \in Range(ss[j])
        BY <3>5, <3>7, <3>8, <3>9
      <4>2. flat[i] \in Seq(A)
        BY <3>7, <3>8
      <4> QED
        BY <4>1, <4>2
    <3> HIDE DEF Right
    <3> QED
      BY <3>2, <3>10
  <2>9. Right(n)
    <3>1. n \in 1 .. n
      BY <1>4
    <3> HIDE DEF Right
    <3> QED
      BY <2>8, <3>1
  <2> QED
    BY <1>1, <2>1, <2>9
<1> QED
  BY <1>3, <1>4

\* There is a member of any rank
LEMMA NthIs ==
  ASSUME NEW S \in SUBSET Nat, IsFiniteSet(S), NEW i \in Nat, i < Cardinality(S)
  PROVE  Nth(S, i) \in S
<1>1. PICK c \in Nat : c = Cardinality(S)
  BY FS_CardinalityType
<1> DEFINE Below(x) == {y \in S : y < x}
           Reached(j) == \E x \in S : Cardinality(Below(x)) = j
           Bad == {j \in 0 .. i : ~Reached(j)}
<1>2. \A x \in S : IsFiniteSet(Below(x))
  <2>1. \A x \in S : Below(x) \subseteq S
    OBVIOUS
  <2> HIDE DEF Below
  <2> QED
    BY <2>1, FS_Subset
<1>3. Bad = {}
  <2> SUFFICES ASSUME Bad # {} PROVE FALSE
    OBVIOUS
  <2>1. PICK j \in Bad : \A k \in Bad : j <= k
    <3>1. Bad \in SUBSET Nat
      OBVIOUS
    <3> HIDE DEF Bad
    <3> QED
      BY <3>1, LeastOf
  <2>2. j \in 0 .. i /\ ~Reached(j)
    BY <2>1
  <2>3. CASE j = 0
    <3>1. S # {}
      BY <1>1, FS_EmptySet
    <3>2. PICK x \in S : \A y \in S : x <= y
      BY <3>1, LeastOf
    <3>3. \A y \in S : ~(y < x)
      BY <3>2
    <3>4. Below(x) = {}
      BY <3>3
    <3>5. Cardinality(Below(x)) = 0
      <4> HIDE DEF Below
      <4> QED
        BY <3>4, FS_EmptySet
    <3> QED
      BY <2>2, <2>3, <3>5
  <2>4. CASE j # 0
    <3>1. j - 1 \in 0 .. i /\ ~(j <= j - 1)
      BY <2>2, <2>4
    <3>2. Reached(j - 1)
      <4> HIDE DEF Reached
      <4> QED
        BY <2>1, <3>1
    <3>3. PICK x \in S : Cardinality(Below(x)) = j - 1
      BY <3>2
    <3> DEFINE C == Below(x) \cup {x}
    <3>4. IsFiniteSet(C) /\ Cardinality(C) = j
      <4>1. x \notin Below(x)
        OBVIOUS
      <4>2. PICK B : B = Below(x)
        OBVIOUS
      <4>3. IsFiniteSet(B) /\ x \notin B /\ Cardinality(B) = j - 1
        BY <1>2, <3>3, <4>1, <4>2
      <4>4. IsFiniteSet(B \cup {x}) /\ Cardinality(B \cup {x}) = Cardinality(B) + 1
        BY <4>3, FS_AddElement
      <4>5. (j - 1) + 1 = j
        BY <2>2
      <4> HIDE DEF Below
      <4> QED
        BY <4>2, <4>3, <4>4, <4>5
    <3>5. S \ C # {}
      <4> SUFFICES ASSUME S \ C = {} PROVE FALSE
        OBVIOUS
      <4>1. S = C
        OBVIOUS
      <4>2. c = j
        BY <1>1, <3>4, <4>1
      <4> QED
        BY <1>1, <2>2, <4>2
    <3>6. PICK z \in S \ C : \A y \in S \ C : z <= y
      <4>1. S \ C \in SUBSET Nat
        OBVIOUS
      <4> QED
        BY <3>5, <4>1, LeastOf
    <3>7. x < z
      BY <3>6
    <3>8. ASSUME NEW y \in S PROVE y < z <=> y \in C
      <4>1. ASSUME y < z PROVE y \in C
        <5>1. ~(z <= y)
          BY <4>1
        <5> QED
          BY <3>6, <5>1
      <4>2. ASSUME y \in C PROVE y < z
        BY <3>7, <4>2
      <4> QED
        BY <4>1, <4>2
    <3>9. Below(z) = C
      BY <3>8
    <3> HIDE DEF Below, C
    <3>10. Cardinality(Below(z)) = j
      BY <3>4, <3>9
    <3>11. z \in S
      BY <3>6
    <3> QED
      BY <2>2, <3>10, <3>11
  <2> QED
    BY <2>3, <2>4
<1>4. Reached(i)
  <2>1. i \in 0 .. i
    OBVIOUS
  <2> HIDE DEF Reached
  <2> QED
    BY <1>3, <2>1
<1>5. \E x \in S : IndexIn(S, x) = i
  BY <1>4 DEF IndexIn
<1> QED
  BY <1>5 DEF Nth

\* Where each of several lengths begins when they are laid end to end
AreOffsets(off, n, lens) ==
  /\ off \in [1 .. n + 1 -> Nat] /\ off[1] = 0
  /\ \A i \in 1 .. n : off[i + 1] = off[i] + lens[i]

LEMMA OffsetsRise ==
  ASSUME NEW n \in Nat, NEW lens \in [1 .. n -> Nat], NEW off, AreOffsets(off, n, lens),
         NEW i \in 1 .. n + 1, NEW j \in i .. n + 1
  PROVE  off[i] <= off[j]
<1> DEFINE Bad == {k \in i .. n + 1 : ~(off[i] <= off[k])}
<1>1. \A k \in 1 .. n + 1 : off[k] \in Nat
  BY DEF AreOffsets
<1>2. SUFFICES ASSUME Bad # {} PROVE FALSE
  OBVIOUS
<1>3. PICK k \in Bad : \A h \in Bad : k <= h
  <2>1. Bad \in SUBSET Nat
    OBVIOUS
  <2> HIDE DEF Bad
  <2> QED
    BY <1>2, <2>1, LeastOf
<1>4. k \in i .. n + 1 /\ ~(off[i] <= off[k])
  BY <1>3
<1>5. k # i
  BY <1>1, <1>4
<1>6. k - 1 \in i .. n + 1 /\ k - 1 \in 1 .. n /\ (k - 1) + 1 = k /\ ~(k <= k - 1)
  BY <1>4, <1>5
<1>7. off[i] <= off[k - 1]
  BY <1>3, <1>6
<1>8. off[k] = off[k - 1] + lens[k - 1]
  BY <1>6 DEF AreOffsets
<1>9. lens[k - 1] \in Nat /\ off[k - 1] \in Nat /\ off[i] \in Nat
  BY <1>1, <1>6
<1> QED
  BY <1>4, <1>7, <1>8, <1>9

\* The last of them that begins no later than x
LastBefore(off, n, x) == Max({j \in 1 .. n : off[j] <= x})

LEMMA OffsetFound ==
  ASSUME NEW n \in Nat, NEW lens \in [1 .. n -> Nat], NEW off, AreOffsets(off, n, lens),
         NEW i \in 1 .. n, NEW m \in 0 .. lens[i] - 1
  PROVE  /\ off[i] + m \in 0 .. off[n + 1] - 1
         /\ LastBefore(off, n, off[i] + m) = i
<1>1. \A k \in 1 .. n + 1 : off[k] \in Nat
  BY DEF AreOffsets
<1>2. off[i + 1] = off[i] + lens[i]
  BY DEF AreOffsets
<1>3. lens[i] \in Nat /\ off[i] \in Nat /\ i + 1 \in 1 .. n + 1 /\ m < lens[i]
  BY <1>1
<1>4. ASSUME NEW j \in 1 .. n + 1, j > i PROVE off[i] + m < off[j]
  <2>1. j \in i + 1 .. n + 1
    BY <1>4
  <2>2. off[i + 1] <= off[j]
    BY <1>3, <2>1, OffsetsRise
  <2>3. off[j] \in Nat
    BY <1>1
  <2> QED
    BY <1>2, <1>3, <2>2, <2>3
<1>5. off[i] + m \in 0 .. off[n + 1] - 1
  <2>1. n + 1 \in 1 .. n + 1 /\ n + 1 > i
    OBVIOUS
  <2>2. off[i] + m < off[n + 1] /\ off[n + 1] \in Nat
    BY <1>1, <1>4, <2>1
  <2> QED
    BY <1>3, <2>2
<1> DEFINE T == {j \in 1 .. n : off[j] <= off[i] + m}
<1>6. i \in T
  BY <1>3
<1>7. \A j \in T : i >= j
  <2> TAKE j \in T
  <2>1. j \in 1 .. n /\ j \in 1 .. n + 1 /\ off[j] <= off[i] + m /\ off[j] \in Nat
    BY <1>1
  <2>2. ~(j > i)
    BY <1>3, <1>4, <2>1
  <2> QED
    BY <2>1, <2>2
<1>8. \A x \in T : (\A y \in T : x >= y) => x = i
  <2> TAKE x \in T
  <2> HAVE \A y \in T : x >= y
  <2>1. x >= i /\ i >= x
    BY <1>6, <1>7
  <2>2. x \in Nat
    OBVIOUS
  <2> QED
    BY <2>1, <2>2
<1>9. Max(T) = i
  <2> HIDE DEF T
  <2> QED
    BY <1>6, <1>7, <1>8 DEF Max
<1> QED
  BY <1>5, <1>9 DEF LastBefore

\* The lines of a section in one direction
BlocksFit(s) == section_blocks(s) \in [Quads -> 1 .. 64]

SheafsOf(sections) == {Sheaf(s, k) : s \in Range(sections), k \in Quads}

LEMMA SheafIs ==
  ASSUME NEW s, BlocksFit(s), NEW k \in Quads
  PROVE  LET across == remove_index(section_blocks(s), k)
         IN /\ Sheaf(s, k) = [section |-> s, dimension |-> k, length |-> section_blocks(s)[k], sizes |-> across,
                              lines |-> Volume(across)]
            /\ across \in [0 .. 2 -> 1 .. 64] /\ Volume(across) \in Nat
<1>1. PICK X : X = 1 .. 64
  OBVIOUS
<1>2. PICK N \in [Quads -> X] : N = section_blocks(s)
  BY <1>1 DEF BlocksFit
<1>3. PICK v \in [0 .. 2 -> X] : v = remove_index(N, k)
  BY <1>2, IndexRemoved
<1>4. Sheaf(s, k) = [section |-> s, dimension |-> k, length |-> N[k], sizes |-> v, lines |-> Volume(v)]
  BY <1>2, <1>3 DEF Sheaf
<1>5. v \in [0 .. 2 -> Nat]
  BY <1>1, <1>3
<1>6. Volume(v) \in Nat
  <2>1. Volume(v) = v[2] * (v[1] * v[0])
    BY <1>5, VolumeIs
  <2>2. PICK a \in Nat, b \in Nat, c \in Nat : a = v[0] /\ b = v[1] /\ c = v[2]
    BY <1>5
  <2>3. c * (b * a) \in Nat
    BY Z3
  <2> QED
    BY <2>1, <2>2, <2>3
<1> QED
  BY <1>1, <1>2, <1>3, <1>4, <1>6

LEMMA SheafsAre ==
  ASSUME NEW A, NEW sections \in Seq(A)
  PROVE  /\ Sheafs(sections) \in Seq(SheafsOf(sections))
         /\ \A s \in Range(sections) : \A k \in Open(s) : Sheaf(s, k) \in Range(Sheafs(sections))
<1>1. PICK n \in Nat : n = Len(sections)
  OBVIOUS
<1>2. DOMAIN sections = 1 .. n
  BY <1>1
<1>3. PICK S : S = SheafsOf(sections)
  OBVIOUS
<1>4. \A s \in Range(sections), k \in Quads : Sheaf(s, k) \in S
  BY <1>3 DEF SheafsOf
<1>5. \A i \in 1 .. n : sections[i] \in Range(sections)
  BY <1>2 DEF Range
<1> DEFINE Has(s, k) == IF k - 1 \in Open(s) THEN <<Sheaf(s, k - 1)>> ELSE <<>>
           One(s) == [k \in 1 .. 4 |-> Has(s, k)]
           all == [i \in 1 .. n |-> FlattenSeq(One(sections[i]))]
<1>6. Sheafs(sections) = FlattenSeq(all)
  BY <1>1 DEF Sheafs
<1>7. ASSUME NEW s \in Range(sections)
      PROVE  /\ FlattenSeq(One(s)) \in Seq(S)
             /\ \A k \in Open(s) : Sheaf(s, k) \in Range(FlattenSeq(One(s)))
  <2>1. ASSUME NEW k \in 1 .. 4 PROVE Has(s, k) \in Seq(S)
    <3>1. CASE k - 1 \in Open(s)
      <4>1. k - 1 \in Quads
        BY <3>1 DEF Open
      <4>2. PICK x \in S : x = Sheaf(s, k - 1)
        BY <1>4, <4>1
      <4>3. <<x>> \in Seq(S)
        OBVIOUS
      <4> QED
        BY <3>1, <4>2, <4>3
    <3>2. CASE ~(k - 1 \in Open(s))
      BY <3>2, EmptySeq
    <3> QED
      BY <3>1, <3>2
  <2> HIDE DEF Has
  <2>2. PICK o : o = One(s)
    OBVIOUS
  <2>3. o \in Seq(Seq(S)) /\ Len(o) = 4
    <3>1. PICK m \in Nat : m = 4
      OBVIOUS
    <3>2. o \in [1 .. m -> Seq(S)]
      BY <2>1, <2>2, <3>1
    <3>3. \A T, u : u \in [1 .. m -> T] => u \in Seq(T) /\ Len(u) = m
      OBVIOUS
    <3> QED
      BY <3>1, <3>2, <3>3
  <2>4. FlattenSeq(o) \in Seq(S) /\ \A x : x \in Range(FlattenSeq(o)) <=> \E i \in 1 .. Len(o) : x \in Range(o[i])
    BY <2>3, FlattenedIs
  <2>5. ASSUME NEW k \in Open(s) PROVE Sheaf(s, k) \in Range(FlattenSeq(o))
    <3>1. k \in Quads
      BY DEF Open
    <3>2. PICK h \in 1 .. 4 : h = k + 1 /\ h - 1 = k
      BY <3>1 DEF Quads
    <3>3. PICK x : x = Sheaf(s, k)
      OBVIOUS
    <3>4. o[h] = Has(s, h)
      BY <2>2
    <3>5. Has(s, h) = <<x>>
      BY <3>2, <3>3 DEF Has
    <3>6. x \in Range(<<x>>)
      BY DEF Range
    <3>7. x \in Range(o[h])
      BY <3>4, <3>5, <3>6
    <3> QED
      BY <2>3, <2>4, <3>3, <3>7
  <2> QED
    BY <2>2, <2>4, <2>5
<1> HIDE DEF One
<1>8. PICK f : f = all
  OBVIOUS
<1>9. f \in Seq(Seq(S)) /\ Len(f) = n
  <2>1. f \in [1 .. n -> Seq(S)]
    BY <1>5, <1>7, <1>8
  <2>2. \A T, u : u \in [1 .. n -> T] => u \in Seq(T) /\ Len(u) = n
    OBVIOUS
  <2> QED
    BY <2>1, <2>2
<1>10. FlattenSeq(f) \in Seq(S) /\ \A x : x \in Range(FlattenSeq(f)) <=> \E i \in 1 .. Len(f) : x \in Range(f[i])
  BY <1>9, FlattenedIs
<1>11. ASSUME NEW s \in Range(sections), NEW k \in Open(s) PROVE Sheaf(s, k) \in Range(FlattenSeq(f))
  <2>1. PICK i \in 1 .. n : s = sections[i]
    BY <1>2 DEF Range
  <2>2. f[i] = FlattenSeq(One(s))
    BY <1>8, <2>1
  <2>3. Sheaf(s, k) \in Range(f[i])
    BY <1>7, <2>2
  <2> QED
    BY <1>9, <1>10, <2>3
<1> QED
  BY <1>3, <1>6, <1>8, <1>10, <1>11

\* What the constructor of the partition makes
Partitioned(P, cipher, ranks, sections, n, tally, off) ==
  /\ n = Len(Sheafs(sections)) /\ tally \in [1 .. n -> Nat]
  /\ \A i \in 1 .. n : tally[i] = Sheafs(sections)[i].lines
  /\ AreOffsets(off, n, tally)
  /\ P = [cipher |-> cipher, ranks |-> ranks, sections |-> sections, sheafs |-> Sheafs(sections),
          line_offset |-> off, total_lines |-> off[n + 1]]

LEMMA PartitionIs ==
  ASSUME NEW cipher, NEW ranks, NEW A, NEW sections \in Seq(A), \A s \in Range(sections) : BlocksFit(s)
  PROVE  \E n \in Nat : \E tally, off : Partitioned(random_partition(cipher, ranks, sections), cipher, ranks, sections, n, tally, off)
<1>1. PICK S : S = SheafsOf(sections)
  OBVIOUS
<1>2. PICK sheafs \in Seq(S) : sheafs = Sheafs(sections)
  BY <1>1, SheafsAre
<1>3. PICK n \in Nat : n = Len(sheafs)
  BY <1>2
<1>4. ASSUME NEW i \in 1 .. n PROVE sheafs[i].lines \in Nat
  <2>1. sheafs[i] \in S
    BY <1>2, <1>3
  <2>2. PICK s \in Range(sections), k \in Quads : sheafs[i] = Sheaf(s, k)
    BY <1>1, <2>1 DEF SheafsOf
  <2> QED
    BY <2>2, SheafIs
<1>5. PICK tally : tally = [i \in 1 .. n |-> sheafs[i].lines]
  OBVIOUS
<1>6. tally \in [1 .. n -> Nat]
  BY <1>4, <1>5
<1> DEFINE Eq(f) == f = [i \in 1 .. n + 1 |-> IF i = 1 THEN 0 ELSE f[i - 1] + sheafs[i - 1].lines]
           off == CHOOSE f : Eq(f)
           next == [k \in 1 .. n |-> [x \in Nat |-> x + tally[k]]]
           P == random_partition(cipher, ranks, sections)
<1>7. P = [cipher |-> cipher, ranks |-> ranks, sections |-> sections, sheafs |-> sheafs,
           line_offset |-> off, total_lines |-> off[n + 1]]
  BY <1>2, <1>3 DEF random_partition
<1>8. next \in [1 .. n -> [Nat -> Nat]]
  BY <1>6
<1>9. PICK f : InSteps(f, Nat, n, 0, next)
  <2>1. PICK X : X = Nat
    OBVIOUS
  <2>2. PICK base \in X : base = 0
    BY <2>1
  <2>3. PICK then \in [1 .. n -> [X -> X]] : then = next
    BY <1>8, <2>1
  <2> HIDE DEF next
  <2> QED
    BY <2>1, <2>2, <2>3, Recursion
<1> DEFINE g == [i \in 1 .. n + 1 |-> f[i - 1]]
<1>10. Eq(g)
  <2>1. ASSUME NEW i \in 1 .. n + 1 PROVE g[i] = IF i = 1 THEN 0 ELSE g[i - 1] + sheafs[i - 1].lines
    <3>1. CASE i = 1
      <4>1. 1 - 1 = 0 /\ 1 \in 1 .. n + 1
        OBVIOUS
      <4>2. f[0] = 0
        BY <1>9 DEF InSteps
      <4> QED
        BY <3>1, <4>1, <4>2
    <3>2. CASE i # 1
      <4>1. PICK h \in 1 .. n : h = i - 1
        BY <3>2
      <4>2. h \in 1 .. n + 1 /\ h - 1 \in 0 .. n
        OBVIOUS
      <4>3. f[h] = next[h][f[h - 1]] /\ f[h - 1] \in Nat
        BY <1>9, <4>2 DEF InSteps
      <4>4. f[h] = f[h - 1] + tally[h]
        BY <4>3
      <4>5. tally[h] = sheafs[h].lines
        BY <1>5
      <4> QED
        BY <3>2, <4>1, <4>2, <4>4, <4>5
    <3> QED
      BY <3>1, <3>2
  <2> HIDE DEF g
  <2>2. g = [i \in 1 .. n + 1 |-> g[i]]
    BY DEF g
  <2> QED
    BY <2>1, <2>2
<1> HIDE DEF Eq, next, g
<1>11. Eq(off)
  BY <1>10
<1> HIDE DEF off, P
<1>12. \A i \in 1 .. n + 1 : off[i] = IF i = 1 THEN 0 ELSE off[i - 1] + sheafs[i - 1].lines
  BY <1>11 DEF Eq
<1>13. DOMAIN off = 1 .. n + 1 /\ off = [i \in 1 .. n + 1 |-> off[i]]
  BY <1>11 DEF Eq
<1> DEFINE Bad == {i \in 1 .. n + 1 : off[i] \notin Nat}
<1>14. Bad = {}
  <2> SUFFICES ASSUME Bad # {} PROVE FALSE
    OBVIOUS
  <2>1. PICK i \in Bad : \A j \in Bad : i <= j
    <3>1. Bad \in SUBSET Nat
      OBVIOUS
    <3> HIDE DEF Bad
    <3> QED
      BY <3>1, LeastOf
  <2>2. i \in 1 .. n + 1 /\ off[i] \notin Nat
    BY <2>1
  <2>3. i # 1
    BY <1>12, <2>2
  <2>4. i - 1 \in 1 .. n /\ i - 1 \in 1 .. n + 1 /\ ~(i <= i - 1)
    BY <2>2, <2>3
  <2>5. off[i - 1] \in Nat
    BY <2>1, <2>4
  <2>6. sheafs[i - 1].lines \in Nat
    BY <1>4, <2>4
  <2>7. off[i] = off[i - 1] + sheafs[i - 1].lines
    BY <1>12, <2>2, <2>3
  <2> QED
    BY <2>2, <2>5, <2>6, <2>7
<1>15. AreOffsets(off, n, tally)
  <2>1. off[1] = 0
    <3>1. 1 \in 1 .. n + 1
      OBVIOUS
    <3> QED
      BY <1>12, <3>1
  <2>2. off \in [1 .. n + 1 -> Nat]
    BY <1>13, <1>14
  <2>3. ASSUME NEW i \in 1 .. n PROVE off[i + 1] = off[i] + tally[i]
    <3>1. i + 1 \in 1 .. n + 1 /\ i + 1 # 1 /\ (i + 1) - 1 = i
      OBVIOUS
    <3> QED
      BY <1>5, <1>12, <3>1
  <2> QED
    BY <2>1, <2>2, <2>3 DEF AreOffsets
<1>16. Partitioned(P, cipher, ranks, sections, n, tally, off)
  BY <1>2, <1>3, <1>5, <1>6, <1>7, <1>15 DEF Partitioned
<1>17. \E l, o : Partitioned(P, cipher, ranks, sections, n, l, o)
  BY <1>16
<1> QED
  BY <1>17 DEF P

\* The permuted number of a line leads to the line
LEMMA LineFound ==
  ASSUME NEW cipher \in [(1 .. 3) \X Nat -> Nat], NEW ranks, NEW sections, NEW n \in Nat, NEW tally, NEW off,
         NEW P, Partitioned(P, cipher, ranks, sections, n, tally, off), P.total_lines < LineLimit,
         NEW i \in 1 .. n, NEW m \in 0 .. tally[i] - 1
  PROVE  /\ P.total_lines \in Nat \ {0}
         /\ random_unpermute(P.total_lines, cipher, off[i] + m) \in 0 .. P.total_lines - 1
         /\ nth_line(P, random_unpermute(P.total_lines, cipher, off[i] + m)) = LineAt(Sheafs(sections)[i], m)
<1>1. PICK sheafs : sheafs = Sheafs(sections)
  OBVIOUS
<1>2. PICK total : total = off[n + 1]
  OBVIOUS
<1>3. P.cipher = cipher /\ P.sheafs = sheafs /\ P.line_offset = off /\ P.total_lines = total /\ n = Len(sheafs)
  BY <1>1, <1>2 DEF Partitioned
<1>0. tally \in [1 .. n -> Nat] /\ AreOffsets(off, n, tally)
  BY DEF Partitioned
<1>4. off[i] + m \in 0 .. total - 1 /\ LastBefore(off, n, off[i] + m) = i
  <2>1. PICK lens \in [1 .. n -> Nat] : lens = tally
    BY <1>0
  <2>2. m \in 0 .. lens[i] - 1 /\ AreOffsets(off, n, lens)
    BY <1>0, <2>1
  <2>3. off[i] + m \in 0 .. off[n + 1] - 1 /\ LastBefore(off, n, off[i] + m) = i
    BY <2>2, OffsetFound, SMTT(40)
  <2> QED
    BY <1>2, <2>3
<1>5. off[i] \in Nat /\ total \in Nat
  <2>1. n + 1 \in 1 .. n + 1 /\ i \in 1 .. n + 1
    OBVIOUS
  <2> QED
    BY <1>0, <1>2, <2>1 DEF AreOffsets
<1>6. PICK x \in 0 .. total - 1 : x = off[i] + m
  BY <1>4
<1>7. total \in Nat /\ total > 0 /\ total < LineLimit
  <2>1. total # 0
    BY <1>5, <1>6
  <2>2. total < LineLimit
    BY <1>3
  <2> QED
    BY <1>5, <2>1, <2>2
<1>8. PICK y : y = random_unpermute(total, cipher, x)
  OBVIOUS
<1>9. y \in 0 .. total - 1 /\ random_permute(total, cipher, y) = x
  BY <1>7, <1>8, PermutationsInvert
<1>10. x - off[i] = m
  BY <1>5, <1>6
<1>11. LastBefore(off, n, x) = i
  BY <1>4, <1>6
<1>12. nth_line(P, y) = LineAt(sheafs[i], m)
  <2> DEFINE z == random_permute(P.total_lines, P.cipher, y)
             h == LastBefore(P.line_offset, Len(P.sheafs), z)
  <2>1. nth_line(P, y) = LineAt(P.sheafs[h], z - P.line_offset[h])
    BY DEF nth_line, LastBefore
  <2>2. z = x
    BY <1>3, <1>9
  <2>3. h = i
    BY <1>3, <1>11, <2>2
  <2> HIDE DEF z, h
  <2> QED
    BY <1>3, <1>10, <2>1, <2>2, <2>3
<1> QED
  BY <1>1, <1>3, <1>6, <1>7, <1>8, <1>9, <1>12

\* The direction that a block's event picks is one in which there is a line
LEMMA OwnerIs ==
  ASSUME NEW s, Open(s) # {}, NEW b, NEW primary, primary[<<s, b>>] \in Nat
  PROVE  owner_dimension(primary, s, b) \in Open(s) /\ owner_dimension(primary, s, b) \in Quads
<1>1. PICK O : O = Open(s)
  OBVIOUS
<1>2. O \in SUBSET (0 .. 3)
  BY <1>1 DEF Open, Quads
<1>3. IsFiniteSet(O) /\ O \in SUBSET Nat
  <2>1. PICK j \in Int : j = 3
    OBVIOUS
  <2>2. 0 \in Int
    OBVIOUS
  <2>3. PICK T : T = 0 .. j
    OBVIOUS
  <2>4. IsFiniteSet(T)
    BY <2>2, <2>3, FS_Interval
  <2>5. O \in SUBSET T
    BY <1>2, <2>1, <2>3
  <2>6. IsFiniteSet(O)
    BY <2>4, <2>5, FS_Subset
  <2>7. O \in SUBSET Nat
    BY <1>2
  <2> QED
    BY <2>6, <2>7
<1>4. PICK c \in Nat : c = Cardinality(O) /\ c # 0
  BY <1>1, <1>3, FS_CardinalityType, FS_EmptySet
<1>5. PICK e \in Nat : e = primary[<<s, b>>]
  OBVIOUS
<1>6. PICK i \in Nat : i = (IF c = 1 THEN 0 ELSE e % c) /\ i < c
  <2>1. e % c \in 0 .. c - 1
    BY <1>4, Z3
  <2> QED
    BY <1>4, <2>1
<1>7. owner_dimension(primary, s, b) = Nth(O, i)
  BY <1>1, <1>4, <1>5, <1>6 DEF owner_dimension
<1>8. Nth(O, i) \in O
  BY <1>3, <1>4, <1>6, NthIs
<1> QED
  BY <1>1, <1>2, <1>7, <1>8 DEF Quads

\* The line through a block in a direction, and the block's place on it
InBox(b, s) == b \in [Quads -> Nat] /\ \A q \in Quads : b[q] < section_blocks(s)[q]

Through(m, base, s, b, k) ==
  /\ m = index(Sheaf(s, k).sizes, remove_index(b, k)) /\ m \in 0 .. Sheaf(s, k).lines - 1
  /\ LineAt(Sheaf(s, k), m) = [section |-> s, dimension |-> k, length |-> section_blocks(s)[k], block_base |-> base]
  /\ insert(base, b[k], k) = b
  /\ b[k] \in 0 .. 63 /\ b[k] \in 0 .. section_blocks(s)[k] - 1

LEMMA LineThrough ==
  ASSUME NEW s, BlocksFit(s), NEW k \in Quads, NEW b, InBox(b, s)
  PROVE  \E m, base : Through(m, base, s, b, k)
<1>1. PICK X : X = 1 .. 64
  OBVIOUS
<1>2. PICK N \in [Quads -> X] : N = section_blocks(s)
  BY <1>1 DEF BlocksFit
<1>3. PICK c \in [Quads -> Nat] : c = b
  BY DEF InBox
<1>4. \A q \in Quads : c[q] < N[q]
  BY <1>2, <1>3 DEF InBox
<1>5. PICK v \in [0 .. 2 -> X] : v = remove_index(N, k) /\ v = [i \in 0 .. 2 |-> N[IF i < k THEN i ELSE i + 1]]
  BY IndexRemoved
<1>6. PICK base \in [0 .. 2 -> Nat] : /\ base = remove_index(c, k) /\ base = [i \in 0 .. 2 |-> c[IF i < k THEN i ELSE i + 1]]
                                       /\ insert(base, c[k], k) = c
  BY IndexRemoved
<1>7. \A a \in 0 .. 2 : base[a] < v[a]
  <2> TAKE a \in 0 .. 2
  <2>1. PICK q \in Quads : q = (IF a < k THEN a ELSE a + 1)
    BY DEF Quads
  <2>2. base[a] = c[q] /\ v[a] = N[q]
    BY <1>5, <1>6, <2>1
  <2> QED
    BY <1>4, <2>2
<1>8. v \in [0 .. 2 -> Nat]
  <2>1. \A x \in X : x \in Nat
    BY <1>1
  <2> QED
    BY <2>1
<1>9. PICK m : m = index(v, base)
  OBVIOUS
<1>10. m \in 0 .. Volume(v) - 1 /\ decompose(v, m) = base
  BY <1>7, <1>8, <1>9, BoxIs
<1>11. Sheaf(s, k) = [section |-> s, dimension |-> k, length |-> N[k], sizes |-> v, lines |-> Volume(v)]
  BY <1>2, <1>5, SheafIs
<1>12. LineAt(Sheaf(s, k), m) = [section |-> s, dimension |-> k, length |-> N[k], block_base |-> base]
  BY <1>10, <1>11 DEF LineAt
<1>13. c[k] \in 0 .. 63 /\ c[k] \in 0 .. N[k] - 1
  <2>1. PICK x \in Nat : x = c[k]
    OBVIOUS
  <2>2. PICK z \in 1 .. 64 : z = N[k]
    BY <1>1
  <2>3. x < z
    BY <1>4, <2>1, <2>2
  <2>4. x \in 0 .. 63 /\ x \in 0 .. z - 1
    BY <2>3
  <2> QED
    BY <2>1, <2>2, <2>4
<1>14. Through(m, base, s, b, k)
  BY <1>2, <1>3, <1>6, <1>9, <1>10, <1>11, <1>12, <1>13 DEF Through
<1> QED
  BY <1>14

\* The sheaf of a section and a direction is in the list
SheafNumber(sheafs, s, k) == CHOOSE j \in 1 .. Len(sheafs) : sheafs[j].section = s /\ sheafs[j].dimension = k

LEMMA SheafFound ==
  ASSUME NEW A, NEW sections \in Seq(A), NEW s \in Range(sections), NEW k \in Open(s)
  PROVE  /\ SheafNumber(Sheafs(sections), s, k) \in 1 .. Len(Sheafs(sections))
         /\ Sheafs(sections)[SheafNumber(Sheafs(sections), s, k)] = Sheaf(s, k)
<1>1. PICK S : S = SheafsOf(sections)
  OBVIOUS
<1>2. PICK sheafs \in Seq(S) : sheafs = Sheafs(sections) /\ Sheaf(s, k) \in Range(sheafs)
  BY <1>1, SheafsAre
<1>3. PICK n \in Nat : n = Len(sheafs) /\ DOMAIN sheafs = 1 .. n
  OBVIOUS
<1> DEFINE Is(j) == sheafs[j].section = s /\ sheafs[j].dimension = k
<1>4. \E j \in 1 .. n : Is(j)
  <2>1. PICK j \in 1 .. n : sheafs[j] = Sheaf(s, k)
    BY <1>2, <1>3 DEF Range
  <2>2. Is(j)
    BY <2>1 DEF Sheaf
  <2> QED
    BY <2>2
<1>5. SheafNumber(sheafs, s, k) = CHOOSE j \in 1 .. n : Is(j)
  BY <1>3 DEF SheafNumber
<1>6. PICK i \in 1 .. n : i = SheafNumber(sheafs, s, k) /\ Is(i)
  <2> HIDE DEF Is
  <2> QED
    BY <1>4, <1>5
<1>7. sheafs[i] = Sheaf(s, k)
  <2>1. sheafs[i] \in S
    BY <1>3
  <2>2. PICK t \in Range(sections), h \in Quads : sheafs[i] = Sheaf(t, h)
    BY <1>1, <2>1 DEF SheafsOf
  <2>3. Sheaf(t, h).section = t /\ Sheaf(t, h).dimension = h
    BY DEF Sheaf
  <2> QED
    BY <1>6, <2>2, <2>3
<1> QED
  BY <1>2, <1>3, <1>6, <1>7

\* The rank that has a line in its range, and the line's place there
LEMMA PlaceInRange ==
  ASSUME NEW total \in Nat \ {0}, NEW ranks \in Nat \ {0}, NEW y \in 0 .. total - 1
  PROVE  LET rank == partition_loop_inverse(total, ranks, y)
             r == partition_loop(total, ranks, rank)
         IN /\ rank \in 0 .. ranks - 1 /\ r.lo \in Nat
            /\ y - r.lo \in 0 .. Length(r) - 1 /\ r.lo + (y - r.lo) = y
<1>1. PICK rank \in 0 .. ranks - 1 : rank = partition_loop_inverse(total, ranks, y)
  BY LoopsDivideEvenly
<1>2. y \in In(partition_loop(total, ranks, rank))
  BY <1>1, LoopsDivideEvenly
<1>3. PICK t \in Nat : t = total \div ranks
  BY Divided
<1>4. PICK u \in Nat : u = total % ranks
  BY Divided
<1>5. PICK w \in Nat : w = Min({u, rank})
  <2>1. rank \in Nat
    OBVIOUS
  <2> QED
    BY <2>1, LeastOfTwo
<1>6. PICK lo \in Nat : lo = t * rank + w
  <2>1. t * rank \in Nat
    BY Z3
  <2> QED
    BY <2>1
<1>7. PICK hi \in Nat : hi = lo + t + (IF rank < u THEN 1 ELSE 0)
  OBVIOUS
<1>8. partition_loop(total, ranks, rank) = [lo |-> lo, hi |-> hi]
  BY <1>3, <1>4, <1>5, <1>6, <1>7 DEF partition_loop
<1>9. y \in lo .. hi - 1
  BY <1>2, <1>8 DEF In
<1>10. y - lo \in 0 .. (hi - lo) - 1 /\ lo + (y - lo) = y
  BY <1>9
<1> QED
  BY <1>1, <1>8, <1>10 DEF Length

LEMMA SplitId ==
  ASSUME NEW d \in Nat, NEW x \in 0 .. 63
  PROVE  (64 * d + x) \div 64 = d /\ (64 * d + x) % 64 = x
<1>1. PICK c \in Nat : c = 64 /\ c > 0
  OBVIOUS
<1>2. x \in 0 .. c - 1
  BY <1>1
<1>3. (c * d + x) % c = x /\ (c * d + x) \div c = d
  BY <1>1, <1>2, ResidueIs
<1> QED
  BY <1>1, <1>3

\* What find_block finds, from these: the d-th line of a rank, which runs through the block
Leads(P, ranks, primary, s, b, k, rank, d, line) ==
  /\ rank \in 0 .. ranks - 1 /\ d \in 0 .. random_rank_count_lines(P, rank) - 1
  /\ random_find_block(P, primary, s, b) = <<rank, 64 * d + b[k]>>
  /\ line = nth_line(P, RankRange(P, rank).lo + d)
  /\ line.section = s /\ line.dimension = k /\ line.length = section_blocks(s)[k]
  /\ LineBlock(line, b[k]) = b

LEMMA BlockFound ==
  ASSUME NEW cipher \in [(1 .. 3) \X Nat -> Nat], NEW ranks \in Nat \ {0}, NEW A, NEW sections \in Seq(A),
         NEW n \in Nat, NEW tally, NEW off,
         NEW P, Partitioned(P, cipher, ranks, sections, n, tally, off), P.total_lines < LineLimit,
         NEW s \in Range(sections), BlocksFit(s), NEW b, InBox(b, s), NEW k \in Quads, k \in Open(s),
         NEW primary, k = owner_dimension(primary, s, b)
  PROVE  \E rank, d, line : Leads(P, ranks, primary, s, b, k, rank, d, line)
<1>1. PICK m, base : Through(m, base, s, b, k)
  BY LineThrough
<1>2. PICK sheafs : sheafs = Sheafs(sections)
  OBVIOUS
<1>3. PICK total : total = P.total_lines
  OBVIOUS
<1>4. /\ P.cipher = cipher /\ P.ranks = ranks /\ P.sheafs = sheafs /\ P.line_offset = off
      /\ n = Len(sheafs) /\ \A i \in 1 .. n : tally[i] = sheafs[i].lines
  BY <1>2 DEF Partitioned
<1>5. PICK i \in 1 .. n : i = SheafNumber(sheafs, s, k) /\ sheafs[i] = Sheaf(s, k)
  BY <1>2, <1>4, SheafFound
<1>6. m \in 0 .. tally[i] - 1
  BY <1>1, <1>4, <1>5 DEF Through
<1>7. PICK y : y = random_unpermute(total, cipher, off[i] + m)
  OBVIOUS
<1>8. total \in Nat \ {0} /\ y \in 0 .. total - 1 /\ nth_line(P, y) = LineAt(sheafs[i], m)
  BY <1>2, <1>3, <1>6, <1>7, LineFound
<1>9. PICK rank : rank = partition_loop_inverse(total, ranks, y)
  OBVIOUS
<1>10. PICK r : r = partition_loop(total, ranks, rank)
  OBVIOUS
<1>11. rank \in 0 .. ranks - 1 /\ r.lo \in Nat /\ y - r.lo \in 0 .. Length(r) - 1 /\ r.lo + (y - r.lo) = y
  BY <1>8, <1>9, <1>10, PlaceInRange, ZenonT(40)
<1>12. PICK d : d = y - r.lo
  OBVIOUS
<1>13. \A t : RankRange(P, t) = partition_loop(total, ranks, t)
  BY <1>3, <1>4 DEF RankRange
<1>14. RankRange(P, rank) = r
  BY <1>10, <1>13
<1>15. d \in 0 .. random_rank_count_lines(P, rank) - 1
  BY <1>11, <1>12, <1>14 DEF random_rank_count_lines
<1>16. PICK line : line = nth_line(P, y)
  OBVIOUS
<1>17. line = nth_line(P, RankRange(P, rank).lo + d)
  BY <1>11, <1>12, <1>14, <1>16
<1>18. line = [section |-> s, dimension |-> k, length |-> section_blocks(s)[k], block_base |-> base]
  BY <1>1, <1>5, <1>8, <1>16 DEF Through
<1>19. LineBlock(line, b[k]) = b
  BY <1>1, <1>18 DEF LineBlock, Through
<1>20. random_find_block(P, primary, s, b) = <<rank, 64 * d + b[k]>>
  <2> DEFINE Placed(z, h) == <<h, 64 * (z - RankRange(P, h).lo) + b[k]>>
             Ranked(z) == Placed(z, partition_loop_inverse(P.total_lines, P.ranks, z))
             found == SheafNumber(P.sheafs, s, k)
             place == P.line_offset[found] + index(P.sheafs[found].sizes, remove_index(b, k))
  <2>1. random_find_block(P, primary, s, b) = Ranked(random_unpermute(P.total_lines, P.cipher, place))
    BY DEF random_find_block, SheafNumber
  <2>2. found = i
    BY <1>4, <1>5
  <2>3. place = off[i] + m
    <3> HIDE DEF found
    <3> QED
      BY <1>1, <1>4, <1>5, <2>2 DEF Through
  <2> HIDE DEF place
  <2>4. random_unpermute(P.total_lines, P.cipher, place) = y
    BY <1>3, <1>4, <1>7, <2>3
  <2>5. Ranked(y) = Placed(y, rank)
    BY <1>3, <1>4, <1>9
  <2>6. Placed(y, rank) = <<rank, 64 * d + b[k]>>
    BY <1>12, <1>14
  <2> HIDE DEF Ranked, Placed
  <2> QED
    BY <2>1, <2>4, <2>5, <2>6
<1>21. Leads(P, ranks, primary, s, b, k, rank, d, line)
  BY <1>11, <1>15, <1>17, <1>18, <1>19, <1>20 DEF Leads
<1> QED
  BY <1>21

\* Whatever threefry gives, find_block names a rank and a local id of it that
\* rank_block takes back to the block: the id's line is one of the rank's, runs through
\* the block, and is in the direction the block picked; the assertions of rank_block
\* hold on the way (random_partition.cc, lines 136 and 140)
THEOREM BlocksAreFound ==
  ASSUME NEW cipher \in [(1 .. 3) \X Nat -> Nat], NEW ranks \in Nat \ {0},
         NEW A, NEW sections \in Seq(A), \A s \in Range(sections) : BlocksFit(s),
         random_partition(cipher, ranks, sections).total_lines < LineLimit,
         NEW s \in Range(sections), Open(s) # {}, NEW b, InBox(b, s),
         NEW primary, primary[<<s, b>>] \in Nat
  PROVE  LET P == random_partition(cipher, ranks, sections)
             found == random_find_block(P, primary, s, b)
             line == nth_line(P, RankRange(P, found[1]).lo + (found[2] \div 64))
         IN /\ found[1] \in 0 .. ranks - 1
            /\ found[2] \div 64 \in 0 .. random_rank_count_lines(P, found[1]) - 1
            /\ found[2] % 64 \in 0 .. line.length - 1
            /\ line.section = s /\ line.dimension = owner_dimension(primary, s, b) /\ line.dimension \in Open(s)
            /\ random_rank_block(P, found[1], found[2]) = <<s, b>>
<1>1. PICK P : P = random_partition(cipher, ranks, sections)
  OBVIOUS
<1>2. PICK n \in Nat : \E tally, off : Partitioned(P, cipher, ranks, sections, n, tally, off)
  BY <1>1, PartitionIs
<1>3. PICK tally, off : Partitioned(P, cipher, ranks, sections, n, tally, off)
  BY <1>2
<1>4. PICK k \in Quads : k = owner_dimension(primary, s, b) /\ k \in Open(s)
  BY OwnerIs
<1>5. BlocksFit(s) /\ P.total_lines < LineLimit
  BY <1>1
<1>16. PICK rank, d, line : Leads(P, ranks, primary, s, b, k, rank, d, line)
  BY <1>3, <1>4, <1>5, BlockFound
<1>6. /\ rank \in 0 .. ranks - 1 /\ d \in 0 .. random_rank_count_lines(P, rank) - 1
      /\ random_find_block(P, primary, s, b) = <<rank, 64 * d + b[k]>>
      /\ line = nth_line(P, RankRange(P, rank).lo + d)
      /\ line.section = s /\ line.dimension = k /\ line.length = section_blocks(s)[k]
      /\ LineBlock(line, b[k]) = b
  BY <1>16 DEF Leads
<1>7. b[k] \in 0 .. 63 /\ b[k] \in 0 .. section_blocks(s)[k] - 1
  <2>1. PICK m, base : Through(m, base, s, b, k)
    BY <1>5, LineThrough
  <2> QED
    BY <2>1 DEF Through
<1>8. PICK id : id = 64 * d + b[k]
  OBVIOUS
<1>9. id \div 64 = d /\ id % 64 = b[k]
  <2>1. d \in Nat
    BY <1>6
  <2> QED
    BY <1>7, <1>8, <2>1, SplitId
<1>10. random_rank_block(P, rank, id) = <<s, b>>
  BY <1>6, <1>9 DEF random_rank_block
<1>11. PICK f : f = <<rank, id>>
  OBVIOUS
<1>12. f[1] = rank /\ f[2] = id /\ random_find_block(P, primary, s, b) = f
  BY <1>6, <1>8, <1>11
<1>13. line = nth_line(P, RankRange(P, f[1]).lo + (f[2] \div 64))
  BY <1>6, <1>9, <1>12
<1>14. f[2] % 64 \in 0 .. line.length - 1
  BY <1>6, <1>7, <1>9, <1>12
<1>15. /\ f[1] \in 0 .. ranks - 1 /\ f[2] \div 64 \in 0 .. random_rank_count_lines(P, f[1]) - 1
       /\ line.section = s /\ line.dimension = owner_dimension(primary, s, b) /\ line.dimension \in Open(s)
       /\ random_rank_block(P, f[1], f[2]) = <<s, b>>
  BY <1>4, <1>6, <1>9, <1>10, <1>12
<1> QED
  BY <1>1, <1>12, <1>13, <1>14, <1>15
=============================================================================
