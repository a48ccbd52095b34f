------------------------------- MODULE MidSolve ------------------------------
(***************************************************************************)
(* The solver for boards with few empty spots: midsolve of                 *)
(* mid/midengine.cc, and the kernel of ios/shared/midsolve.metal that does *)
(* the same on a GPU, both out of mid/internal.h.                          *)
(*                                                                         *)
(* Slice n holds the ways to fill n of the empty spots of the root, of     *)
(* which k0 go to player 0, who is to move, and k1 to player 1.  Slices    *)
(* are computed from the last to the first, each from the one after it, in *)
(* a single buffer: even slices at its start, odd ones at its end.  Within *)
(* a slice a set of stones is known by its rank, and the stones of the     *)
(* other player by their rank among the spots the first set leaves.  The   *)
(* programs differ in which player comes first:                            *)
(*   - midsolve goes through sets of player 0, then of player 1, in order; *)
(*   - transposed has a thread for each set of player 1 and then player 0. *)
(***************************************************************************)
EXTENDS Pentago

LOCAL C == INSTANCE Combinatorics

CONSTANTS Jobs  \* pairs of a program and a board to solve

ASSUME JobsAssumption ==
  Jobs \subseteq {"midsolve", "transposed"} \X UNION {BoardsAt(ply) : ply \in FirstPly .. FinalPly}

VARIABLES program, root,
          n,          \* the slice being computed, -1 at the end
          todo,       \* indices of the slice not yet computed
          workspace,  \* halfsupers_t by address
          results     \* halfsupers_t of the root, then of each stone placed

vars == <<program, root, n, todo, workspace, results>>
-----------------------------------------------------------------------------
(***************************************************************************)
(* Subsets and their ranks: mid/subsets.h.  uint16_t wraps.                *)
(***************************************************************************)
Index(x) == x % 2^16
choose(m, k) == IF m < 0 \/ k < 0 \/ k > m THEN 0 ELSE C!choose(m, k)

\* The number of elements of set below x
Rank(set, x) == Cardinality({y \in set : y < x})
Nth(set, i) == CHOOSE x \in set : Rank(set, x) = i

\* The index-th subset of 0 .. m-1 with k elements, large entries first
subset(m, k, index) ==
  LET rest[i \in 0 .. k, x \in Nat] ==
        IF i = 0 THEN {}
        ELSE LET j == Max({e \in i - 1 .. m - 1 : choose(e, i) <= x})
             IN {j} \cup rest[i - 1, x - choose(j, i)]
  IN rest[k, index]
-----------------------------------------------------------------------------
(***************************************************************************)
(* info_t and helper_t.                                                    *)
(***************************************************************************)
Empty(b) == empty_mask(b)
spots == Cardinality(Empty(root))
side(set) == {Nth(Empty(root), i) : i \in set}

k0(m) == m \div 2
k1(m) == m - k0(m)
parity(m) == (m + root.ply) % 2
root0(m) == root.side[(spots + m) % 2]
root1(m) == root.side[(spots + m + 1) % 2]

sets0_size(m) == choose(spots, k0(m))
sets1_size(m) == choose(spots, k1(m))
sets0p_size(m) == choose(spots - k1(m), k0(m))
sets1p_size(m) == choose(spots - k0(m), k1(m))

SliceSize(s, m) == choose(s, m) * choose(m, m \div 2)

\* Mutant of bottleneck: room for the largest slice only
RoomForOne == [s \in 0 .. Cardinality(Spot) |-> Max({SliceSize(s, m) : m \in 0 .. s})] @@ <<>>

\* For each number of empty spots, room for any two slices that follow each other
bottleneck == [s \in 0 .. Cardinality(Spot) |-> Max({SliceSize(s, m) + SliceSize(s, m + 1) : m \in 0 .. s})] @@ <<>>

Grab(m, nx, ny) == [ny |-> ny, lo |-> IF m % 2 = 1 THEN bottleneck[spots] - nx * ny ELSE 0]
NoGrab == [ny |-> 0, lo |-> 0]

\* Where slice m is: the second set is relative to the first
spaces(m) ==
  IF m > spots THEN NoGrab
  ELSE IF program = "midsolve" THEN Grab(m, sets1_size(m), sets0p_size(m))
  ELSE Grab(m, sets0_size(m), sets1p_size(m))

At(m, i, j) == spaces(m).lo + i * spaces(m).ny + j
-----------------------------------------------------------------------------
(***************************************************************************)
(* What both programs make of a position: us is the best of its moves, by  *)
(* rotation, for the player to move.                                       *)
(***************************************************************************)
Best(moved) ==
  IF n = spots THEN [win |-> {}, notlose |-> Half]
  ELSE [win |-> UNION {x.win : x \in moved}, notlose |-> UNION {x.notlose : x \in moved}]

\* wins0 and after: who has won when the position is reached
Immediate(us, wins0, after) ==
  LET inplay == Half \ (wins0 \cup after) IN
    [win |-> (inplay \cap us.win) \cup (wins0 \ after),
     notlose |-> (inplay \cap us.notlose) \cup wins0]

\* For slice n-1: the other player turns a quadrant, unless he has won before
Above(us, before) == OrWin(rmax(Not(us)), before)

\* x itself, with its sets made of elements: TLC would keep the expressions of all slices
Evaluated(x) == [win |-> {h : h \in x.win}, notlose |-> {h : h \in x.notlose}]

\* One index of the slice, given the values of the moves and the stones of both players;
\* \E makes TLC evaluate something once
Solve(moved, side0, side1, i, j, placed) ==
  \E best \in {Evaluated(Best(moved))}, wins0 \in {halfsuper_wins(side0, parity(n))},
     wins1 \in {[after |-> halfsuper_wins(side1, parity(n)), before |-> halfsuper_wins(side1, 1 - parity(n))]} :
    \E us \in {Evaluated(Immediate(best, wins0, wins1.after))} :
      /\ workspace' = [workspace EXCEPT ![At(n, i, j)] = Evaluated(Above(us, wins1.before))]
      /\ results' = IF n <= 1 THEN [results EXCEPT ![n + placed] = us] ELSE results
-----------------------------------------------------------------------------
(***************************************************************************)
(* midsolve: make_set0_info, make_cs1ps and inner.                         *)
(***************************************************************************)
empty1(set0) == (0 .. spots - 1) \ set0

\* The rank of set0 once i is added to it, for i an index into empty1
child_s0s(set0, i) ==
  LET e == Nth(empty1(set0), i)
      j == e - i
  IN Index(choose(e, j + 1) +
           MapThenSumSet(LAMBDA v : LET a == Rank(set0, v) IN choose(v, a + (IF a >= j THEN 1 ELSE 0) + 1),
                         set0))

\* What s0 changes by as the a-th stone of player 1 is put at index q into empty1
offset0(s0, set0, a, q) ==
  LET shifted == {v \in set0 : Rank(set0, v) >= Nth(empty1(set0), q) - q /\ v > a} IN
    Index((IF a = 0 THEN s0 ELSE 0) - MapThenSumSet(LAMBDA v : choose(v - a - 1, Rank(set0, v)), shifted))

\* s1p relative to one more stone of player 0, put at index j
cs1ps(set1p, s1p, j) ==
  Index(s1p - MapThenSumSet(LAMBDA v : choose(v - 1, Rank(set1p, v)), {v \in set1p : j < v}))

inner(s0, s1p) ==
  LET set0 == subset(spots, k0(n), s0)
      set1p == subset(spots - k0(n), k1(n), s1p)
      s1 == Index(MapThenSumSet(LAMBDA q : choose(Nth(empty1(set0), q), Rank(set1p, q) + 1), set1p))
      s0p == Index(MapThenSumSet(LAMBDA q : offset0(s0, set0, Rank(set1p, q), q), set1p))
      unmoved == (0 .. spots - k0(n) - 1) \ set1p
      moved == {workspace[At(n + 1, child_s0s(set0, i), cs1ps(set1p, s1p, i))] : i \in unmoved}
  IN Solve(moved, root0(n) \cup side(set0), root1(n) \cup side(subset(spots, k1(n), s1)), s1, s0p, s1p)
-----------------------------------------------------------------------------
(***************************************************************************)
(* transposed: make_set1_info, commute and make_cs0ps.                     *)
(***************************************************************************)
empty0(set1) == (0 .. spots - 1) \ set1

offset1p(set1, a, q) ==
  MapThenSumSet(LAMBDA v : choose(v - a - 1, Rank(set1, v)),
                {v \in set1 : Rank(set1, v) >= Nth(empty0(set1), q) - q /\ v > a})

\* From ranks <<s1, s0p>> to <<s0, s1p>>
commute(s1, set1, set0p) ==
  << Index(MapThenSumSet(LAMBDA j : choose(Nth(empty0(set1), j), Rank(set0p, j) + 1), set0p)),
     Index(s1 - MapThenSumSet(LAMBDA j : offset1p(set1, Rank(set0p, j), j), set0p)) >>

\* The rank of set0p once the m-th of the spots left is added to it
cs0ps(set0p, m) ==
  LET later(j) == m < j - Rank(set0p, j)
      before == {j \in set0p : ~later(j)}
      i == Cardinality(before)
  IN Index(choose(m + i, i + 1) +
           MapThenSumSet(LAMBDA j : choose(j, Rank(set0p, j) + (IF later(j) THEN 2 ELSE 1)), set0p))

transposed(s1, s0p) ==
  LET set1 == subset(spots, k1(n), s1)
      set0p == subset(spots - k1(n), k0(n), s0p)
      c == commute(s1, set1, set0p)
      moved == {workspace[At(n + 1, s1, cs0ps(set0p, m))] : m \in 0 .. spots - n - 1}
  IN Solve(moved, root0(n) \cup side(subset(spots, k0(n), c[1])), root1(n) \cup side(set1), c[1], c[2], s1)
-----------------------------------------------------------------------------
Indices(m) ==
  IF program = "midsolve" THEN 0 .. sets0_size(m) * sets1p_size(m) - 1
                          ELSE 0 .. sets1_size(m) * sets0p_size(m) - 1

\* The buffers may hold anything at first
Init ==
  /\ \E job \in Jobs : program = job[1] /\ root = job[2]
  /\ n = spots
  /\ todo = Indices(spots)
  /\ \E garbage \in {Nowhere, Everywhere} :
       /\ workspace = [a \in 0 .. bottleneck[spots] - 1 |-> garbage]
       /\ results = [i \in 0 .. spots |-> garbage]

\* midsolve_loop
Loop ==
  /\ program = "midsolve" /\ todo # {}
  /\ LET i == Min(todo) IN /\ inner(i \div sets1p_size(n), i % sets1p_size(n))
                           /\ todo' = todo \ {i}
  /\ UNCHANGED <<program, root, n>>

\* Threads run in any order
Thread ==
  /\ program = "transposed"
  /\ \E i \in todo : /\ transposed(i \div sets0p_size(n), i % sets0p_size(n))
                     /\ todo' = todo \ {i}
  /\ UNCHANGED <<program, root, n>>

\* Dispatches of one encoder, like the iterations of midsolve_internal, follow each other
NextSlice ==
  /\ n >= 0 /\ todo = {}
  /\ n' = n - 1
  /\ todo' = IF n = 0 THEN {} ELSE Indices(n - 1)
  /\ UNCHANGED <<program, root, workspace, results>>

Next == Loop \/ Thread \/ NextSlice
Spec == Init /\ [][Next]_vars
-----------------------------------------------------------------------------
(***************************************************************************)
(* midsolve_traverse: the values of a board and of those that follow it.   *)
(***************************************************************************)
MaxValue(values) == Max({-1} \cup values)

\* Mutant of TraverseMiddle: looks up the turn in the other direction
TraverseMiddleBackwards(b, supers) ==
  IF done(b) THEN {<<b, immediate_value(b)>>}
  ELSE LET turned == {<<q, d>> : q \in Quadrant, d \in {-1, 1}}
           v(t) == value(supers, [q \in Quadrant |-> IF q = t[1] THEN (-t[2]) % 4 ELSE 0])
       IN {<<rotate(b, t[1], t[2]), v(t)>> : t \in turned} \cup
          {<<b, MaxValue({-v(t) : t \in turned})>>}

TraverseMiddle(b, supers) ==
  IF done(b) THEN {<<b, immediate_value(b)>>}
  ELSE LET turned == {<<q, d>> : q \in Quadrant, d \in {-1, 1}}
           v(t) == value(supers, [q \in Quadrant |-> IF q = t[1] THEN t[2] % 4 ELSE 0])
       IN {<<rotate(b, t[1], t[2]), v(t)>> : t \in turned} \cup
          {<<b, MaxValue({-v(t) : t \in turned})>>}

Traverse ==
  IF middle(root) THEN TraverseMiddle(root, results[0])
  ELSE IF done(root) THEN {<<root, immediate_value(root)>>}
  ELSE LET placed(s) == TraverseMiddle(place(root, s), results[1 + Rank(Empty(root), s)])
           child(s) == CHOOSE v \in -1 .. 1 : <<place(root, s), v>> \in placed(s)
       IN UNION {placed(s) : s \in Empty(root)} \cup
          {<<root, MaxValue({child(s) : s \in Empty(root)})>>}
-----------------------------------------------------------------------------
\* Slices are left in order, an index is computed in its slice only, and the buffers hold
\* halfsupers_t throughout.
TypeOK ==
  LET halfsupers == [win : SUBSET Half, notlose : SUBSET Half] IN
    /\ program \in {"midsolve", "transposed"}
    /\ n \in -1 .. spots
    /\ n = -1 => todo = {}
    /\ n >= 0 => todo \subseteq Indices(n)
    /\ workspace \in [0 .. bottleneck[spots] - 1 -> halfsupers]
    /\ results \in [0 .. spots -> halfsupers]

Colex(set) == MapThenSumSet(LAMBDA v : choose(v, Rank(set, v) + 1), set)

\* Where slice n has the position in which the players have put these stones
CellOf(set0, set1) ==
  LET relative(set, other) == {Rank((0 .. spots - 1) \ other, v) : v \in set} IN
    IF program = "midsolve" THEN At(n, Colex(set1), Colex(relative(set0, set1)))
                            ELSE At(n, Colex(set0), Colex(relative(set1, set0)))

\* That position with quadrants turned, before player 1 makes his own turn of a quadrant
BoardBefore(set0, set1, r) ==
  LET mover == TurnedBy(root0(n) \cup side(set0), r)
      other == TurnedBy(root1(n) \cup side(set1), r)
      ply == 2 * (Cardinality(Spot) - spots + n) - 1
  IN IF (spots + n) % 2 = 0 THEN Board(mover, other, ply) ELSE Board(other, mover, ply)

\* Once a slice is done (internal.h:401, midsolve.metal:158), every cell of it holds what minimax
\* makes of the position that belongs there, for every rotation, unless player 0 had won already.
\* The indices are computed differently on each side of a write and a read, and the slice that was
\* read shares its buffer with the one that was written: a collision anywhere shows up as a value.
SliceRight ==
  todo = {} /\ n >= 0 /\ (n > 0 \/ middle(root)) =>
    \A set1 \in kSubset(k1(n), 0 .. spots - 1) :
      \A set0 \in kSubset(k0(n), (0 .. spots - 1) \ set1), h \in Half :
        LET r == Merged(h, 1 - parity(n))
            b == BoardBefore(set0, set1, r)
        IN ~won(b.side[(spots + n) % 2]) => value(workspace[CellOf(set0, set1)], r) = Value(b)

\* What midsolve returns (midengine.cc:149) is the root, its children and, for a root about to
\* be placed on, their children, all with their minimax values: on either program, in whatever order
\* threads ran and whatever the buffers held before.
TraverseRight ==
  n = -1 =>
    /\ \A v \in Traverse : v[2] = Value(v[1])
    /\ {v[1] : v \in Traverse} =
         {root} \cup (IF done(root) THEN {}
                     ELSE moves(root) \cup UNION {moves(b) : b \in {m \in moves(root) : middle(m) /\ ~done(m)}})
=============================================================================
