------------------------------- MODULE Pentago -------------------------------
(***************************************************************************)
(* The game, as high/board.cc plays it: a ply places a stone or turns a    *)
(* quadrant by a quarter, and a board is over when one side has a line or  *)
(* when it is full.  The real game has 4 quadrants of 9 cells and lines of *)
(* five; a small one is enough to tell right values from wrong ones.       *)
(***************************************************************************)
EXTENDS Integers, FiniteSetsExt, TLC

CONSTANTS Quadrants,  \* how many there are
          Cells,      \* in each quadrant
          Turned,     \* where a quarter turn takes each cell
          Line,       \* the sets of spots that win
          FirstPly    \* boards are given their values from this ply on

Quadrant == 0 .. Quadrants - 1
Cell == 0 .. Cells - 1
Spot == 0 .. Quadrants * Cells - 1  \* bit numbers of a side_t
SpotOf(q, c) == q * Cells + c
quadrant(s) == s \div Cells

Turns[d \in 0 .. 3] == IF d = 0 THEN [c \in Cell |-> c] ELSE [c \in Cell |-> Turned[Turns[d - 1][c]]]

ASSUME GameAssumption == /\ {Quadrants, Cells} \subseteq Nat \ {0}
                         /\ Cardinality(Spot) % 2 = 0
                         /\ Turned \in [Cell -> Cell]
                         /\ \A c \in Cell : Turned[Turns[3][c]] = c
                         /\ Line \subseteq SUBSET Spot
                         /\ FirstPly \in Nat

\* Quadrants and the quarter turns each of them has made
Rotation == [Quadrant -> 0 .. 3]
TurnedBy(side, r) == {SpotOf(quadrant(s), Turns[r[quadrant(s)]][s % Cells]) : s \in side}

won(side) == \E l \in Line : l \subseteq side
-----------------------------------------------------------------------------
(***************************************************************************)
(* high_board_t.                                                           *)
(***************************************************************************)
\* Black and white stones; @@ makes TLC evaluate them at once
Board(black, white, ply) == [side |-> 0 :> black @@ 1 :> white, ply |-> ply]

middle(b) == b.ply % 2 = 1
count(b) == (b.ply + 1) \div 2
turn(b) == (b.ply \div 2) % 2
empty_mask(b) == Spot \ (b.side[0] \cup b.side[1])

FinalPly == 2 * Cardinality(Spot)
done(b) == won(b.side[0]) \/ won(b.side[1]) \/ b.ply = FinalPly

immediate_value(b) == IF won(b.side[0]) = won(b.side[1]) THEN 0
                      ELSE IF won(b.side[turn(b)]) THEN 1 ELSE -1

place(b, s) == [side |-> [b.side EXCEPT ![turn(b)] = @ \cup {s}], ply |-> b.ply + 1]

rotate(b, q, d) ==
  LET r == [p \in Quadrant |-> IF p = q THEN d % 4 ELSE 0] IN
    Board(TurnedBy(b.side[0], r), TurnedBy(b.side[1], r), b.ply + 1)

moves(b) == IF middle(b) THEN {rotate(b, q, d) : q \in Quadrant, d \in {-1, 1}}
                         ELSE {place(b, s) : s \in empty_mask(b)}

\* The boards with a given ply, legal or not, whose turns have alternated
BoardsAt(ply) ==
  LET total == (ply + 1) \div 2
      blacks == (total + 1) \div 2
  IN UNION {{Board(black, stones \ black, ply) : black \in kSubset(blacks, stones)} : stones \in kSubset(total, Spot)}

\* Placing a stone leaves the turn with the player, turning a quadrant ends it
BestMove(later, b) == Max({IF middle(b) THEN -later[m] ELSE later[m] : m \in moves(b)})

\* Values by ply, from full boards back; @@ makes TLC evaluate a function once
ValuesFrom[ply \in FirstPly .. FinalPly] ==
  IF ply = FinalPly THEN ply :> ([b \in BoardsAt(ply) |-> immediate_value(b)] @@ <<>>)
  ELSE LET after == ValuesFrom[ply + 1]
           later == after[ply + 1]
           values == [b \in BoardsAt(ply) |-> IF done(b) THEN immediate_value(b) ELSE BestMove(later, b)]
       IN ply :> (values @@ <<>>) @@ after

Values == ValuesFrom[FirstPly]

\* For the player to move, if both play perfectly
Value(b) == Values[b.ply][b]
-----------------------------------------------------------------------------
(***************************************************************************)
(* Functions of rotations.  The solvers leave quadrants as they are, and   *)
(* compute with the set of rotations for which something holds: a super_t. *)
(*                                                                         *)
(* A halfsuper_t is what a super_t says of the rotations of one parity, in *)
(* half the bits: of the first quadrant only half of its turns is kept, as *)
(* the other quadrants and the parity tell the rest.                       *)
(*                                                                         *)
(* super_wins looks wins up in generated tables, and rmax shifts and masks *)
(* words; what they compute is modelled, not the words.                    *)
(***************************************************************************)

super_wins(side) == {r \in Rotation : won(TurnedBy(side, r))}

Neighbors(r) == {[r EXCEPT ![q] = (@ + d) % 4] : q \in Quadrant, d \in {1, 3}}

\* Whoever turns a quadrant picks the best of the rotations he can reach
super_rmax(super) == {r \in Rotation : Neighbors(r) \cap super # {}}
-----------------------------------------------------------------------------
Half == {h \in Rotation : h[0] < 2}

\* The rotation of the given parity that h stands for: h(p)(a,b,..) is s(2a+(b+..+p)%2,b,..)
Merged(h, parity) ==
  LET others == MapThenSumSet(LAMBDA q : h[q], Quadrant \ {0}) IN
    [h EXCEPT ![0] = 2 * @ + ((others + parity) % 2)]

HalfOf(r) == [r EXCEPT ![0] = @ \div 2]
ParityOf(r) == MapThenSumSet(LAMBDA q : r[q], Quadrant) % 2

halfsuper_wins(side, parity) == {HalfOf(r) : r \in {w \in super_wins(side) : ParityOf(w) = parity}}

\* The first quadrant may get to any of its turns of the other parity
HalfNeighbors(h) ==
  {[h EXCEPT ![0] = a] : a \in 0 .. 1} \cup
  {[h EXCEPT ![q] = (@ + d) % 4] : q \in Quadrant \ {0}, d \in {1, 3}}

half_rmax(half) == {h \in Half : HalfNeighbors(h) \cap half # {}}
-----------------------------------------------------------------------------
(***************************************************************************)
(* halfsupers_t: where a player wins, and where he does not lose.          *)
(***************************************************************************)
Nowhere == [win |-> {}, notlose |-> {}]
Everywhere == [win |-> Half, notlose |-> Half]

Not(x) == [win |-> Half \ x.notlose, notlose |-> Half \ x.win]
rmax(x) == [win |-> half_rmax(x.win), notlose |-> half_rmax(x.notlose)]
OrWin(x, wins) == [win |-> x.win \cup wins, notlose |-> x.notlose \cup wins]

get(half, r) == IF HalfOf(r) \in half THEN 1 ELSE 0
value(x, r) == get(x.win, r) + get(x.notlose, r) - 1
==============================================================================
