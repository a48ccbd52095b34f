-------------------------------- MODULE Boards -------------------------------
(***************************************************************************)
(* Boards at their full size: the tables that base/precompute.cc generates,*)
(* base/board.cc, base/moves.h, base/score.cc.  A quadrant_t of one side is*)
(* a set of cells 3*x+y, a side_t a set of bit numbers 16*q + cell, and a  *)
(* quadrant_t of both sides a number in base 3.  A board_t is a function   *)
(* from quadrants to such numbers, here a pair of sides wherever the code  *)
(* unpacks it at once.                                                     *)
(***************************************************************************)
EXTENDS Integers, FiniteSetsExt, SequencesExt, TLC

(***************************************************************************)
(* A machine word as the set of its one bits.  Vector registers shift each *)
(* of their lanes on its own, so shifts take the width of a lane.          *)
(***************************************************************************)

Shl(x, k, width) == {b + k : b \in {c \in x : (c % width) + k < width}}
Shr(x, k, width) == {b - k : b \in {c \in x : c % width >= k}}
Xor(x, y) == (x \ y) \cup (y \ x)

\* The lowest n bits of lane i, as a number of its own
Lane(x, i, width) == {b - i * width : b \in {c \in x : c \div width = i}}

\* The number a word stands for, if it is small
Number(x) == MapThenSumSet(LAMBDA b : 2^b, x)

\* The lowest n digits of k in a base, least significant first
Digit(k, base, i) == (k \div base^i) % base

IndexIn(set, x) == Cardinality({y \in set : y < x})
Nth(set, i) == CHOOSE x \in set : IndexIn(set, x) = i
Ascending(set) == [i \in 1 .. Cardinality(set) |-> Nth(set, i - 1)]

\* Subsets with n elements, each built by adding elements above those it has
Subsets(n, set) ==
  LET C[k \in 0 .. n] == IF k = 0 THEN {{}} ELSE UNION {{t \cup {x} : x \in {y \in set : \A z \in t : z < y}} : t \in C[k - 1]} IN C[n]

\* Bits of a small number
Bits(k, n) == {i \in 0 .. n - 1 : Digit(k, 2, i) = 1}
-----------------------------------------------------------------------------
Quads == 0 .. 3
Cells == 0 .. 8
qbit(x, y) == 3 * x + y
side_mask == {16 * q + c : q \in Quads, c \in Cells}
quadrant(side, q) == {c \in Cells : 16 * q + c \in side}
quadrants(of) == {16 * q + c : q \in Quads, c \in Cells} \cap UNION {{16 * q + c : c \in of[q]} : q \in Quads}

Moved(map, set) == {map[c] : c \in set}
-----------------------------------------------------------------------------
(***************************************************************************)
(* Radix 3.                                                                *)
(***************************************************************************)
quadrant_count == 3^9
pack(s0, s1) == MapThenSumSet(LAMBDA c : 3^c, s0) + 2 * MapThenSumSet(LAMBDA c : 3^c, s1)

unpack == [v \in 0 .. quadrant_count - 1 |->
            << {i \in Cells : Digit(v, 3, i) = 1}, {i \in Cells : Digit(v, 3, i) = 2} >>] @@ <<>>
-----------------------------------------------------------------------------
(***************************************************************************)
(* Ways to win.  The first four need three quadrants, the others two.      *)
(***************************************************************************)
bit(x0, y0, flip, rotate) ==
  LET x1 == IF flip THEN y0 ELSE x0
      y1 == IF flip THEN x0 ELSE y0
      x == IF rotate THEN 5 - y1 ELSE x1
      y == IF rotate THEN x1 ELSE y1
  IN 16 * (2 * (x \div 3) + (y \div 3)) + qbit(x % 3, y % 3)

Range5 == 0 .. 4

win_patterns ==
  [k \in 1 .. 4 |-> LET x == (k - 1) \div 2
                        y == (k - 1) % 2
                    IN {bit(2 + x + i, 2 + y + i * (IF x = y THEN -1 ELSE 1), FALSE, FALSE) : i \in -2 .. 2}] \o
  [k \in 1 .. 24 |-> LET x == ((k - 1) \div 6) % 2
                         y == (k - 1) % 6
                     IN {bit(x + i, y, k > 12, FALSE) : i \in Range5}] \o
  [k \in 1 .. 4 |-> {bit(i + ((k - 1) % 2), i + ((k - 1) % 2), FALSE, k > 2) : i \in Range5}]

\* Numbered from 0, as the fields of the tables are
Pattern == 0 .. 31
pattern == [i \in Pattern |-> win_patterns[i + 1]] @@ <<>>
Part == [i \in Pattern |-> [q \in Quads |-> quadrant(pattern[i], q)]] @@ <<>>

\* The patterns that a quadrant has its part of: the fields that are 1
win_contributions(q, v) == {i \in Pattern : Part[i][q] # {} /\ Part[i][q] \subseteq v}
-----------------------------------------------------------------------------
(***************************************************************************)
(* Turns and reflections of a quadrant.                                    *)
(***************************************************************************)
Turn(x, y, dir) == IF dir = 0 THEN qbit(2 - y, x) ELSE qbit(y, 2 - x)
TurnedCell == [dir \in 0 .. 1 |-> [c \in Cells |-> Turn(c \div 3, c % 3, dir)] @@ <<>>] @@ <<>>

\* To the left for 0, to the right for 1
rotations(v, dir) == Moved(TurnedCell[dir], v)

Turns[r \in 0 .. 3] == IF r = 0 THEN [c \in Cells |-> c] ELSE [c \in Cells |-> TurnedCell[0][Turns[r - 1][c]]] @@ <<>>
AllTurns == (0 :> Turns[0] @@ 1 :> Turns[1]) @@ (2 :> Turns[2] @@ 3 :> Turns[3])
all_rotations(v, r) == Moved(AllTurns[r], v)

ReflectedCell == [c \in Cells |-> qbit(2 - (c % 3), 2 - (c \div 3))] @@ <<>>
reflections(v) == Moved(ReflectedCell, v)

\* What turning the quadrant once would add to its contributions
rotated_win_contribution_deltas(q, v) ==
  (win_contributions(q, rotations(v, 0)) \cup win_contributions(q, rotations(v, 1))) \ win_contributions(q, v)
-----------------------------------------------------------------------------
(***************************************************************************)
(* Stones that player 0 lacks for the part of a pattern in a quadrant, 4   *)
(* if the other player is in the way: as it stands, with any turns, and    *)
(* with one turn if the quadrant is the one that may turn.                 *)
(***************************************************************************)
Distance(part, s0, s1) == IF s1 \cap part # {} THEN 4 ELSE Cardinality(part \ s0)

unrotated_win_distances(q, s0, s1, i) == Distance(Part[i][q], s0, s1)

arbitrarily_rotated_win_distances(q, s0, s1, i) ==
  Min({Distance(Part[i][q], all_rotations(s0, r), all_rotations(s1, r)) : r \in 0 .. 3})

\* Fields of the table: patterns with the quadrant that may turn
RotatedPattern == {rp \in Pattern \X Quads : Part[rp[1]][rp[2]] # {}}

rotated_win_distances(q, s0, s1, rp) ==
  Min({Distance(Part[rp[1]][q], s0, s1)} \cup
      (IF q # rp[2] THEN {}
       ELSE {Distance(Part[rp[1]][q], rotations(s0, r), rotations(s1, r)) : r \in 0 .. 1}))
-----------------------------------------------------------------------------
(***************************************************************************)
(* The moves for each set of filled cells, one after the other.            *)
(***************************************************************************)
move_offset[filled \in 0 .. 512] ==
  IF filled = 0 THEN 0 ELSE move_offset[filled - 1] + 9 - Cardinality(Bits(filled - 1, 9))

move_offsets == [filled \in 0 .. 512 |-> move_offset[filled]] @@ <<>>

move_flat == [n \in 0 .. move_offsets[512] - 1 |->
  LET filled == CHOOSE f \in 0 .. 511 : n \in move_offsets[f] .. move_offsets[f + 1] - 1 IN Nth(Cells \ Bits(filled, 9), n - move_offsets[filled])] @@ <<>>
-----------------------------------------------------------------------------
(***************************************************************************)
(* Whole boards.                                                           *)
(***************************************************************************)
PackBoard(sides) == [q \in Quads |-> pack(quadrant(sides[1], q), quadrant(sides[2], q))]
UnpackBoard(b) == [s \in 1 .. 2 |-> quadrants([q \in Quads |-> unpack[b[q]][s]])]

\* b < c as 64 bit integers
Less(b, c) == \E q \in Quads : b[q] < c[q] /\ \A p \in q + 1 .. 3 : b[p] = c[p]
Least(boards) == CHOOSE b \in boards : \A c \in boards : ~Less(c, b)

count_stones(sides) == Cardinality(sides[1] \cup sides[2])
-----------------------------------------------------------------------------
(***************************************************************************)
(* standardize: the least of the eight rotated and reflected boards.       *)
(***************************************************************************)
Reflect(side) == LET swapped == <<3, 1, 2, 0>> IN
  quadrants([q \in Quads |-> reflections(quadrant(side, swapped[q + 1]))])

RotateLeft(side) == LET prev == <<1, 3, 0, 2>> IN
  quadrants([q \in Quads |-> rotations(quadrant(side, prev[q + 1]), 0)])

Turned[r \in 0 .. 3, side \in SUBSET side_mask] == IF r = 0 THEN side ELSE RotateLeft(Turned[r - 1, side])

\* As the loop leaves them: two reflections between rotations cancel out
Transformed(sides) ==
  LET turned(r) == [s \in 1 .. 2 |-> Turned[r, sides[s]]]
  IN UNION {{turned(r), [s \in 1 .. 2 |-> Reflect(turned(r)[s])]} : r \in 0 .. 3}

standardize(sides) == Least({PackBoard(t) : t \in Transformed(sides)})
-----------------------------------------------------------------------------
(***************************************************************************)
(* The 6 by 6 grid, 2^k for a stone of player k.                           *)
(***************************************************************************)
Grid == (0 .. 5) \X (0 .. 5)

to_table(sides) ==
  [at \in Grid |->
     LET q == 2 * (at[1] \div 3) + (at[2] \div 3)
         c == 3 * (at[1] % 3) + (at[2] % 3)
         has(s) == IF c \in quadrant(sides[s], q) THEN 1 ELSE 0
     IN has(1) + 2 * has(2)]

from_table(table) ==
  LET side(k) == quadrants([q \in Quads |->
        {c \in Cells : table[<<3 * (q \div 2) + (c \div 3), 3 * (q % 2) + (c % 3)>>] = k}])
  IN <<side(1), side(2)>>
-----------------------------------------------------------------------------
(***************************************************************************)
(* MOVES: every stone followed by every turn, as one array of boards in    *)
(* which the sides are flipped.                                            *)
(***************************************************************************)
Count(sides, q) ==
  LET filled == Number(quadrant(sides[1] \cup sides[2], q)) IN move_offsets[filled + 1] - move_offsets[filled]

Total(sides, q) == 8 * MapThenSumSet(LAMBDA p : Count(sides, p), 0 .. q - 1)

\* The i-th move of quadrant q, and then a turn of quadrant qr
Move(sides, q, i, qr, dir) ==
  LET filled == Number(quadrant(sides[1] \cup sides[2], q))
      changed == quadrant(sides[1], q) \cup {move_flat[move_offsets[filled] + i]}
      turned(s, p) == IF p = qr THEN rotations(s, dir) ELSE s
  IN [p \in Quads |-> pack(turned(quadrant(sides[2], p), p),
                           turned(IF p = q THEN changed ELSE quadrant(sides[1], p), p))]

moves(sides) ==
  LET at == UNION {{<<q, i, qr, dir>> : i \in 0 .. Count(sides, q) - 1, qr \in Quads, dir \in 0 .. 1} : q \in Quads}
      index(m) == Total(sides, m[1]) + 8 * m[2] + 2 * m[3] + m[4]
  IN [n \in {index(m) : m \in at} |-> LET m == CHOOSE a \in at : index(a) = n IN Move(sides, m[1], m[2], m[3], m[4])]

simple_moves(sides) == {<<sides[1] \cup {s}, sides[2]>> : s \in side_mask \ (sides[1] \cup sides[2])}
-----------------------------------------------------------------------------
(***************************************************************************)
(* Five in a row, by the tables: a field counts the quadrants that have    *)
(* their part of a pattern.                                                *)
(***************************************************************************)
Contributions(side) ==
  LET of == [q \in Quads |-> win_contributions(q, quadrant(side, q))] @@ <<>> IN
    [i \in Pattern |-> Cardinality({q \in Quads : i \in of[q]})] @@ <<>>

Complete(i, field) == IF i < 4 THEN field = 3 ELSE field >= 2

won(side) == LET c == Contributions(side) IN \E i \in Pattern : Complete(i, c[i])

rotated_won(side) ==
  LET c == Contributions(side) IN
    \E q \in Quads :
      LET delta == rotated_win_contribution_deltas(q, quadrant(side, q)) IN
        \E i \in Pattern : Complete(i, c[i] + (IF i \in delta THEN 1 ELSE 0))

status(sides) ==
  LET wons == (IF won(sides[1]) THEN 1 ELSE 0) + (IF won(sides[2]) THEN 2 ELSE 0) IN
    IF wons # 0 THEN wons ELSE IF sides[1] \cup sides[2] = side_mask THEN 3 ELSE 0

arbitrarily_rotated_status(side) ==
  \E r \in [Quads -> 0 .. 3] : won(quadrants([q \in Quads |-> all_rotations(quadrant(side, q), r[q])]))
-----------------------------------------------------------------------------
(***************************************************************************)
(* How many stones black is away from a win, and in how many ways.  DISTANCES *)
(* adds up fields of three or four bits.                                   *)
(***************************************************************************)
DISTANCES(parts) == IF 4 \in {parts[q] : q \in Quads} THEN 6 ELSE MapThenSumSet(LAMBDA q : parts[q], Quads)

Closeness(fields) ==
  LET least == Min({fields[f] : f \in DOMAIN fields}) IN
    IF least = 6 THEN 0 ELSE (6 - least) * 2^16 + Cardinality({f \in DOMAIN fields : fields[f] = least})

rotated_win_closeness(black, white) ==
  Closeness([rp \in RotatedPattern |->
    DISTANCES([q \in Quads |-> rotated_win_distances(q, quadrant(black, q), quadrant(white, q), rp)])] @@ <<>>)

unrotated_win_closeness(black, white) ==
  Closeness([i \in Pattern |->
    DISTANCES([q \in Quads |-> unrotated_win_distances(q, quadrant(black, q), quadrant(white, q), i)])] @@ <<>>)

arbitrarily_rotated_win_closeness(black, white) ==
  Closeness([i \in Pattern |->
    DISTANCES([q \in Quads |-> arbitrarily_rotated_win_distances(q, quadrant(black, q), quadrant(white, q), i)])] @@ <<>>)
=============================================================================
