------------------------------- MODULE MCSearch -------------------------------
(***************************************************************************)
(* Three quadrants of four cells side by side, and lines of four along     *)
(* the long edges, which leave one quadrant alone:                         *)
(*                      0 1 | 4 5 | 8 9                                    *)
(*                      3 2 | 7 6 | 11 10                                  *)
(***************************************************************************)
EXTENDS Search

MCTurned == [c \in 0 .. 3 |-> (c + 1) % 4]
MCLine == {{0, 1, 4, 5}, {4, 5, 8, 9}, {3, 2, 7, 6}, {7, 6, 11, 10}}

Map(back, cell, sign) == [quadrant |-> [q \in 0 .. 2 |-> IF back THEN 2 - q ELSE q], cell |-> cell, sign |-> sign]
MCSymmetric == {Map(FALSE, [c \in 0 .. 3 |-> c], 1), Map(TRUE, [c \in 0 .. 3 |-> (c + 2) % 4], 1),
                Map(FALSE, [c \in 0 .. 3 |-> 3 - c], -1), Map(TRUE, [c \in 0 .. 3 |-> (5 - c) % 4], -1)}

Ask(kind, aggressive, depth, s0, s1, r) ==
  [kind |-> kind, aggressive |-> aggressive, depth |-> depth, s0 |-> s0, s1 |-> s1,
   rotation |-> r[1] + 4 * r[2] + 16 * r[3], thrown |-> FALSE, value |-> 0]

\* Boards with six free spots or five, where whether black wins depends on the depth.
\* Some are met again in the search of another, at another depth; one is out of black's
\* reach; and the empty board has its own choice of moves.
MCRequests ==
  {Ask("one", TRUE, d, {3, 7, 11}, {0, 1, 10}, <<0, 0, 1>>) : d \in {3, 5}} \cup
  {Ask("all", FALSE, d, {0, 1, 10}, {3, 4, 7, 11}, <<0, 0, 0>>) : d \in {2, 4}} \cup
  {Ask("one", FALSE, 3, {0, 1, 10}, {3, 5, 7, 11}, <<0, 0, 0>>),
   Ask("children", FALSE, 2, {0, 1, 10}, {3, 4, 7, 11}, <<0, 3, 3>>),
   Ask("children", TRUE, 1, {}, {}, <<0, 0, 0>>)}
=============================================================================
