------------------------------ MODULE MCMidSolve -----------------------------
(***************************************************************************)
(* Two quadrants of four cells, which a quarter turn takes around, side by *)
(* side, and lines of three along the long edges:                          *)
(*                    0 1 | 4 5                                            *)
(*                    3 2 | 7 6                                            *)
(***************************************************************************)
EXTENDS MidSolve

MCTurned == [c \in 0 .. 3 |-> (c + 1) % 4]
MCLine == {{0, 1, 4}, {1, 4, 5}, {3, 2, 7}, {2, 7, 6}}

\* Every way to fill the other spots, about to place a stone and about to turn a quadrant
Boards(empty) ==
  LET stones == 8 - Cardinality(empty) IN
    {b \in BoardsAt(2 * stones) \cup BoardsAt(2 * stones - 1) : empty_mask(b) = empty}

MCJobs == {"midsolve"} \X UNION {Boards(empty) : empty \in {{1, 2, 4, 6, 7}, {0, 2, 4, 5}}} \cup
          {"midsolve", "transposed"} \X UNION {Boards(empty) : empty \in {{1, 4, 6}, {3, 5}, {7}}}

\* For either parity, rmax on halves is rmax on the super_t they are taken from (halfsuper.h:152)
ASSUME RmaxAgrees ==
  \A half \in SUBSET Half, p \in 0 .. 1 :
    LET Whole(x, q) == {Merged(h, q) : h \in x} IN
      Whole(half_rmax(half), 1 - p) = {r \in super_rmax(Whole(half, p)) : ParityOf(r) = 1 - p}
=============================================================================
