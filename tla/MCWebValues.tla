----------------------------- MODULE MCWebValues -----------------------------
(***************************************************************************)
(* Three requests for up to two of three blocks, and one that asks for the *)
(* same block twice, with a cache that holds any two blocks but not three, *)
(* nor the large one with another.                                         *)
(***************************************************************************)
EXTENDS WebValues, TLC

MCAsks == [r1 |-> <<"a", "b">>, r2 |-> <<"b", "c">>, r3 |-> <<"a", "a">>]
MCSizeOf == [a |-> 1, b |-> 1, c |-> 2]
=============================================================================
