---------------------------- MODULE MCSharedStore ----------------------------
(***************************************************************************)
(* One array in each group; values that fill an alignment unit and values  *)
(* that leave part of it unused.  The heap has one unit per array and one  *)
(* to spare, so the fourth allocation collects.  Without the spare unit the*)
(* store can die: between the unlock and the relock of one set another set *)
(* may give the same array memory, which the first then has to abandon.    *)
(***************************************************************************)
EXTENDS SharedStore

MCCount == (0 :> 1) @@ (1 :> 1)
MCSizeOf == [small |-> 1, large |-> 2]
=============================================================================
