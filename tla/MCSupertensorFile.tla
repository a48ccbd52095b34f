------------------------- MODULE MCSupertensorFile ---------------------------
(***************************************************************************)
(* Two sections of two blocks, or the first alone.  One block is larger.   *)
(* The second byte after two headers is padding: a small block may come    *)
(* before it, but if the large one is placed first, its reservation fails. *)
(***************************************************************************)
EXTENDS SupertensorFile, TLC

MCSection == 1 .. 2
MCBlock == {"a", "b"}
MCSizeOf == [j \in MCSection \X {"a", "b", "index"} |-> IF j = <<1, "a">> THEN 2 ELSE 1]
MCPadding == {6}
=============================================================================
