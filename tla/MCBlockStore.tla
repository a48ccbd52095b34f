---------------------------- MODULE MCBlockStore -----------------------------
(***************************************************************************)
(* Two blocks in each slice, with two contributions each.  A complete block*)
(* compresses worse than a partial one, and the heap holds the complete    *)
(* blocks of two slices and nothing more.                                  *)
(***************************************************************************)
EXTENDS BlockStore

MCCount == (0 :> 2) @@ (1 :> 2)
MCDim == {0, 1}
MCValue == (SUBSET MCDim) \ {{}}
MCSizeOf == [v \in MCValue |-> IF v = {0} THEN 1 ELSE Cardinality(v) + 1]
=============================================================================
