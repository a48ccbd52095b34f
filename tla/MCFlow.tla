------------------------------- MODULE MCFlow --------------------------------
(***************************************************************************)
(* Two ranks and four lines.  l2 and l4 of rank 0 share block a, which is  *)
(* remote for them; l1, l2 and l3 read block b of rank 0.  Rank 0 has slots*)
(* and memory for two of its three lines, so l4 waits for l1 or l2 and may *)
(* find the request for a pending, answered, or half absorbed.             *)
(***************************************************************************)
EXTENDS Flow

MCOrder == (0 :> <<"l1", "l2", "l4">>) @@ (1 :> <<"l3">>)
MCInputs == [l1 |-> {"b"}, l2 |-> {"a", "b"}, l3 |-> {"b"}, l4 |-> {"a"}]
MCOutputs == [l1 |-> {"x"}, l2 |-> {"x", "y"}, l3 |-> {"y"}, l4 |-> {"y"}]
MCOwner == [a |-> 1, b |-> 0, x |-> 0, y |-> 1]
MCMicrolines == [l1 |-> 1, l2 |-> 2, l3 |-> 1, l4 |-> 1]
MCMemory == [l1 |-> 1, l2 |-> 2, l3 |-> 2, l4 |-> 2]
=============================================================================
