---------------------------- MODULE ComputeLines -----------------------------
(***************************************************************************)
(* What compute_lines promises for one slice, whatever the scheduling,     *)
(* merging and messaging below it: every line's contribution to every one  *)
(* of its output blocks is accumulated exactly once, and no rank returns   *)
(* before its own blocks are complete.                                     *)
(***************************************************************************)
EXTENDS Naturals

CONSTANTS Rank, Contribution, Owner  \* Owner[c]: the rank that stores c's block

VARIABLES accumulated,  \* how often each contribution was accumulated
          returned      \* the ranks on which compute_lines has returned

vars == <<accumulated, returned>>

Init == accumulated = [c \in Contribution |-> 0] /\ returned = {}

Accumulate(c) ==
  /\ Owner[c] \notin returned
  /\ accumulated[c] = 0
  /\ accumulated' = [accumulated EXCEPT ![c] = 1]
  /\ returned' = returned

Return(r) ==
  /\ r \notin returned
  /\ \A c \in Contribution : Owner[c] = r => accumulated[c] = 1
  /\ returned' = returned \cup {r}
  /\ accumulated' = accumulated

Next == \/ \E c \in Contribution : Accumulate(c)
        \/ \E r \in Rank : Return(r)

Safety == Init /\ [][Next]_vars

Spec == Safety /\ WF_vars(Next)
=============================================================================
