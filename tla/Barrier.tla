------------------------------- MODULE Barrier -------------------------------
(***************************************************************************)
(* What ibarrier_t promises to the code above it (ibarrier.h: "a           *)
(* nonblocking version of MPI_Barrier"): start() enters the barrier, done()*)
(* becomes true on a rank only once every rank has entered, and once every *)
(* rank has entered it becomes true on all of them.                        *)
(***************************************************************************)
CONSTANT Rank

VARIABLES entered,   \* the ranks that have called start()
          left       \* the ranks on which done() is true

vars == <<entered, left>>

Init == entered = {} /\ left = {}

Enter(r) ==
  /\ r \notin entered
  /\ entered' = entered \cup {r}
  /\ left' = left

Leave(r) ==
  /\ r \notin left
  /\ entered = Rank
  /\ left' = left \cup {r}
  /\ entered' = entered

(***************************************************************************)
(* The last rank to enter may learn in the same step that it was the last. *)
(***************************************************************************)
EnterAndLeave(r) ==
  /\ r \notin entered
  /\ r \notin left
  /\ entered' = entered \cup {r}
  /\ entered' = Rank
  /\ left' = left \cup {r}

Next == \E r \in Rank : Enter(r) \/ Leave(r) \/ EnterAndLeave(r)

Safety == Init /\ [][Next]_vars

Spec == Safety /\ \A r \in Rank : WF_vars(Leave(r))
=============================================================================
