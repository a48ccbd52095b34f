----------------------------- MODULE SharedStore -----------------------------
(***************************************************************************)
(* compacting_store_t and the threads that compete for its arrays, for as  *)
(* long as the bounds on sets and freezes let them.                        *)
(***************************************************************************)
EXTENDS CompactingStore

CONSTANTS MaxCalls,  \* calls of set by all threads together (bounds the model)
          MaxFreezes \* freezes (bounds the model)

VARIABLES calls, freezes

vars == <<storevars, calls, freezes>>

Init == StoreInit /\ calls = 0 /\ freezes = 0

Thrash(t) ==
  \/ /\ calls < MaxCalls /\ calls' = calls + 1
     /\ \E a \in InUse, v \in Value : Begin(t, a, v)
     /\ UNCHANGED freezes
  \/ (Store(t) \/ End(t)) /\ UNCHANGED <<calls, freezes>>

Regroup(g) == \/ AllocateGroup(g) /\ UNCHANGED <<calls, freezes>>
              \/ ClearGroup(g) /\ UNCHANGED <<calls, freezes>>
              \/ Freeze(g) /\ freezes < MaxFreezes /\ freezes' = freezes + 1 /\ UNCHANGED calls

Next == \/ \E t \in Thread : Thrash(t)
        \/ \E g \in Group : Regroup(g)

\* A thread that is not finished keeps running
Spec == Init /\ [][Next]_vars /\ \A t \in Thread : WF_vars(Thrash(t))
-----------------------------------------------------------------------------
(***************************************************************************)
(* The lock order heap_lock < array locks leaves no deadlock: every set    *)
(* returns.                                                                *)
(***************************************************************************)
EveryCallReturns == \A t \in Thread : op[t] # Idle ~> op[t] = Idle
=============================================================================
