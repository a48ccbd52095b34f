----------------------------- MODULE ArrayStore ------------------------------
(***************************************************************************)
(* What compacting_store_t promises to its users, whatever moves around in *)
(* its heap: an array is empty or holds exactly a value that somebody set, *)
(* and once frozen it keeps its place and its value until its group goes.  *)
(* A set may be preceded by a moment in which the array is empty.          *)
(***************************************************************************)
CONSTANTS Array, Value, Empty, GroupOf, Nowhere

VARIABLES value,    \* what get() returns
          address,  \* where the bytes of a frozen array are, Nowhere for others
          frozen    \* the frozen arrays

vars == <<value, address, frozen>>

Init == /\ value = [a \in Array |-> Empty]
        /\ address = [a \in Array |-> Nowhere]
        /\ frozen = {}

Set(a) ==
  /\ a \notin frozen
  /\ value'[a] \in Value \cup {Empty}
  /\ \A b \in Array \ {a} : value'[b] = value[b]
  /\ UNCHANGED <<address, frozen>>

Freeze(g) ==
  /\ \A a \in frozen : GroupOf[a] # g
  /\ frozen' = frozen \cup {a \in Array : GroupOf[a] = g}
  /\ \A a \in Array : GroupOf[a] # g => address'[a] = address[a]
  /\ value' = value

Clear(g) ==
  /\ frozen' = {a \in frozen : GroupOf[a] # g}
  /\ value' = [a \in Array |-> IF GroupOf[a] = g THEN Empty ELSE value[a]]
  /\ address' = [a \in Array |-> IF GroupOf[a] = g THEN Nowhere ELSE address[a]]

Next == \E a \in Array : Set(a) \/ Freeze(GroupOf[a]) \/ Clear(GroupOf[a])

Spec == Init /\ [][Next]_vars
=============================================================================
