----------------------------- MODULE MCIBarrier ------------------------------
(***************************************************************************)
(* IBarrier on the binomial tree of ibarrier.cc.                           *)
(***************************************************************************)
EXTENDS IBarrier

(***************************************************************************)
(* The binomial tree.  The file ibarrier.cc keeps it twice: as the         *)
(* function parent(rank), which clears the lowest set bit, and as the loop *)
(*                                                                         *)
(*    for (int jump = 1; rank+jump<ranks && !(rank&jump); jump *= 2)       *)
(*                                                                         *)
(* over the children of a rank, written once in the constructor (to count  *)
(* them) and once in set_done (to release them).  The barrier is right only*)
(* if the two agree.                                                       *)
(***************************************************************************)

Bits == 0 .. 20  \* enough for the ranks checked; the code uses an int

min_bit(n) == CHOOSE b \in {2^k : k \in Bits} : n % b = 0 /\ n % (2*b) # 0

\* n & 2^k, for a power of two given by its value
HasBit(n, jump) == (n \div jump) % 2 = 1

parent(rank) == IF rank = 0 THEN -1 ELSE rank - min_bit(rank)

(***************************************************************************)
(* The loop stops at the first jump that fails its test, so a child is     *)
(* visited only when every smaller jump passed too.                        *)
(***************************************************************************)
JumpOK(rank, ranks, jump) == rank + jump < ranks /\ ~HasBit(rank, jump)

children(rank, ranks) ==
  {rank + 2^k : k \in {k \in Bits : \A j \in 0..k : JumpOK(rank, ranks, 2^j)}}
-----------------------------------------------------------------------------
(***************************************************************************)
(* The barrier depends on parent() and the children loop agreeing.  TLC    *)
(* evaluates this for every number of ranks up to TreeBound.               *)
(***************************************************************************)
TreeBound == 17

ASSUME TreeAgreement ==
  \A n \in 1 .. TreeBound : \A r \in 0 .. n-1 :
    /\ r > 0 => parent(r) \in 0 .. r-1
    /\ children(r, n) = {c \in 0 .. n-1 : parent(c) = r}

MCParent == [r \in Rank |-> parent(r)]
MCKids == [r \in Rank |-> children(r, Ranks)]
==============================================================================
