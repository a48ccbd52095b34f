------------------------------- MODULE IBarrier ------------------------------
(***************************************************************************)
(* The nonblocking barrier of mpi/ibarrier.cc, driven the way flow_t drives *)
(* it: each rank counts down the work it still owes, enters the barrier    *)
(* when that reaches zero, answers messages until done() is true, and then *)
(* leaves its communication loop and cancels what is still posted.         *)
(*                                                                         *)
(* Ranks form a tree.  "Started" messages flow from the leaves to rank 0;  *)
(* "done" messages flow back.  Both are empty and carry the same tag, so a *)
(* receiver tells them apart only by who sent them.                        *)
(***************************************************************************)
EXTENDS Integers, FiniteSets

CONSTANTS Ranks,         \* number of MPI ranks
          Parent,        \* parent(rank), -1 for the root
          Kids,          \* the ranks the children loop visits
          MaxWork,       \* largest initial countdown (bounds the model)
          BufferedSends  \* whether MPI completes an empty send on its own,
                         \* before the destination receives it

Rank == 0 .. Ranks - 1

ASSUME RanksAssumption == Ranks \in Nat \ {0} /\ MaxWork \in Nat
ASSUME BufferingAssumption == BufferedSends \in BOOLEAN

(***************************************************************************)
(* All the barrier needs of the tree: the parent function and the children *)
(* loop describe the same tree, and a parent has a smaller rank.           *)
(***************************************************************************)
ASSUME TreeAssumption ==
  /\ Parent \in [Rank -> Int]
  /\ Parent[0] = -1
  /\ \A r \in Rank \ {0} : Parent[r] \in 0 .. r-1
  /\ Kids = [r \in Rank |-> {c \in Rank : Parent[c] = r}]

VARIABLES pc,       \* "build" (in flow_t's constructor), "loop" or "left"
          work,     \* ibarrier_countdown_t::count
          started,  \* ibarrier_t::started_
          count,    \* ibarrier_t::count, messages still to come plus ourselves
          done,     \* ibarrier_t::done_
          net,      \* net[s][d]: empty messages on barrier_comm from s to d
          failed    \* some assertion of ibarrier.cc failed, or it called die

vars == <<pc, work, started, count, done, net, failed>>

ToSelf == <<0, 0>>

InitialCount(r) == 1 + Cardinality(Kids[r])

(***************************************************************************)
(* The communicator and the tag are the same in every slice, so the message*)
(* the root sent to itself in the previous slice may still be queued.      *)
(***************************************************************************)
Init ==
  /\ pc = [r \in Rank |-> "build"]
  /\ work \in [Rank -> 0 .. MaxWork]
  /\ started = [r \in Rank |-> FALSE]
  /\ count = [r \in Rank |-> InitialCount(r)]
  /\ done = [r \in Rank |-> FALSE]
  /\ \E stale \in {0, 1} : net = [s \in Rank |-> [d \in Rank |-> IF <<s, d>> = ToSelf THEN stale ELSE 0]]
  /\ failed = FALSE
-----------------------------------------------------------------------------
\* Receive the messages in `taken` and post the sends in `sent`
Transmit(taken, sent) ==
  net' = [s \in Rank |-> [d \in Rank |->
            net[s][d] - (IF <<s, d>> \in taken THEN 1 ELSE 0)
                      + (IF <<s, d>> \in sent THEN 1 ELSE 0)]]

\* Mutant of ToKids: the children loop without its test of rank&jump
ToKidsUntested(r) == {<<r, c>> : c \in {r + 1, r + 2, r + 4} \cap Rank}

ToKids(r) == {<<r, c>> : c \in Kids[r]}

Fail == failed' = TRUE /\ UNCHANGED <<started, count, done, net>>

(***************************************************************************)
(* ibarrier_t::decrement; `begun` is started_ as it finds it.  At zero a   *)
(* rank reports to its parent, and the root runs set_done instead and sends*)
(* one more message to itself.                                             *)
(***************************************************************************)
Decrement(r, begun, taken) ==
  IF done[r] \/ ~(count[r] > 1 \/ begun)
    THEN Fail
    ELSE /\ count' = [count EXCEPT ![r] = @ - 1]
         /\ started' = [started EXCEPT ![r] = begun]
         /\ done' = [done EXCEPT ![r] = r = 0 /\ count[r] = 1]
         /\ Transmit(taken, IF count[r] > 1 THEN {}
                            ELSE IF r = 0 THEN ToKids(0) \cup {ToSelf}
                            ELSE {<<r, Parent[r]>>})
         /\ UNCHANGED failed

\* Mutant of SetDone: done is not passed on to the children
SetDoneAlone(r, taken) ==
  IF ~started[r] \/ count[r] # 0 \/ done[r]
    THEN Fail
    ELSE /\ done' = [done EXCEPT ![r] = TRUE]
         /\ Transmit(taken, {})
         /\ UNCHANGED <<started, count, failed>>

SetDone(r, taken) ==
  IF ~started[r] \/ count[r] # 0 \/ done[r]
    THEN Fail
    ELSE /\ done' = [done EXCEPT ![r] = TRUE]
         /\ Transmit(taken, ToKids(r))
         /\ UNCHANGED <<started, count, failed>>

Start(r) ==
  IF started[r] \/ done[r] THEN Fail ELSE Decrement(r, TRUE, {})

-----------------------------------------------------------------------------
\* Mutant of Build: the rank starts without looking at its countdown
BuildStarted(r) ==
  /\ pc[r] = "build"
  /\ pc' = [pc EXCEPT ![r] = "loop"]
  /\ Start(r)
  /\ UNCHANGED work

(***************************************************************************)
(* Building the countdown: a rank that owes nothing starts at once.        *)
(***************************************************************************)
Build(r) ==
  /\ pc[r] = "build"
  /\ pc' = [pc EXCEPT ![r] = "loop"]
  /\ IF work[r] = 0 THEN Start(r) ELSE UNCHANGED <<started, count, done, net, failed>>
  /\ UNCHANGED work

(***************************************************************************)
(* A block was received or finished sending: ibarrier_countdown_t's        *)
(* decrement.                                                              *)
(***************************************************************************)
Progress(r) ==
  /\ pc[r] = "loop"
  /\ ~done[r]
  /\ work[r] > 0
  /\ work' = [work EXCEPT ![r] = @ - 1]
  /\ IF work[r] = 1 THEN Start(r) ELSE UNCHANGED <<started, count, done, net, failed>>
  /\ UNCHANGED pc

(***************************************************************************)
(* process_barrier: the posted wildcard receive matched a message from s.  *)
(* ibarrier_t::process dispatches on the sender alone.                     *)
(***************************************************************************)
Process(r, s) ==
  /\ pc[r] = "loop"
  /\ ~done[r]
  /\ net[s][r] > 0
  /\ IF s = Parent[r] THEN SetDone(r, {<<s, r>>})
     ELSE IF r = Parent[s] THEN Decrement(r, started[r], {<<s, r>>})
     ELSE IF r = 0 /\ s = 0
       THEN Transmit({<<s, r>>}, {}) /\ UNCHANGED <<started, count, done, failed>>
     ELSE Fail
  /\ UNCHANGED <<pc, work>>

\* Mutant of Leave: the loop ends when the rank has reported, not when it is done
LeaveReported(r) ==
  /\ pc[r] = "loop"
  /\ count[r] = 0
  /\ pc' = [pc EXCEPT ![r] = "left"]
  /\ UNCHANGED <<work, started, count, done, net, failed>>

(***************************************************************************)
(* The loop of flow_t ends and cancel_and_waitall cancels every request    *)
(* still registered, the barrier's own sends among them.  When MPI does not*)
(* buffer them, a send whose destination has not received it yet is        *)
(* cancelled and its message is never delivered.                           *)
(***************************************************************************)
Leave(r) ==
  /\ pc[r] = "loop"
  /\ done[r]
  /\ pc' = [pc EXCEPT ![r] = "left"]
  /\ \E lost \in SUBSET {<<r, d>> : d \in {d \in Rank : net[r][d] > 0 /\ ~BufferedSends}} :
       Transmit(lost, {})
  /\ UNCHANGED <<work, started, count, done, failed>>

Next ==
  \E r \in Rank : \/ Build(r)
                  \/ Progress(r)
                  \/ \E s \in Rank : Process(r, s)
                  \/ Leave(r)

Safety == Init /\ [][Next]_vars

(***************************************************************************)
(* The communication loop keeps polling, MPI delivers every message it has *)
(* not been asked to cancel, and compute_lines gets its work done.         *)
(***************************************************************************)
Fairness ==
  \A r \in Rank : /\ WF_vars(Build(r))
                  /\ WF_vars(Progress(r))
                  /\ \A s \in Rank : WF_vars(Process(r, s))
                  /\ WF_vars(Leave(r))

Spec == Safety /\ Fairness
-----------------------------------------------------------------------------
TypeOK ==
  /\ pc \in [Rank -> {"build", "loop", "left"}]
  /\ work \in [Rank -> Nat]
  /\ started \in [Rank -> BOOLEAN]
  /\ count \in [Rank -> Nat]
  /\ done \in [Rank -> BOOLEAN]
  /\ net \in [Rank -> [Rank -> Nat]]
  /\ failed \in BOOLEAN

(***************************************************************************)
(* No message can arrive in an order that trips the assertions of start,   *)
(* decrement and set_done, or the "received unexpected message" of process.*)
(***************************************************************************)
NoFailure == ~failed

(***************************************************************************)
(* What the barrier is for (ibarrier.h: "so that ranks know when they can  *)
(* safely deallocate the previous slice's data"): when any rank sees done, *)
(* every rank has finished all of its work.                                *)
(***************************************************************************)
DoneMeansFinished ==
  (\E r \in Rank : done[r]) => \A s \in Rank : started[s] /\ work[s] = 0

(***************************************************************************)
(* A rank that has left its loop has no barrier message on its way to it,  *)
(* apart from the root's message to itself: nothing of this slice can be   *)
(* taken by the wildcard receive of the next one, which uses the same      *)
(* communicator and tag.                                                   *)
(***************************************************************************)
NoStrayMessage ==
  \A r, s \in Rank : pc[r] = "left" /\ <<s, r>> # ToSelf => net[s][r] = 0

(***************************************************************************)
(* The barrier implements its abstract specification, liveness included:   *)
(* requests.h relies on it to let "us know when everything is done".       *)
(***************************************************************************)
Abstract == INSTANCE Barrier WITH
  entered <- {r \in Rank : started[r]}, left <- {r \in Rank : done[r]}

ImplementsBarrierSafety == Abstract!Safety

ImplementsBarrier == Abstract!Spec
-----------------------------------------------------------------------------
(***************************************************************************)
(* The inductive invariant behind the safety properties.  The count of a   *)
(* rank is the number of members of Outstanding: itself until it starts,   *)
(* and each child that has not reported or whose report is on its way.     *)
(***************************************************************************)
Outstanding(r) ==
  (IF started[r] THEN {} ELSE {r})
    \cup {c \in Kids[r] : count[c] # 0 \/ net[c][r] # 0}

CountInv == \A r \in Rank : count[r] = Cardinality(Outstanding(r))

PhaseInv == \A r \in Rank : /\ started[r] <=> pc[r] # "build" /\ work[r] = 0
                            /\ pc[r] = "left" => done[r]

DoneInv == /\ \A r \in Rank : done[r] => done[0] /\ count[r] = 0
           /\ \A r \in Rank \ {0} : done[r] => done[Parent[r]]

(***************************************************************************)
(* The messages in flight: one report of a child that has reported, or one *)
(* release of a child that is not done by a parent that is.                *)
(***************************************************************************)
NetInv ==
  \A s, d \in Rank : net[s][d] # 0 /\ <<s, d>> # ToSelf =>
    /\ net[s][d] = 1
    /\ \/ s \in Kids[d] /\ count[s] = 0
       \/ d \in Kids[s] /\ done[s] /\ ~done[d]

IInv == TypeOK /\ NoFailure /\ PhaseInv /\ DoneInv /\ NetInv /\ CountInv
=============================================================================
