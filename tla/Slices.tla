-------------------------------- MODULE Slices --------------------------------
(***************************************************************************)
(* The loop over slices of mpi/toplevel.cc on all ranks.  Within a slice   *)
(* compute_lines keeps the promise of ComputeLines over the barrier of     *)
(* Barrier; between slices the ranks meet in MPI's collectives only.  All  *)
(* slices share the communicators of flow_comms_t, and the receives of     *)
(* flow_t take a message from anybody: nothing in a message says to which  *)
(* slice it belongs.  The last slices are written to files, from which     *)
(* another job may go on after a crash.                                    *)
(*                                                                         *)
(* A rank owns one block per slice and works on one line at most, which    *)
(* needs the block of one rank in the slice above and contributes to the   *)
(* block of another.                                                       *)
(***************************************************************************)
EXTENDS Integers, Sequences

CONSTANTS Ranks,      \* number of ranks
          FirstSlice, \* the slice computed first, which needs no blocks
          Save,       \* slices up to this one are saved
          MaxLines,   \* lines of a slice, at most
          MaxCrashes  \* bound on crashes

ASSUME SlicesAssumption == /\ Ranks \in Nat \ {0}
                           /\ {FirstSlice, Save, MaxLines, MaxCrashes} \subseteq Nat
                           /\ Save <= FirstSlice

Rank == 0 .. Ranks - 1
Line == [worker : Rank, from : Rank, to : Rank]

VARIABLES
  lines,    \* the lines of every slice
  slice,    \* the slice each rank is at, -1 after the last, -2 after a crash
  step,     \* and where in the loop
  holds,    \* block stores of each rank: the slice, and whether it is frozen
  progress, \* of the lines, in the flow of their worker
  missing,  \* lines whose contribution the block being computed misses
  entered,  \* ranks that have entered the barrier of each slice
  net,      \* requests, responses and outputs under way
  died,     \* an assertion has failed
  file,     \* what the file of each slice has
  crashes   \* so far

flow == <<lines, progress, missing, entered, net, died>>
vars == <<flow, slice, step, holds, file, crashes>>
-----------------------------------------------------------------------------
\* Mutants of Steps: no offsets in a file are computed; the blocks above are dropped
\* too early; blocks are written together with their indices
StepsWithoutOffsets == <<"allocate", "balance", "compute", "drop", "report", "freeze", "counts",
                         "start", "blocks", "blobs", "indices", "header", "times">>
StepsDropFirst == <<"allocate", "balance", "drop", "compute", "report", "freeze", "counts", "offsets",
                    "start", "blocks", "blobs", "indices", "header", "times">>
StepsWriteOnce == <<"allocate", "balance", "compute", "drop", "report", "freeze", "counts", "offsets",
                    "start", "blobs", "blocks", "indices", "header", "times">>

\* The loop, with collectives in a row as one step; "start" to "header" are of slices
\* that are saved.  Opening, writing and closing files together may make ranks wait as
\* well, but the standard does not say that it does; that each rank waits for the
\* offsets of the blocks it indexes is not needed for what is shown
Steps == <<"allocate", "balance", "compute", "drop", "report", "freeze", "counts", "offsets",
           "start", "blocks", "blobs", "indices", "header", "times">>

At(r, name) == slice[r] >= 0 /\ Steps[step[r]] = name
Place(name) == CHOOSE k \in DOMAIN Steps : Steps[k] = name

\* Rank r has come to the call that rank q is at, or gone on
Called(r, q) == slice[r] < slice[q] \/ (slice[r] = slice[q] /\ step[r] >= step[q])

\* What a rank waits for: a reduction gives its result to rank 0, a scan gives each
\* rank what the ranks before it have ("offsets"); where the indices start comes from
\* the last rank, which has it from a scan; "blobs" is a scan and a reduction
WaitsFor(r) ==
  IF At(r, "start") \/ (r = 0 /\ ~At(r, "offsets")) THEN Rank
  ELSE IF At(r, "offsets") \/ At(r, "blobs") THEN 0 .. r - 1 ELSE {}

GoOn(r) ==
  IF step[r] < Len(Steps)
  THEN /\ step' = [step EXCEPT ![r] = IF Steps[@ + 1] = "start" /\ slice[r] > Save THEN Place("times") ELSE @ + 1]
       /\ UNCHANGED slice
  ELSE /\ step' = [step EXCEPT ![r] = 1]
       /\ slice' = [slice EXCEPT ![r] = @ - 1]

Init ==
  /\ lines \in {{f[i] : i \in 1 .. MaxLines} : f \in [1 .. MaxLines -> Line]}
  /\ \A l, k \in lines : l.worker = k.worker => l = k
  /\ slice = [r \in Rank |-> FirstSlice]
  /\ step = [r \in Rank |-> 1]
  /\ holds = [r \in Rank |-> {}]
  /\ progress = [l \in lines |-> "unscheduled"]
  /\ missing = [r \in Rank |-> {}]
  /\ entered = [s \in 0 .. FirstSlice |-> {}]
  /\ net = {}
  /\ died = FALSE
  /\ file = [s \in 0 .. Save |-> {}]
  /\ crashes = 0
-----------------------------------------------------------------------------
(***************************************************************************)
(* The steps between the flows.                                            *)
(***************************************************************************)
Allocate(r) ==
  /\ At(r, "allocate")
  /\ holds' = [holds EXCEPT ![r] = @ \cup {<<slice[r], "computed">>}]
  /\ missing' = [missing EXCEPT ![r] = {l \in lines : l.to = r}]
  /\ progress' = [l \in lines |-> IF l.worker = r THEN "unscheduled" ELSE progress[l]]
  /\ GoOn(r)
  /\ UNCHANGED <<lines, entered, net, died, file, crashes>>

Collective(r) ==
  /\ slice[r] >= 0 /\ Steps[step[r]] \in {"balance", "report", "counts", "offsets", "start", "blobs", "times"}
  /\ \A q \in WaitsFor(r) : Called(q, r)
  /\ GoOn(r)
  /\ UNCHANGED <<flow, holds, file, crashes>>

Drop(r) ==
  /\ At(r, "drop")
  /\ holds' = [holds EXCEPT ![r] = {h \in @ : h[1] = slice[r]}]
  /\ GoOn(r)
  /\ UNCHANGED <<flow, file, crashes>>

Freeze(r) ==
  /\ At(r, "freeze")
  /\ holds' = [holds EXCEPT ![r] = {<<h[1], "frozen">> : h \in @}]
  /\ GoOn(r)
  /\ UNCHANGED <<flow, file, crashes>>
-----------------------------------------------------------------------------
(***************************************************************************)
(* The file of a slice.  What a rank has written is there if the job       *)
(* crashes.  Rank 0 writes the header, which says of all sections that     *)
(* they are valid.                                                         *)
(***************************************************************************)
Header == <<"header", 0>>
Parts == ({"blocks", "indices"} \X Rank) \cup {Header}

Write(r) ==
  /\ slice[r] >= 0 /\ Steps[step[r]] \in {"blocks", "indices", "header"}
  /\ file' = [file EXCEPT ![slice[r]] = @ \cup (Parts \cap {<<Steps[step[r]], r>>})]
  /\ GoOn(r)
  /\ UNCHANGED <<flow, holds, crashes>>

Crash ==
  /\ crashes < MaxCrashes
  /\ \E r \in Rank : slice[r] >= 0
  /\ crashes' = crashes + 1
  /\ slice' = [r \in Rank |-> -2]
  /\ step' = [r \in Rank |-> 1]
  /\ holds' = [r \in Rank |-> {}]
  /\ progress' = [l \in lines |-> "unscheduled"]
  /\ missing' = [r \in Rank |-> {}]
  /\ entered' = [s \in 0 .. FirstSlice |-> {}]
  /\ net' = {}
  /\ UNCHANGED <<lines, died, file>>

\* Another job reads a slice, dies unless all that the header promises is there, and
\* writes to a directory of its own
Restart ==
  /\ \A r \in Rank : slice[r] = -2
  /\ \E s \in DOMAIN file :
       /\ file[s] = Parts
       /\ slice' = [r \in Rank |-> s - 1]
       /\ holds' = [r \in Rank |-> {<<s, "frozen">>}]
  /\ file' = [s \in DOMAIN file |-> {}]
  /\ UNCHANGED <<flow, step, crashes>>
-----------------------------------------------------------------------------
(***************************************************************************)
(* The flow of a rank at a slice.                                          *)
(***************************************************************************)
Message(type, l, s, to) == [type |-> type, line |-> l, slice |-> s, to |-> to]

Request(r, l) ==
  /\ At(r, "compute") /\ l.worker = r /\ progress[l] = "unscheduled"
  /\ IF slice[r] = FirstSlice
     THEN /\ progress' = [progress EXCEPT ![l] = "gathered"]
          /\ UNCHANGED net
     ELSE /\ progress' = [progress EXCEPT ![l] = "gathering"]
          /\ net' = net \cup {Message("request", l, slice[r], l.from)}
  /\ UNCHANGED <<lines, slice, step, holds, missing, entered, died, file, crashes>>

\* The request names a block of the slice above, whichever that is here
ProcessRequest(r, m) ==
  /\ At(r, "compute") /\ m.type = "request" /\ m.to = r
  /\ net' = (net \ {m}) \cup {Message("response", m.line, slice[r], m.line.worker)}
  /\ died' = (died \/ <<slice[r] + 1, "frozen">> \notin holds[r])
  /\ UNCHANGED <<lines, slice, step, holds, progress, missing, entered, file, crashes>>

ProcessResponse(r, m) ==
  /\ At(r, "compute") /\ m.type = "response" /\ m.to = r
  /\ progress[m.line] = "gathering"
  /\ net' = net \ {m}
  /\ progress' = [progress EXCEPT ![m.line] = "gathered"]
  /\ UNCHANGED <<lines, slice, step, holds, missing, entered, died, file, crashes>>

Send(r, l) ==
  /\ At(r, "compute") /\ l.worker = r /\ progress[l] = "gathered"
  /\ progress' = [progress EXCEPT ![l] = "sent"]
  /\ net' = net \cup {Message("output", l, slice[r], l.to)}
  /\ UNCHANGED <<lines, slice, step, holds, missing, entered, died, file, crashes>>

\* The output names a block of the slice being computed, whichever that is here
ProcessOutput(r, m) ==
  /\ At(r, "compute") /\ m.type = "output" /\ m.to = r
  /\ net' = net \ {m}
  /\ missing' = [missing EXCEPT ![r] = @ \ {m.line}]
  /\ died' = (died \/ m.line \notin missing[r])
  /\ UNCHANGED <<lines, slice, step, holds, progress, entered, file, crashes>>

\* Every output is sent, and every contribution has come
Enter(r) ==
  /\ At(r, "compute") /\ r \notin entered[slice[r]]
  /\ missing[r] = {} /\ \A l \in lines : l.worker = r => progress[l] = "sent"
  /\ entered' = [entered EXCEPT ![slice[r]] = @ \cup {r}]
  /\ UNCHANGED <<lines, slice, step, holds, progress, missing, net, died, file, crashes>>

\* Until the rank leaves the loop, its receives are posted
Leave(r) ==
  /\ At(r, "compute") /\ entered[slice[r]] = Rank
  /\ GoOn(r)
  /\ UNCHANGED <<flow, holds, file, crashes>>

Loop(r) == Allocate(r) \/ Collective(r) \/ Drop(r) \/ Freeze(r) \/ Write(r)
Flow(r) ==
  \/ \E l \in lines : Request(r, l) \/ Send(r, l)
  \/ \E m \in net : ProcessRequest(r, m) \/ ProcessResponse(r, m) \/ ProcessOutput(r, m)
  \/ Enter(r) \/ Leave(r)

Next == ~died /\ ((\E r \in Rank : Loop(r) \/ Flow(r)) \/ Crash \/ Restart)

(***************************************************************************)
(* A rank keeps going, and a collective call returns when the standard     *)
(* lets it.                                                                *)
(***************************************************************************)
Spec == Init /\ [][Next]_vars /\ \A r \in Rank : WF_vars(~died /\ (Loop(r) \/ Flow(r)))
-----------------------------------------------------------------------------
SlicesTypeOK ==
  /\ lines \subseteq Line
  /\ slice \in [Rank -> -2 .. FirstSlice]
  /\ step \in [Rank -> DOMAIN Steps]
  /\ holds \in [Rank -> SUBSET ((0 .. FirstSlice) \X {"computed", "frozen"})]
  /\ progress \in [lines -> {"unscheduled", "gathering", "gathered", "sent"}]
  /\ missing \in [Rank -> SUBSET lines]
  /\ entered \in [0 .. FirstSlice -> SUBSET Rank]
  /\ net \subseteq [type : {"request", "response", "output"}, line : lines, slice : 0 .. FirstSlice, to : Rank]
  /\ died \in BOOLEAN
  /\ file \in [0 .. Save -> SUBSET Parts]
  /\ crashes \in 0 .. MaxCrashes

\* Although no barrier separates the slices, a message is under way only to a rank
\* that will take it in the slice it was sent in: one that has neither gone on nor
\* still has the receives of the slice before posted.  Whoever is asked for a block
\* has it frozen (flow.cc:282, block_store.cc:298)
MessagesMeetTheirSlice ==
  /\ ~died
  /\ \A m \in net :
       /\ \/ slice[m.to] = m.slice /\ step[m.to] <= Place("compute")
          \/ slice[m.to] = m.slice + 1 /\ step[m.to] > Place("compute")
       /\ m.type = "request" => <<m.slice + 1, "frozen">> \in holds[m.to]

\* A job that starts, or goes on from a slice it has read, gets to the end of its last
\* slice on all ranks unless it crashes
EverySliceComputed == []<>(\A r \in Rank : slice[r] < 0)

\* A file whose header calls its sections valid has the blocks of all ranks, although
\* nothing but the reduction that gives rank 0 the places of the indices makes it wait
\* for them (io.cc:298)
HeaderAfterBlocks ==
  \A s \in DOMAIN file : Header \in file[s] => {"blocks"} \X Rank \subseteq file[s]

\* "Write the last piece of the file" (io.cc:326).  This does not hold: the README's
\* findings say why
HeaderIsLast == \A s \in DOMAIN file : Header \in file[s] => file[s] = Parts
=============================================================================
