--------------------------- MODULE SupertensorFile ---------------------------
(***************************************************************************)
(* The writers of data/supertensor.cc, as data/roundtrip.cc uses them: one *)
(* or several sections share a file, a count of the bytes handed out, and  *)
(* the two thread pools.  The master schedules blocks and finalizes        *)
(* sections; a block is compressed by a CPU job, which schedules an IO job *)
(* that reserves its place in the file and writes it.                      *)
(*                                                                         *)
(* Any write may fail, any compression may throw, and the process may die  *)
(* between any two steps.  An offset counts abstract bytes: one for the    *)
(* bytes before the section headers, and two for a header, its flag and the*)
(* location of its index.                                                  *)
(*                                                                         *)
(* Of the pools, only what ThreadPool establishes is used.  threads_wait_all*)
(* returns when no job is queued or running, or throws the error of a job, *)
(* perhaps while others run.  A pool that has an error refuses new jobs, and*)
(* those it holds may or may not run.                                      *)
(***************************************************************************)
EXTENDS Integers, FiniteSets

CONSTANTS Section,  \* 1 .. n: the sections of a multiple file
          Block,    \* the blocks of each section
          SizeOf,   \* compressed size of each <<section, block>> and <<section, Index>>
          Index,    \* stands for a section's block index
          Padding   \* bytes of a multiple file that no section may use

Job == Section \X (Block \cup {Index})

\* The padding is what the blobs of the file that is copied leave out, after its headers
ASSUME SizeAssumption == /\ IsFiniteSet(Section) /\ Section # {} /\ Section = 1 .. Cardinality(Section)
                         /\ Index \notin Block
                         /\ SizeOf \in [Job -> Nat \ {0}]
                         /\ Padding \subseteq Nat /\ IsFiniteSet(Padding)
                         /\ \A i \in Padding : i > 2 * Cardinality(Section)

VARIABLES
  sections,  \* the sections of this file
  multiple,  \* whether it has the form for several sections
  file,      \* the bytes on disk, where any have been written
  linked,    \* the file has a name
  next,      \* next_offset_t::offset
  todo,      \* blocks the master has yet to schedule
  job,       \* where each write is: "none", "cpu", "compressing", "io", "placed", "written", "lost"
  offset,    \* supertensor_blob_t::offset, 0 if undefined
  table,     \* what the compressed index of each section says of its blocks' offsets
  valid,     \* sections with header.valid
  error,     \* pools that have captured an exception
  master     \* where the master is, and the section it finalizes

vars == <<sections, multiple, file, linked, next, todo, job, offset, table, valid, error, master>>

Jobs == sections \X (Block \cup {Index})
BlocksOf(s) == {s} \X Block
IndexOf(s) == <<s, Index>>

Reserved == IF multiple THEN Padding ELSE {}
PreheaderSize == IF multiple THEN 1 ELSE 0
HeaderOffset(s) == PreheaderSize + 2 * (s - 1)
HeadersEnd == PreheaderSize + 2 * Cardinality(sections)

FirstOffset == HeadersEnd

Magic == <<"magic">>
Zero == <<"padding">>
ValidFlag == <<"valid">>
Location(at) == <<"index at", at>>
ByteOf(j, i) == <<"data", j, i>>

Written(bytes) ==
  file' = [i \in DOMAIN file \cup DOMAIN bytes |-> IF i \in DOMAIN bytes THEN bytes[i] ELSE file[i]]
Prefix(bytes, n) == [i \in {k \in DOMAIN bytes : Cardinality({h \in DOMAIN bytes : h < k}) < n} |-> bytes[i]]

\* A pwrite that fails may have written some of the bytes, but not all
WrittenInPart(bytes) == \E n \in 0 .. Cardinality(DOMAIN bytes) - 1 : Written(Prefix(bytes, n))

At(where) == master.at = where
Goto(where) == master' = [master EXCEPT !.at = where]
Throw == Goto("unwind")

Init ==
  /\ \/ multiple = TRUE /\ sections = Section
     \/ multiple = FALSE /\ sections = {1}
  /\ file = [i \in {} |-> Zero]
  /\ linked = TRUE
  /\ next = FirstOffset
  /\ todo = sections \X Block
  /\ job = [j \in Job |-> "none"]
  /\ offset = [j \in Job |-> 0]
  /\ table = [s \in Section |-> [b \in Block |-> 0]]
  /\ valid = {} /\ error = {}
  /\ master = [at |-> IF multiple THEN "open" ELSE "work", section |-> 0]
-----------------------------------------------------------------------------
(***************************************************************************)
(* supertensor_writers opens the file and writes what comes before the     *)
(* headers, and the padding.  It ignores what pwrite returns.              *)
(***************************************************************************)
Open ==
  /\ At("open")
  /\ LET preheader == [i \in {0} \cup Padding |-> IF i = 0 THEN Magic ELSE Zero] IN
       \E done \in SUBSET DOMAIN preheader : Written([i \in done |-> preheader[i]])
  /\ Goto("work")
  /\ UNCHANGED <<sections, multiple, linked, next, todo, job, offset, table, valid, error>>

\* schedule_write_block, with or without the wait of write_block
Schedule(j) ==
  /\ At("work") /\ j \in todo
  /\ IF offset[j] # 0 \/ "CPU" \in error
       THEN Throw /\ UNCHANGED <<todo, job>>
       ELSE /\ todo' = todo \ {j}
            /\ job' = [job EXCEPT ![j] = "cpu"]
            /\ \/ UNCHANGED master
               \/ Goto("wait")
  /\ UNCHANGED <<sections, multiple, file, linked, next, offset, table, valid, error>>
-----------------------------------------------------------------------------
(***************************************************************************)
(* Jobs.  They use the writer, so their behaviour is defined only until the*)
(* master destroys it.                                                     *)
(***************************************************************************)
Alive == master.at \notin {"destroyed", "crashed"}

StartCompress(j) ==
  /\ Alive /\ job[j] = "cpu"
  /\ job' = [job EXCEPT ![j] = "compressing"]
  /\ table' = IF j[2] = Index THEN [table EXCEPT ![j[1]] = [b \in Block |-> offset[<<j[1], b>>]]] ELSE table
  /\ UNCHANGED <<sections, multiple, file, linked, next, todo, offset, valid, error, master>>

Lose(j, pool) ==
  /\ job' = [job EXCEPT ![j] = "lost"]
  /\ error' = error \cup {pool}

\* compress_and_write, which may throw, itself or out of threads_schedule
compress_and_write(j) ==
  /\ Alive /\ job[j] = "compressing"
  /\ \/ "IO" \notin error /\ job' = [job EXCEPT ![j] = "io"] /\ UNCHANGED error
     \/ Lose(j, "CPU")
  /\ UNCHANGED <<sections, multiple, file, linked, next, todo, offset, table, valid, master>>

FirstFree == CHOOSE i \in next .. next + Cardinality(Padding) : /\ i \notin Reserved
                                                              /\ next .. i - 1 \subseteq Reserved

\* Mutant of Reserve: without the lock, an update of the offset may be lost
ReserveUnlocked(j) ==
  /\ Alive /\ job[j] = "io"
  /\ job' = [job EXCEPT ![j] = "placed"]
  /\ offset' = [offset EXCEPT ![j] = FirstFree]
  /\ next' \in {next, FirstFree + SizeOf[j]}
  /\ UNCHANGED <<sections, multiple, file, linked, todo, table, valid, error, master>>

(***************************************************************************)
(* pwrite: next_offset_t::reserve, which skips padding and asserts that    *)
(* there is none inside, and then the write.  The offset is set by then.   *)
(***************************************************************************)
Reserve(j) ==
  /\ Alive /\ job[j] = "io"
  /\ IF Reserved \cap (FirstFree .. FirstFree + SizeOf[j] - 1) # {}
       THEN Lose(j, "IO") /\ next' = FirstFree /\ UNCHANGED offset
       ELSE /\ job' = [job EXCEPT ![j] = "placed"]
            /\ offset' = [offset EXCEPT ![j] = FirstFree]
            /\ next' = FirstFree + SizeOf[j]
            /\ UNCHANGED error
  /\ UNCHANGED <<sections, multiple, file, linked, todo, table, valid, master>>

Bytes(j) == [i \in offset[j] .. offset[j] + SizeOf[j] - 1 |-> ByteOf(j, i - offset[j])]

pwrite(j) ==
  /\ Alive /\ job[j] = "placed"
  /\ \/ Written(Bytes(j)) /\ job' = [job EXCEPT ![j] = "written"] /\ UNCHANGED error
     \/ WrittenInPart(Bytes(j)) /\ Lose(j, "IO")
  /\ UNCHANGED <<sections, multiple, linked, next, todo, offset, table, valid, master>>

Work(j) == StartCompress(j) \/ compress_and_write(j) \/ Reserve(j) \/ pwrite(j)
-----------------------------------------------------------------------------
(***************************************************************************)
(* threads_wait_all.                                                       *)
(***************************************************************************)
Busy == {j \in Jobs : job[j] \in {"cpu", "compressing", "io", "placed"}}

\* Mutant of threads_wait_all: errors stay in the pool
WaitWithoutErrors(here, there) ==
  /\ At(here)
  /\ Busy = {}
  /\ Goto(there)
  /\ UNCHANGED <<sections, multiple, file, linked, next, todo, job, offset, table, valid, error>>

threads_wait_all(here, there) ==
  /\ At(here)
  /\ \/ error # {} /\ Throw
     \/ error = {} /\ Busy = {} /\ Goto(there)
  /\ UNCHANGED <<sections, multiple, file, linked, next, todo, job, offset, table, valid, error>>

(***************************************************************************)
(* finalize: wait, check that all blocks have an offset, write the index   *)
(* and wait, write the header.  It does nothing the second time.           *)
(***************************************************************************)
Finalize(s) ==
  /\ At("work") /\ s \in sections \ valid
  /\ master' = [at |-> "blocks", section |-> s]
  /\ UNCHANGED <<sections, multiple, file, linked, next, todo, job, offset, table, valid, error>>

ScheduleIndex ==
  LET s == master.section IN
  /\ At("index")
  /\ IF "CPU" \in error \/ \E j \in BlocksOf(s) : offset[j] = 0
       THEN Throw /\ UNCHANGED job
       ELSE Goto("index_wait") /\ job' = [job EXCEPT ![IndexOf(s)] = "cpu"]
  /\ UNCHANGED <<sections, multiple, file, linked, next, todo, offset, table, valid, error>>

Header(s) == [i \in HeaderOffset(s) .. HeaderOffset(s) + 1 |->
                IF i = HeaderOffset(s) THEN ValidFlag ELSE Location(offset[IndexOf(s)])]

write_header ==
  LET s == master.section IN
  /\ At("header")
  /\ \/ Written(Header(s)) /\ valid' = valid \cup {s} /\ Goto("work")
     \/ WrittenInPart(Header(s)) /\ Throw /\ UNCHANGED valid
  /\ UNCHANGED <<sections, multiple, linked, next, todo, job, offset, table, error>>

\* Mutant of Destroy: one finalized section keeps the file
DestroyUnlessAny ==
  /\ master.at \in {"work", "unwind"}
  /\ Goto("destroyed")
  /\ linked' = (linked /\ valid # {})
  /\ UNCHANGED <<sections, multiple, file, next, todo, job, offset, table, valid, error>>

(***************************************************************************)
(* The master is finished, has given up, or had an exception: the          *)
(* destructor of each section that is not finalized unlinks the file.      *)
(***************************************************************************)
Destroy ==
  /\ master.at \in {"work", "unwind"}
  /\ Goto("destroyed")
  /\ linked' = (linked /\ valid = sections)
  /\ UNCHANGED <<sections, multiple, file, next, todo, job, offset, table, valid, error>>

\* The process dies: the file stays as it is, all else is gone
Crash ==
  /\ Alive
  /\ master' = [at |-> "crashed", section |-> 0]
  /\ next' = FirstOffset
  /\ job' = [j \in Job |-> "none"] /\ offset' = [j \in Job |-> 0]
  /\ todo' = {} /\ valid' = {} /\ error' = {}
  /\ UNCHANGED <<sections, multiple, file, linked, table>>

Write == \/ Open
         \/ \E j \in todo : Schedule(j)
         \/ threads_wait_all("wait", "work")
         \/ \E s \in sections : Finalize(s)
         \/ threads_wait_all("blocks", "index")
         \/ ScheduleIndex
         \/ threads_wait_all("index_wait", "header")
         \/ write_header
         \/ Destroy

Next == Write \/ Crash \/ \E j \in Jobs : Work(j)

Spec == Init /\ [][Next]_vars
-----------------------------------------------------------------------------
TypeOK ==
  /\ sections \subseteq Section /\ valid \subseteq sections
  /\ multiple \in BOOLEAN /\ linked \in BOOLEAN
  /\ DOMAIN file \subseteq Nat
  /\ next \in Nat /\ next >= HeadersEnd
  /\ todo \subseteq Jobs
  /\ job \in [Job -> {"none", "cpu", "compressing", "io", "placed", "written", "lost"}]
  /\ offset \in [Job -> Nat]
  /\ error \subseteq {"CPU", "IO"}
  /\ master \in [at : {"open", "work", "wait", "blocks", "index", "index_wait", "header", "unwind",
                       "destroyed", "crashed"},
                  section : sections \cup {0}]

\* What a reader of section s finds, if its header is complete and says valid
Claims(s) == /\ {HeaderOffset(s), HeaderOffset(s) + 1} \subseteq DOMAIN file
             /\ file[HeaderOffset(s)] = ValidFlag
Finds(j, at) == \A i \in 0 .. SizeOf[j] - 1 : at + i \in DOMAIN file /\ file[at + i] = ByteOf(j, i)
Complete(s) == /\ \E at \in DOMAIN file : /\ file[HeaderOffset(s) + 1] = Location(at)
                                          /\ Finds(IndexOf(s), at)
               /\ \A b \in Block : Finds(<<s, b>>, table[s][b])

(***************************************************************************)
(* Whoever opens the file, at any time, also after a crash, a failed write *)
(* or an exception: a section that its header calls valid has its index    *)
(* where the header says, and every block where the index says.  A header  *)
(* that was written in part has no index, which the reader rejects.        *)
(***************************************************************************)
ValidMeansComplete == \A s \in sections : Claims(s) => Complete(s)

(***************************************************************************)
(* Places handed out to concurrent jobs of all sections, the headers and   *)
(* the padding never overlap.                                              *)
(***************************************************************************)
PlacesDisjoint ==
  \A j \in Jobs : offset[j] # 0 =>
    LET place == offset[j] .. offset[j] + SizeOf[j] - 1 IN
      /\ place \subseteq HeadersEnd .. next - 1
      /\ place \cap Reserved = {}
      /\ \A k \in Jobs \ {j} : offset[k] # 0 => place \cap (offset[k] .. offset[k] + SizeOf[k] - 1) = {}

(***************************************************************************)
(* ~supertensor_writer_t: "File wasn't finished (due to an error or a      *)
(* failure to call finalize), so delete it".  A file that survives its     *)
(* writers has every section complete.                                     *)
(***************************************************************************)
LeavesCompleteFile ==
  At("destroyed") /\ linked => \A s \in sections : Claims(s) /\ Complete(s)

(***************************************************************************)
(* supertensor.h: the file of several sections begins with "char magic[20] *)
(* = "pentago sections"", by which open_supertensors knows it.  It does    *)
(* when every section has been finalized without an exception.  This does  *)
(* not hold: see the findings.                                             *)
(***************************************************************************)
FinalizedFileHasMagic == multiple /\ valid = sections => 0 \in DOMAIN file /\ file[0] = Magic
=============================================================================
