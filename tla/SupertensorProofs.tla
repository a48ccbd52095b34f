-------------------------- MODULE SupertensorProofs --------------------------
(***************************************************************************)
(* Machine-checked proofs about the writers of supertensor.cc, for any     *)
(* sections, blocks, compressed sizes and padding.                         *)
(***************************************************************************)
EXTENDS SupertensorFile, FiniteSetTheorems, WellFoundedInduction, TLAPS

-----------------------------------------------------------------------------
(***************************************************************************)
(* The inductive invariant.                                                *)
(***************************************************************************)

\* All sections share the file, or it has the first alone
ShapeInv ==
  /\ (multiple /\ sections = Section) \/ (~multiple /\ sections = {1})
  /\ todo \subseteq sections \X Block
  /\ table \in [Section -> [Block -> Nat]]
  /\ At("open") => multiple /\ valid = {} /\ \A j \in Job : job[j] = "none"

\* Which jobs have a place, and what a lost one leaves behind
JobInv ==
  /\ \A j \in Job : /\ offset[j] # 0 => job[j] \in {"placed", "written", "lost"}
                    /\ job[j] \in {"placed", "written"} => offset[j] # 0
                    /\ job[j] = "lost" => error # {}
  /\ \A j \in todo : job[j] = "none"

\* A section's index is scheduled once, when its blocks are written, and compressed from
\* their final offsets; its header comes when the index is written
FinalizeInv ==
  /\ master.at \in {"index", "header"} => Busy = {} /\ error = {}
  /\ master.at \in {"blocks", "index", "index_wait", "header"} => master.section \in sections \ valid
  /\ master.at \in {"open", "work", "wait", "blocks", "index"} =>
       \A s \in sections \ valid : job[IndexOf(s)] = "none"
  /\ master.at \in {"index_wait", "header"} =>
       \A s \in sections \ valid : s # master.section => job[IndexOf(s)] = "none"
  /\ At("index_wait") => job[IndexOf(master.section)] # "none"
  /\ At("header") => job[IndexOf(master.section)] = "written"
  /\ \A s \in sections : job[IndexOf(s)] # "none" => \A b \in Block : job[<<s, b>>] = "written"
  /\ \A s \in sections : job[IndexOf(s)] \notin {"none", "cpu"} => \A b \in Block : table[s][b] = offset[<<s, b>>]
  /\ \A s \in valid : job[IndexOf(s)] = "written"

\* What the file has, until the process dies
ContentsInv ==
  ~At("crashed") =>
    /\ \A j \in Jobs : job[j] = "written" => Finds(j, offset[j])
    /\ \A s \in sections : HeaderOffset(s) + 1 \in DOMAIN file => s \in valid
    /\ \A s \in valid : /\ {HeaderOffset(s), HeaderOffset(s) + 1} \subseteq DOMAIN file
                        /\ file[HeaderOffset(s)] = ValidFlag
                        /\ file[HeaderOffset(s) + 1] = Location(offset[IndexOf(s)])

DestroyInv == At("destroyed") /\ linked => valid = sections

\* Later all that is left is the file, and the tables in it
CrashInv == At("crashed") => ValidMeansComplete

WriterInv == /\ TypeOK /\ ShapeInv /\ JobInv /\ PlacesDisjoint /\ FinalizeInv
             /\ ContentsInv /\ DestroyInv /\ CrashInv

-----------------------------------------------------------------------------
(***************************************************************************)
(* Facts about the constants, the file's layout, and writing.              *)
(***************************************************************************)

\* A nonempty set of naturals has a least element
LEMMA LeastNumber ==
  ASSUME NEW S \in SUBSET Nat, S # {}
  PROVE  \E m \in S : \A k \in S : m <= k
<1> DEFINE Less == {ss \in Nat \X Nat : ss[1] < ss[2]}
<1>1. IsWellFoundedOn(Less, Nat)
  BY NatLessThanWellFounded DEF OpToRel
<1> HIDE DEF Less
<1>2. PICK m \in S : \A k \in S : ~(<<k, m>> \in Less)
  BY <1>1, WFMin
<1>3. \A k \in S : ~(k < m)
  BY <1>2 DEF Less
<1>4. QED
  BY <1>3

LEMMA ConstantFacts ==
  /\ Cardinality(Section) \in Nat /\ Cardinality(Section) >= 1 /\ 1 \in Section
  /\ \A s \in Section : s \in Nat /\ 1 <= s /\ s <= Cardinality(Section)
  /\ Cardinality({1}) = 1
  /\ Cardinality(Padding) \in Nat
  /\ \A i \in Padding : i \in Nat /\ i > 2 * Cardinality(Section)
  /\ \A j \in Job : SizeOf[j] \in Nat /\ SizeOf[j] >= 1
  /\ Index \notin Block
<1>1. Cardinality(Section) \in Nat /\ Cardinality(Padding) \in Nat
  BY SizeAssumption, FS_CardinalityType
<1>2. Cardinality({1}) = 1
  BY FS_Singleton
<1>3. Section # {} /\ Section = 1 .. Cardinality(Section)
  BY SizeAssumption
<1>4. Cardinality(Section) >= 1 /\ 1 \in Section
        /\ \A s \in Section : s \in Nat /\ 1 <= s /\ s <= Cardinality(Section)
  BY <1>1, <1>3
<1>5. QED
  BY <1>1, <1>2, <1>4, SizeAssumption

\* Headers do not overlap, and lie before the places of blobs and the padding
LEMMA Layout ==
  ASSUME TypeOK, ShapeInv
  PROVE  /\ HeadersEnd \in Nat /\ HeadersEnd >= 2
         /\ sections \subseteq Section
         /\ \A s \in sections : HeaderOffset(s) \in Nat /\ HeaderOffset(s) + 1 < HeadersEnd
         /\ \A s, r \in sections : s # r => {HeaderOffset(s), HeaderOffset(s) + 1} \cap {HeaderOffset(r), HeaderOffset(r) + 1} = {}
         /\ Reserved \subseteq Nat /\ Reserved \subseteq Padding
         /\ multiple => \A s \in sections : \A i \in {0} \cup Padding : i # HeaderOffset(s) /\ i # HeaderOffset(s) + 1
<1>1. CASE multiple /\ sections = Section
  <2>1. HeadersEnd = 1 + 2 * Cardinality(Section) /\ \A s \in sections : HeaderOffset(s) = 1 + 2 * (s - 1)
    BY <1>1 DEF HeadersEnd, HeaderOffset, PreheaderSize
  <2>2. QED
    BY <1>1, <2>1, ConstantFacts DEF Reserved
<1>2. CASE ~multiple /\ sections = {1}
  <2>1. HeadersEnd = 2 /\ HeaderOffset(1) = 0
    BY <1>2, ConstantFacts DEF HeadersEnd, HeaderOffset, PreheaderSize
  <2>2. QED
    BY <1>2, <2>1, ConstantFacts DEF Reserved
<1>3. QED
  BY <1>1, <1>2 DEF ShapeInv

\* The search for a place ends
LEMMA FirstFreeFound ==
  ASSUME TypeOK, ShapeInv
  PROVE  FirstFree \in Nat /\ FirstFree >= next /\ FirstFree \notin Reserved
<1> DEFINE n == Cardinality(Padding)
           Free == {i \in Nat : i >= next /\ i \notin Reserved}
<1>1. next \in Nat /\ n \in Nat /\ Reserved \subseteq Padding
  BY ConstantFacts, Layout DEF TypeOK
<1>2. PICK i \in next .. next + n : i \notin Reserved
  <2> SUFFICES ASSUME next .. next + n \subseteq Padding PROVE FALSE
    BY <1>1
  <2>1. IsFiniteSet(Padding)
    BY SizeAssumption
  <2>2. Cardinality(next .. next + n) <= n
    BY <2>1, FS_Subset
  <2>3. Cardinality(next .. next + n) = n + 1
    BY <1>1, FS_Interval
  <2>4. QED
    BY <1>1, <2>2, <2>3
<1>3. i \in Free /\ Free \in SUBSET Nat
  BY <1>1, <1>2
<1>4. PICK m \in Free : \A k \in Free : m <= k
  <2> HIDE DEF Free
  <2>1. QED
    BY <1>3, LeastNumber
<1>5. m \in next .. next + n /\ m \notin Reserved /\ next .. m - 1 \subseteq Reserved
  BY <1>1, <1>2, <1>3, <1>4
<1>6. FirstFree \in next .. next + n /\ FirstFree \notin Reserved
  BY <1>5 DEF FirstFree
<1>7. QED
  BY <1>1, <1>6

\* Sections' jobs, by name
LEMMA JobNames ==
  ASSUME TypeOK, ShapeInv
  PROVE  /\ Jobs \subseteq Job
         /\ \A s \in sections : IndexOf(s) \in Jobs /\ IndexOf(s)[2] = Index /\ IndexOf(s)[1] = s
         /\ \A s \in sections : \A b \in Block : <<s, b>> \in Jobs
         /\ \A s, r \in sections : s # r => IndexOf(s) # IndexOf(r)
         /\ \A s, r \in sections : \A b \in Block : <<s, b>> # IndexOf(r)
         /\ \A j \in Jobs : j[2] = Index => j[1] \in sections /\ j = IndexOf(j[1])
         /\ \A j \in todo : j \in Jobs /\ \A s \in sections : j # IndexOf(s)
<1>1. sections \subseteq Section /\ Index \notin Block
  BY ConstantFacts DEF TypeOK
<1>2. QED
  BY <1>1 DEF Jobs, Job, IndexOf, ShapeInv

LEMMA JobTypes ==
  ASSUME TypeOK, NEW j \in Job
  PROVE  /\ offset[j] \in Nat /\ SizeOf[j] \in Nat /\ SizeOf[j] >= 1
         /\ job[j] \in {"none", "cpu", "compressing", "io", "placed", "written", "lost"}
BY ConstantFacts DEF TypeOK

\* Nothing but the bytes at W may be new
Adds(W) == /\ DOMAIN file' = DOMAIN file \cup W
           /\ \A i \in DOMAIN file \ W : file'[i] = file[i]

LEMMA WrittenAdds ==
  ASSUME NEW bytes, Written(bytes)
  PROVE  Adds(DOMAIN bytes) /\ \A i \in DOMAIN bytes : file'[i] = bytes[i]
BY DEF Written, Adds

LEMMA WrittenInPartAdds ==
  ASSUME NEW bytes, WrittenInPart(bytes)
  PROVE  \E W \in SUBSET DOMAIN bytes : Adds(W)
<1>1. PICK n \in 0 .. Cardinality(DOMAIN bytes) - 1 : Written(Prefix(bytes, n))
  BY DEF WrittenInPart
<1>2. DOMAIN Prefix(bytes, n) \in SUBSET DOMAIN bytes
  BY DEF Prefix
<1>3. QED
  BY <1>1, <1>2, WrittenAdds

\* What is found stays when bytes are written elsewhere
LEMMA FoundStays ==
  ASSUME NEW j \in Job, NEW at \in Nat, NEW W, Adds(W), Finds(j, at),
         W \cap (at .. at + SizeOf[j] - 1) = {}
  PROVE  \A i \in 0 .. SizeOf[j] - 1 : at + i \in DOMAIN file' /\ file'[at + i] = ByteOf(j, i)
<1> SUFFICES ASSUME NEW i \in 0 .. SizeOf[j] - 1
             PROVE  at + i \in DOMAIN file' /\ file'[at + i] = ByteOf(j, i)
  OBVIOUS
<1>1. at + i \in at .. at + SizeOf[j] - 1
  BY ConstantFacts
<1>2. at + i \in DOMAIN file /\ file[at + i] = ByteOf(j, i)
  BY DEF Finds
<1>3. QED
  BY <1>1, <1>2 DEF Adds
-----------------------------------------------------------------------------
(***************************************************************************)
(* What the invariant says of a reader.                                    *)
(***************************************************************************)
LEMMA ValidSectionsComplete ==
  WriterInv /\ ~At("crashed") =>
    \A s \in sections : /\ Claims(s) => s \in valid
                        /\ s \in valid => Claims(s) /\ Complete(s)
<1> SUFFICES ASSUME WriterInv, ~At("crashed"), NEW s \in sections
             PROVE  /\ Claims(s) => s \in valid
                    /\ s \in valid => Claims(s) /\ Complete(s)
  OBVIOUS
<1> USE DEF WriterInv
<1>1. Claims(s) => s \in valid
  BY DEF ContentsInv, Claims
<1>2. ASSUME s \in valid
      PROVE  Claims(s) /\ Complete(s)
  <2> DEFINE at == offset[IndexOf(s)]
  <2>1. /\ IndexOf(s) \in Jobs /\ IndexOf(s) \in Job
        /\ \A b \in Block : <<s, b>> \in Jobs
    BY JobNames
  <2>2. job[IndexOf(s)] = "written" /\ Finds(IndexOf(s), at)
    BY <1>2, <2>1 DEF FinalizeInv, ContentsInv
  <2>3. /\ {HeaderOffset(s), HeaderOffset(s) + 1} \subseteq DOMAIN file
        /\ file[HeaderOffset(s)] = ValidFlag
        /\ file[HeaderOffset(s) + 1] = Location(at)
    BY <1>2 DEF ContentsInv
  <2>4. at \in DOMAIN file
    <3>1. at \in Nat /\ SizeOf[IndexOf(s)] \in Nat /\ SizeOf[IndexOf(s)] >= 1
      BY <2>1, JobTypes
    <3>2. 0 \in 0 .. SizeOf[IndexOf(s)] - 1 /\ at + 0 = at
      BY <3>1
    <3>3. QED
      BY <2>2, <3>2 DEF Finds
  <2>5. \A b \in Block : Finds(<<s, b>>, table[s][b])
    BY <1>2, <2>1, <2>2 DEF FinalizeInv, ContentsInv
  <2>6. QED
    BY <2>2, <2>3, <2>4, <2>5 DEF Claims, Complete
<1>3. QED
  BY <1>1, <1>2

LEMMA InvMeansValidComplete == WriterInv => ValidMeansComplete
BY ValidSectionsComplete DEF WriterInv, CrashInv, ValidMeansComplete

\* Sections and their places in the file do not change
LEMMA LayoutStays ==
  ASSUME sections' = sections, multiple' = multiple
  PROVE  /\ Jobs' = Jobs /\ Reserved' = Reserved /\ HeadersEnd' = HeadersEnd
         /\ \A s : HeaderOffset(s)' = HeaderOffset(s)
BY DEF Jobs, Reserved, HeadersEnd, HeaderOffset, PreheaderSize

\* Places, when no job gets another
LEMMA PlacesStay ==
  ASSUME TypeOK, ShapeInv, PlacesDisjoint, sections' = sections, multiple' = multiple, offset' = offset,
         next' \in Nat, next' >= next
  PROVE  PlacesDisjoint'
<1>1. Jobs' = Jobs /\ Reserved' = Reserved /\ HeadersEnd' = HeadersEnd
  BY LayoutStays
<1>2. HeadersEnd .. next - 1 \subseteq HeadersEnd .. next' - 1
  <2>1. HeadersEnd \in Nat
    BY Layout
  <2>2. next \in Nat
    BY DEF TypeOK
  <2>3. \A a, b, c \in Nat : c >= b => a .. b - 1 \subseteq a .. c - 1
    OBVIOUS
  <2>4. QED
    BY <2>1, <2>2, <2>3
<1>3. ASSUME NEW j \in Jobs, offset[j] # 0
      PROVE  LET place == offset[j] .. offset[j] + SizeOf[j] - 1 IN
               /\ place \subseteq HeadersEnd .. next' - 1
               /\ place \cap Reserved = {}
               /\ \A k \in Jobs \ {j} : offset[k] # 0 => place \cap (offset[k] .. offset[k] + SizeOf[k] - 1) = {}
  <2> DEFINE place == offset[j] .. offset[j] + SizeOf[j] - 1
  <2>1. /\ place \subseteq HeadersEnd .. next - 1 /\ place \cap Reserved = {}
        /\ \A k \in Jobs \ {j} : offset[k] # 0 => place \cap (offset[k] .. offset[k] + SizeOf[k] - 1) = {}
    BY <1>3 DEF PlacesDisjoint
  <2> HIDE DEF place
  <2>2. place \subseteq HeadersEnd .. next' - 1
    BY <1>2, <2>1
  <2>3. QED
    BY <2>1, <2>2 DEF place
<1>4. QED
  BY <1>1, <1>3 DEF PlacesDisjoint

\* The file, when it does not change, or grows elsewhere
LEMMA ContentsStay ==
  ASSUME WriterInv, ~At("crashed"), sections' = sections, multiple' = multiple, valid' = valid,
         \A k \in Jobs : job[k] = "written" => offset'[k] = offset[k],
         NEW W, Adds(W),
         \A s \in sections : /\ HeaderOffset(s) + 1 \notin W
                             /\ s \in valid => HeaderOffset(s) \notin W,
         \A j \in Jobs : job'[j] = "written" =>
           \/ /\ job[j] = "written"
              /\ W \cap (offset[j] .. offset[j] + SizeOf[j] - 1) = {}
           \/ Finds(j, offset[j])'
  PROVE  ContentsInv'
<1> USE DEF WriterInv
<1>1. Jobs' = Jobs /\ \A s : HeaderOffset(s)' = HeaderOffset(s)
  BY LayoutStays
<1>2. ASSUME NEW j \in Jobs, job'[j] = "written"
      PROVE  Finds(j, offset[j])'
  <2>1. CASE job[j] = "written" /\ W \cap (offset[j] .. offset[j] + SizeOf[j] - 1) = {}
    <3> DEFINE at == offset[j]
    <3>1. j \in Job /\ at \in Nat /\ Finds(j, at)
      BY <2>1, JobNames, JobTypes DEF ContentsInv
    <3>2. \A i \in 0 .. SizeOf[j] - 1 : at + i \in DOMAIN file' /\ file'[at + i] = ByteOf(j, i)
      <4> HIDE DEF at
      <4>1. W \cap (at .. at + SizeOf[j] - 1) = {}
        BY <2>1 DEF at
      <4>2. QED
        BY <3>1, <4>1, FoundStays
    <3>3. offset'[j] = at
      BY <2>1
    <3>4. QED
      BY <3>2, <3>3 DEF Finds
  <2>2. QED
    BY <1>2, <2>1
<1>3. ASSUME NEW s \in sections, HeaderOffset(s) + 1 \in DOMAIN file'
      PROVE  s \in valid
  BY <1>3 DEF ContentsInv, Adds
<1>4. ASSUME NEW s \in valid
      PROVE  /\ {HeaderOffset(s), HeaderOffset(s) + 1} \subseteq DOMAIN file'
             /\ file'[HeaderOffset(s)] = ValidFlag
             /\ file'[HeaderOffset(s) + 1] = Location(offset'[IndexOf(s)])
  <2>1. s \in sections
    BY DEF TypeOK
  <2>2. offset'[IndexOf(s)] = offset[IndexOf(s)]
    BY <2>1, JobNames DEF FinalizeInv
  <2>3. QED
    BY <2>1, <2>2 DEF ContentsInv, Adds
<1>5. QED
  BY <1>1, <1>2, <1>3, <1>4 DEF ContentsInv

-----------------------------------------------------------------------------
(***************************************************************************)
(* The jobs' steps.                                                        *)
(***************************************************************************)

\* A job at work: no section is between its waits, and its index's blocks are written
LEMMA WorkKeepsFinalize ==
  ASSUME WriterInv, NEW j \in Jobs, job[j] \in {"cpu", "compressing", "io", "placed"},
         job' \in [Job -> {"none", "cpu", "compressing", "io", "placed", "written", "lost"}],
         \A k \in Job : k # j => job'[k] = job[k] /\ offset'[k] = offset[k],
         job'[j] \in {"compressing", "io", "placed", "written", "lost"},
         \A s \in sections : IF j = IndexOf(s) /\ job[j] = "cpu"
                             THEN \A b \in Block : table'[s][b] = offset[<<s, b>>]
                             ELSE table'[s] = table[s],
         UNCHANGED <<sections, multiple, valid, master>>
  PROVE  FinalizeInv'
<1> USE DEF WriterInv
<1>1. /\ Jobs \subseteq Job
      /\ \A s \in sections : IndexOf(s) \in Job /\ \A b \in Block : <<s, b>> \in Job
      /\ \A s, r \in sections : \A b \in Block : <<s, b>> # IndexOf(r)
      /\ valid \subseteq sections
  BY JobNames DEF TypeOK
<1>2. master.at \notin {"index", "header"}
  BY DEF FinalizeInv, Busy
<1>3. ASSUME NEW s \in sections, NEW b \in Block, job[IndexOf(s)] # "none"
      PROVE  j # <<s, b>> /\ job'[<<s, b>>] = "written" /\ offset'[<<s, b>>] = offset[<<s, b>>]
  BY <1>1, <1>3 DEF FinalizeInv
<1>4. \A s \in sections : job[IndexOf(s)] = "none" => job'[IndexOf(s)] = "none"
  BY <1>1
<1>5. \A s \in sections : job'[IndexOf(s)] # "none" => job[IndexOf(s)] # "none"
  BY <1>1
<1>6. \A s \in sections : job'[IndexOf(s)] # "none" => \A b \in Block : job'[<<s, b>>] = "written"
  BY <1>3, <1>5
<1>7. ASSUME NEW s \in sections, job'[IndexOf(s)] \notin {"none", "cpu"}, NEW b \in Block
      PROVE  table'[s][b] = offset'[<<s, b>>]
  <2>1. offset'[<<s, b>>] = offset[<<s, b>>]
    BY <1>3, <1>5, <1>7
  <2>2. CASE j = IndexOf(s) /\ job[j] = "cpu"
    BY <2>1, <2>2
  <2>3. CASE ~(j = IndexOf(s) /\ job[j] = "cpu")
    <3>1. job[IndexOf(s)] \notin {"none", "cpu"}
      BY <1>1, <1>7, <2>3
    <3>2. QED
      BY <2>1, <2>3, <3>1 DEF FinalizeInv
  <2>4. QED
    BY <2>2, <2>3
<1>8. \A s \in valid : job'[IndexOf(s)] = "written"
  BY <1>1 DEF FinalizeInv
<1>9. master.at = "index_wait" => job'[IndexOf(master.section)] # "none"
  BY <1>1 DEF FinalizeInv, At
<1>10. /\ master.at \in {"open", "work", "wait", "blocks", "index"} =>
            \A s \in sections \ valid : job'[IndexOf(s)] = "none"
       /\ master.at \in {"index_wait", "header"} =>
            \A s \in sections \ valid : s # master.section => job'[IndexOf(s)] = "none"
  BY <1>4 DEF FinalizeInv
<1>11. master.at \in {"blocks", "index", "index_wait", "header"} => master.section \in sections \ valid
  BY DEF FinalizeInv
<1>12. QED
  BY <1>2, <1>6, <1>7, <1>8, <1>9, <1>10, <1>11 DEF FinalizeInv, At

\* What the other parts of the invariant need of a job's step
LEMMA WorkKeeps ==
  ASSUME WriterInv, Alive, NEW j \in Jobs, job[j] \in {"cpu", "compressing", "io", "placed"},
         NEW w \in {"compressing", "io", "placed", "written", "lost"}, job' = [job EXCEPT ![j] = w],
         NEW o \in Nat, offset' = [offset EXCEPT ![j] = o],
         o # 0 => w \in {"placed", "written", "lost"},
         w \in {"placed", "written"} => o # 0,
         error \subseteq error', error' \subseteq {"CPU", "IO"}, w = "lost" => error' # {},
         next' \in Nat, next' >= HeadersEnd, DOMAIN file' \subseteq Nat,
         table' \in [Section -> [Block -> Nat]],
         UNCHANGED <<sections, multiple, linked, todo, valid, master>>
  PROVE  TypeOK' /\ ShapeInv' /\ JobInv' /\ DestroyInv' /\ CrashInv'
<1> USE DEF WriterInv
<1>1. Jobs \subseteq Job /\ j \in Job /\ Jobs' = Jobs /\ HeadersEnd' = HeadersEnd
  BY JobNames, LayoutStays
<1>2. /\ job' \in [Job -> {"none", "cpu", "compressing", "io", "placed", "written", "lost"}]
      /\ offset' \in [Job -> Nat]
      /\ job'[j] = w /\ offset'[j] = o
      /\ \A k \in Job : k # j => job'[k] = job[k] /\ offset'[k] = offset[k]
  BY <1>1 DEF TypeOK
<1>3. TypeOK'
  BY <1>1, <1>2 DEF TypeOK, At
<1>4. ShapeInv'
  BY <1>1 DEF ShapeInv, At
<1>5. JobInv'
  <2>1. ASSUME NEW k \in Job
        PROVE  /\ offset'[k] # 0 => job'[k] \in {"placed", "written", "lost"}
               /\ job'[k] \in {"placed", "written"} => offset'[k] # 0
               /\ job'[k] = "lost" => error' # {}
    <3>1. CASE k = j
      BY <1>2, <3>1
    <3>2. CASE k # j
      BY <1>2, <3>2 DEF JobInv
    <3>3. QED
      BY <3>1, <3>2
  <2>2. \A k \in todo : job'[k] = "none"
    BY <1>1, <1>2, JobNames DEF JobInv
  <2>3. QED
    BY <2>1, <2>2 DEF JobInv
<1>6. DestroyInv' /\ CrashInv'
  BY DEF DestroyInv, CrashInv, At, Alive
<1>7. QED
  BY <1>3, <1>4, <1>5, <1>6

LEMMA StartCompressStep ==
  ASSUME WriterInv, NEW j \in Jobs, StartCompress(j)
  PROVE  WriterInv'
<1> USE DEF WriterInv
<1>1. /\ Jobs \subseteq Job /\ j \in Job
      /\ j[2] = Index => j[1] \in sections /\ j = IndexOf(j[1])
      /\ sections \subseteq Section /\ HeadersEnd \in Nat
      /\ \A s \in sections : /\ IndexOf(s)[2] = Index /\ IndexOf(s)[1] = s
                             /\ \A b \in Block : <<s, b>> \in Job
  BY JobNames, Layout
<1>2. /\ Alive /\ job[j] = "cpu" /\ job' = [job EXCEPT ![j] = "compressing"]
      /\ UNCHANGED <<sections, multiple, file, linked, next, todo, offset, valid, error, master>>
  BY DEF StartCompress
<1>3. offset[j] \in Nat /\ offset' = [offset EXCEPT ![j] = offset[j]] /\ offset[j] = 0
  BY <1>1, <1>2 DEF TypeOK, JobInv
<1>4. table' \in [Section -> [Block -> Nat]]
  <2>1. CASE j[2] = Index
    <3>1. table' = [table EXCEPT ![j[1]] = [b \in Block |-> offset[<<j[1], b>>]]]
      BY <2>1 DEF StartCompress
    <3>2. [b \in Block |-> offset[<<j[1], b>>]] \in [Block -> Nat]
      BY <1>1, <2>1 DEF TypeOK
    <3>3. QED
      BY <3>1, <3>2 DEF ShapeInv
  <2>2. CASE j[2] # Index
    BY <2>2 DEF StartCompress, ShapeInv
  <2>3. QED
    BY <2>1, <2>2
<1>5. TypeOK' /\ ShapeInv' /\ JobInv' /\ DestroyInv' /\ CrashInv'
  <2>1. next' \in Nat /\ next' >= HeadersEnd /\ DOMAIN file' \subseteq Nat
    BY <1>2 DEF TypeOK
  <2>2. error \subseteq error' /\ error' \subseteq {"CPU", "IO"}
    BY <1>2 DEF TypeOK
  <2>3. QED
    BY <1>2, <1>3, <1>4, <2>1, <2>2, WorkKeeps
<1>6. PlacesDisjoint'
  BY <1>2, PlacesStay DEF TypeOK
<1>7. FinalizeInv'
  <2>1. /\ job' \in [Job -> {"none", "cpu", "compressing", "io", "placed", "written", "lost"}]
        /\ job'[j] \in {"compressing", "io", "placed", "written", "lost"}
        /\ \A k \in Job : k # j => job'[k] = job[k] /\ offset'[k] = offset[k]
    BY <1>1, <1>2 DEF TypeOK
  <2>2. \A s \in sections : IF j = IndexOf(s) /\ job[j] = "cpu"
                            THEN \A b \in Block : table'[s][b] = offset[<<s, b>>]
                            ELSE table'[s] = table[s]
    <3> TAKE s \in sections
    <3>1. CASE j = IndexOf(s)
      <4>1. table' = [table EXCEPT ![s] = [b \in Block |-> offset[<<s, b>>]]]
        BY <1>1, <3>1 DEF StartCompress
      <4>2. QED
        BY <1>1, <1>2, <3>1, <4>1 DEF ShapeInv
    <3>2. CASE j # IndexOf(s)
      BY <1>1, <3>2 DEF StartCompress, ShapeInv
    <3>3. QED
      BY <3>1, <3>2
  <2>3. job[j] \in {"cpu", "compressing", "io", "placed"}
    BY <1>2
  <2>4. UNCHANGED <<sections, multiple, valid, master>>
    BY <1>2
  <2>5. QED
    BY <2>1, <2>2, <2>3, <2>4, WorkKeepsFinalize
<1>8. ContentsInv'
  <2>1. Adds({})
    BY <1>2 DEF Adds
  <2>2. \A k \in Jobs : job'[k] = "written" => job[k] = "written"
    BY <1>1, <1>2 DEF TypeOK
  <2>3. ~At("crashed")
    BY <1>2 DEF Alive, At
  <2>4. \A k \in Jobs : job[k] = "written" => offset'[k] = offset[k]
    BY <1>2
  <2>5. QED
    BY <1>2, <2>1, <2>2, <2>3, <2>4, ContentsStay
<1>9. QED
  BY <1>5, <1>6, <1>7, <1>8

LEMMA compress_and_writeStep ==
  ASSUME WriterInv, NEW j \in Jobs, compress_and_write(j)
  PROVE  WriterInv'
<1> USE DEF WriterInv
<1>1. Jobs \subseteq Job /\ j \in Job
  BY JobNames
<1>2. /\ Alive /\ job[j] = "compressing"
      /\ UNCHANGED <<sections, multiple, file, linked, next, todo, offset, table, valid, master>>
  BY DEF compress_and_write
<1>3. PICK w \in {"io", "lost"} :
        /\ job' = [job EXCEPT ![j] = w]
        /\ error \subseteq error' /\ error' \subseteq {"CPU", "IO"} /\ (w = "lost" => error' # {})
  BY DEF compress_and_write, Lose, TypeOK
<1>4. offset[j] \in Nat /\ offset' = [offset EXCEPT ![j] = offset[j]] /\ offset[j] = 0
  BY <1>1, <1>2 DEF TypeOK, JobInv
<1>5. TypeOK' /\ ShapeInv' /\ JobInv' /\ DestroyInv' /\ CrashInv'
  <2>1. next' \in Nat /\ next' >= HeadersEnd /\ DOMAIN file' \subseteq Nat
    BY <1>2 DEF TypeOK
  <2>2. table' \in [Section -> [Block -> Nat]]
    BY <1>2 DEF ShapeInv
  <2>3. QED
    BY <1>2, <1>3, <1>4, <2>1, <2>2, WorkKeeps
<1>6. PlacesDisjoint'
  BY <1>2, PlacesStay DEF TypeOK
<1>7. FinalizeInv'
  <2>1. /\ job' \in [Job -> {"none", "cpu", "compressing", "io", "placed", "written", "lost"}]
        /\ job'[j] \in {"compressing", "io", "placed", "written", "lost"}
        /\ \A k \in Job : k # j => job'[k] = job[k] /\ offset'[k] = offset[k]
    BY <1>1, <1>2, <1>3 DEF TypeOK
  <2>2. \A s \in sections : IF j = IndexOf(s) /\ job[j] = "cpu"
                            THEN \A b \in Block : table'[s][b] = offset[<<s, b>>]
                            ELSE table'[s] = table[s]
    BY <1>2
  <2>3. job[j] \in {"cpu", "compressing", "io", "placed"}
    BY <1>2
  <2>4. UNCHANGED <<sections, multiple, valid, master>>
    BY <1>2
  <2>5. QED
    BY <2>1, <2>2, <2>3, <2>4, WorkKeepsFinalize
<1>8. ContentsInv'
  <2>1. Adds({})
    BY <1>2 DEF Adds
  <2>2. \A k \in Jobs : job'[k] = "written" => job[k] = "written"
    BY <1>1, <1>2, <1>3 DEF TypeOK
  <2>3. ~At("crashed")
    BY <1>2 DEF Alive, At
  <2>4. \A k \in Jobs : job[k] = "written" => offset'[k] = offset[k]
    BY <1>2
  <2>5. QED
    BY <1>2, <2>1, <2>2, <2>3, <2>4, ContentsStay
<1>9. QED
  BY <1>5, <1>6, <1>7, <1>8

LEMMA ReserveStep ==
  ASSUME WriterInv, NEW j \in Jobs, Reserve(j)
  PROVE  WriterInv'
<1> USE DEF WriterInv
<1>1. /\ Jobs \subseteq Job /\ j \in Job
      /\ SizeOf[j] \in Nat /\ SizeOf[j] >= 1
      /\ HeadersEnd \in Nat /\ HeadersEnd >= 2 /\ next \in Nat /\ next >= HeadersEnd
      /\ FirstFree \in Nat /\ FirstFree >= next
  BY JobNames, JobTypes, Layout, FirstFreeFound DEF TypeOK
<1>2. /\ Alive /\ job[j] = "io"
      /\ UNCHANGED <<sections, multiple, file, linked, todo, table, valid, master>>
  BY DEF Reserve
<1>3. offset[j] \in Nat /\ offset[j] = 0 /\ offset \in [Job -> Nat]
  BY <1>1, <1>2 DEF TypeOK, JobInv
<1>4. PICK w \in {"placed", "lost"}, o \in Nat :
        /\ job' = [job EXCEPT ![j] = w] /\ offset' = [offset EXCEPT ![j] = o]
        /\ w = "placed" => /\ o = FirstFree /\ next' = FirstFree + SizeOf[j]
                           /\ Reserved \cap (FirstFree .. FirstFree + SizeOf[j] - 1) = {}
                           /\ error' = error
        /\ w = "lost" => o = 0 /\ offset' = offset /\ next' = FirstFree /\ error' = error \cup {"IO"}
  <2>1. CASE Reserved \cap (FirstFree .. FirstFree + SizeOf[j] - 1) # {}
    <3>1. /\ job' = [job EXCEPT ![j] = "lost"] /\ error' = error \cup {"IO"}
          /\ next' = FirstFree /\ offset' = offset
      BY <2>1 DEF Reserve, Lose
    <3>2. offset' = [offset EXCEPT ![j] = 0]
      BY <1>1, <1>3, <3>1
    <3>3. QED
      BY <3>1, <3>2
  <2>2. CASE Reserved \cap (FirstFree .. FirstFree + SizeOf[j] - 1) = {}
    <3>1. /\ job' = [job EXCEPT ![j] = "placed"] /\ error' = error
          /\ next' = FirstFree + SizeOf[j] /\ offset' = [offset EXCEPT ![j] = FirstFree]
      BY <2>2 DEF Reserve
    <3>2. QED
      BY <1>1, <2>2, <3>1
  <2>3. QED
    BY <2>1, <2>2
<1>5. next' \in Nat /\ next' >= next /\ next' >= HeadersEnd
  BY <1>1, <1>4
<1>6. TypeOK' /\ ShapeInv' /\ JobInv' /\ DestroyInv' /\ CrashInv'
  <2>1. DOMAIN file' \subseteq Nat /\ table' \in [Section -> [Block -> Nat]]
    BY <1>2 DEF TypeOK, ShapeInv
  <2>2. error \subseteq error' /\ error' \subseteq {"CPU", "IO"} /\ (w = "lost" => error' # {})
    BY <1>4 DEF TypeOK
  <2>3. (o # 0 => w \in {"placed", "written", "lost"}) /\ (w \in {"placed", "written"} => o # 0)
    BY <1>1, <1>4
  <2>4. job[j] \in {"cpu", "compressing", "io", "placed"} /\ w \in {"compressing", "io", "placed", "written", "lost"}
    BY <1>2
  <2>5. QED
    BY <1>2, <1>4, <1>5, <2>1, <2>2, <2>3, <2>4, WorkKeeps
<1>7. PlacesDisjoint'
  <2>1. CASE w = "lost"
    BY <1>2, <1>4, <1>5, <2>1, PlacesStay
  <2>2. CASE w = "placed"
    <3> DEFINE PlaceOf(k) == offset[k] .. offset[k] + SizeOf[k] - 1
               Mine == FirstFree .. FirstFree + SizeOf[j] - 1
    <3>1. Jobs' = Jobs /\ Reserved' = Reserved /\ HeadersEnd' = HeadersEnd
      BY <1>2, LayoutStays
    <3>2. offset'[j] = FirstFree /\ \A k \in Jobs : k # j => offset'[k] = offset[k]
      BY <1>1, <1>3, <1>4, <2>2
    <3>3. Mine \subseteq HeadersEnd .. next' - 1 /\ Mine \cap Reserved = {}
      BY <1>1, <1>4, <2>2
    <3>4. ASSUME NEW k \in Jobs, k # j, offset[k] # 0
          PROVE  /\ PlaceOf(k) \subseteq HeadersEnd .. next' - 1
                 /\ PlaceOf(k) \cap Reserved = {}
                 /\ PlaceOf(k) \cap Mine = {}
                 /\ \A h \in Jobs : h # k /\ h # j /\ offset[h] # 0 => PlaceOf(k) \cap PlaceOf(h) = {}
      <4>1. /\ PlaceOf(k) \subseteq HeadersEnd .. next - 1
            /\ PlaceOf(k) \cap Reserved = {}
            /\ \A h \in Jobs : h # k /\ offset[h] # 0 => PlaceOf(k) \cap PlaceOf(h) = {}
        BY <3>4 DEF PlacesDisjoint
      <4> HIDE DEF PlaceOf
      <4>2. PlaceOf(k) \subseteq HeadersEnd .. next' - 1 /\ PlaceOf(k) \cap Mine = {}
        BY <1>1, <1>5, <4>1
      <4>3. QED
        BY <4>1, <4>2
    <3>5. ASSUME NEW k \in Jobs', (offset[k] # 0)'
          PROVE  /\ (PlaceOf(k))' \subseteq (HeadersEnd .. next - 1)'
                 /\ (PlaceOf(k))' \cap Reserved' = {}
                 /\ \A h \in Jobs' \ {k} : (offset[h] # 0)' => (PlaceOf(k))' \cap (PlaceOf(h))' = {}
      <4>1. CASE k = j
        <5>1. (PlaceOf(k))' = Mine
          BY <3>2, <4>1
        <5>2. ASSUME NEW h \in Jobs \ {j}, (offset[h] # 0)'
              PROVE  Mine \cap (PlaceOf(h))' = {}
          <6>1. (PlaceOf(h))' = PlaceOf(h) /\ offset[h] # 0
            BY <3>2, <5>2
          <6>2. PlaceOf(h) \cap Mine = {}
            BY <3>4, <5>2, <6>1
          <6>3. QED
            BY <6>1, <6>2
        <5>3. QED
          BY <3>1, <3>3, <4>1, <5>1, <5>2
      <4>2. CASE k # j
        <5>1. (PlaceOf(k))' = PlaceOf(k) /\ offset[k] # 0 /\ k \in Jobs
          BY <3>1, <3>2, <3>5, <4>2
        <5>2. ASSUME NEW h \in Jobs \ {k}, (offset[h] # 0)'
              PROVE  PlaceOf(k) \cap (PlaceOf(h))' = {}
          <6>1. CASE h = j
            <7>1. (PlaceOf(h))' = Mine
              BY <3>2, <6>1
            <7>2. QED
              BY <3>4, <4>2, <5>1, <7>1
          <6>2. CASE h # j
            <7>1. (PlaceOf(h))' = PlaceOf(h) /\ offset[h] # 0
              BY <3>2, <5>2, <6>2
            <7>2. QED
              BY <3>4, <4>2, <5>1, <5>2, <6>2, <7>1
          <6>3. QED
            BY <6>1, <6>2
        <5>3. QED
          BY <3>1, <3>4, <4>2, <5>1, <5>2
      <4>3. QED
        BY <4>1, <4>2
    <3>6. QED
      BY <3>5 DEF PlacesDisjoint
  <2>3. QED
    BY <2>1, <2>2
<1>8. FinalizeInv'
  <2>1. /\ job' \in [Job -> {"none", "cpu", "compressing", "io", "placed", "written", "lost"}]
        /\ job'[j] \in {"compressing", "io", "placed", "written", "lost"}
        /\ \A k \in Job : k # j => job'[k] = job[k] /\ offset'[k] = offset[k]
    BY <1>1, <1>3, <1>4 DEF TypeOK
  <2>2. \A s \in sections : IF j = IndexOf(s) /\ job[j] = "cpu"
                            THEN \A b \in Block : table'[s][b] = offset[<<s, b>>]
                            ELSE table'[s] = table[s]
    BY <1>2
  <2>3. job[j] \in {"cpu", "compressing", "io", "placed"}
    BY <1>2
  <2>4. UNCHANGED <<sections, multiple, valid, master>>
    BY <1>2
  <2>5. QED
    BY <2>1, <2>2, <2>3, <2>4, WorkKeepsFinalize
<1>9. ContentsInv'
  <2>1. Adds({})
    BY <1>2 DEF Adds
  <2>2. \A k \in Jobs : job'[k] = "written" => job[k] = "written"
    BY <1>1, <1>4 DEF TypeOK
  <2>3. ~At("crashed")
    BY <1>2 DEF Alive, At
  <2>4. \A k \in Jobs : job[k] = "written" => offset'[k] = offset[k]
    BY <1>1, <1>2, <1>3, <1>4
  <2>5. QED
    BY <1>2, <2>1, <2>2, <2>3, <2>4, ContentsStay
<1>10. QED
  BY <1>6, <1>7, <1>8, <1>9

LEMMA pwriteStep ==
  ASSUME WriterInv, NEW j \in Jobs, pwrite(j)
  PROVE  WriterInv'
<1> USE DEF WriterInv
<1> DEFINE place == offset[j] .. offset[j] + SizeOf[j] - 1
<1>1. /\ Jobs \subseteq Job /\ j \in Job
      /\ SizeOf[j] \in Nat /\ SizeOf[j] >= 1 /\ offset[j] \in Nat
  BY JobNames, JobTypes
<1>2. /\ Alive /\ job[j] = "placed" /\ offset[j] # 0
      /\ UNCHANGED <<sections, multiple, linked, next, todo, offset, table, valid, master>>
  BY <1>1 DEF pwrite, JobInv
<1>3. offset' = [offset EXCEPT ![j] = offset[j]]
  BY <1>1, <1>2 DEF TypeOK
<1>4. DOMAIN Bytes(j) = place
  BY DEF Bytes
<1>5. PICK w \in {"written", "lost"}, W \in SUBSET place :
        /\ job' = [job EXCEPT ![j] = w]
        /\ error \subseteq error' /\ error' \subseteq {"CPU", "IO"} /\ (w = "lost" => error' # {})
        /\ Adds(W)
        /\ w = "written" => Finds(j, offset[j])'
  <2>1. CASE Written(Bytes(j)) /\ job' = [job EXCEPT ![j] = "written"] /\ UNCHANGED error
    <3>1. Adds(place) /\ \A i \in place : file'[i] = Bytes(j)[i]
      BY <1>4, <2>1, WrittenAdds
    <3>2. ASSUME NEW i \in 0 .. SizeOf[j] - 1
          PROVE  offset[j] + i \in DOMAIN file' /\ file'[offset[j] + i] = ByteOf(j, i)
      <4>1. offset[j] + i \in place /\ (offset[j] + i) - offset[j] = i
        BY <1>1
      <4>2. Bytes(j)[offset[j] + i] = ByteOf(j, i)
        BY <4>1 DEF Bytes
      <4>3. QED
        BY <3>1, <4>1, <4>2 DEF Adds
    <3>3. Finds(j, offset[j])'
      BY <1>2, <3>2 DEF Finds
    <3>4. error \subseteq error' /\ error' \subseteq {"CPU", "IO"}
      BY <2>1 DEF TypeOK
    <3>5. QED
      BY <2>1, <3>1, <3>3, <3>4
  <2>2. CASE WrittenInPart(Bytes(j)) /\ Lose(j, "IO")
    <3>1. PICK W \in SUBSET place : Adds(W)
      BY <1>4, <2>2, WrittenInPartAdds
    <3>2. job' = [job EXCEPT ![j] = "lost"] /\ error' = error \cup {"IO"}
      BY <2>2 DEF Lose
    <3>3. error \subseteq error' /\ error' \subseteq {"CPU", "IO"} /\ error' # {}
      BY <3>2 DEF TypeOK
    <3>4. QED
      BY <3>1, <3>2, <3>3
  <2>3. QED
    BY <2>1, <2>2 DEF pwrite
<1>6. TypeOK' /\ ShapeInv' /\ JobInv' /\ DestroyInv' /\ CrashInv'
  <2>1. next' \in Nat /\ next' >= HeadersEnd
    BY <1>2 DEF TypeOK
  <2>2. table' \in [Section -> [Block -> Nat]]
    BY <1>2 DEF ShapeInv
  <2>3. DOMAIN file' \subseteq Nat
    <3>1. place \subseteq Nat
      BY <1>1
    <3>2. QED
      BY <1>5, <3>1 DEF Adds, TypeOK
  <2>4. job[j] \in {"cpu", "compressing", "io", "placed"} /\ w \in {"compressing", "io", "placed", "written", "lost"}
    BY <1>2
  <2>5. QED
    BY <1>1, <1>2, <1>3, <1>5, <2>1, <2>2, <2>3, <2>4, WorkKeeps
<1>7. PlacesDisjoint'
  BY <1>2, PlacesStay DEF TypeOK
<1>8. FinalizeInv'
  <2>1. /\ job' \in [Job -> {"none", "cpu", "compressing", "io", "placed", "written", "lost"}]
        /\ job'[j] \in {"compressing", "io", "placed", "written", "lost"}
        /\ \A k \in Job : k # j => job'[k] = job[k] /\ offset'[k] = offset[k]
    BY <1>1, <1>2, <1>5 DEF TypeOK
  <2>2. \A s \in sections : IF j = IndexOf(s) /\ job[j] = "cpu"
                            THEN \A b \in Block : table'[s][b] = offset[<<s, b>>]
                            ELSE table'[s] = table[s]
    BY <1>2
  <2>3. job[j] \in {"cpu", "compressing", "io", "placed"}
    BY <1>2
  <2>4. UNCHANGED <<sections, multiple, valid, master>>
    BY <1>2
  <2>5. QED
    BY <2>1, <2>2, <2>3, <2>4, WorkKeepsFinalize
<1>9. ContentsInv'
  <2>1. place \subseteq HeadersEnd .. next - 1
    BY <1>2 DEF PlacesDisjoint
  <2>2. \A s \in sections : /\ HeaderOffset(s) + 1 \notin W
                            /\ s \in valid => HeaderOffset(s) \notin W
    <3> HIDE DEF place
    <3>1. QED
      BY <1>5, <2>1, Layout DEF TypeOK
  <2>3. ASSUME NEW k \in Jobs, job'[k] = "written"
        PROVE  \/ /\ job[k] = "written"
                  /\ W \cap (offset[k] .. offset[k] + SizeOf[k] - 1) = {}
               \/ Finds(k, offset[k])'
    <3>1. CASE k = j
      BY <1>1, <1>5, <2>3, <3>1 DEF TypeOK
    <3>2. CASE k # j
      <4>1. job[k] = "written" /\ k \in Job
        BY <1>1, <1>5, <2>3, <3>2 DEF TypeOK
      <4>2. offset[k] # 0
        BY <4>1 DEF JobInv
      <4>3. place \cap (offset[k] .. offset[k] + SizeOf[k] - 1) = {}
        BY <1>2, <3>2, <4>2 DEF PlacesDisjoint
      <4> HIDE DEF place
      <4>4. QED
        BY <4>1, <4>3
    <3>3. QED
      BY <3>1, <3>2
  <2>4. ~At("crashed")
    BY <1>2 DEF Alive, At
  <2>5. \A k \in Jobs : job[k] = "written" => offset'[k] = offset[k]
    BY <1>2
  <2>6. QED
    BY <1>2, <1>5, <2>2, <2>3, <2>4, <2>5, ContentsStay
<1>10. QED
  BY <1>6, <1>7, <1>8, <1>9

-----------------------------------------------------------------------------
(***************************************************************************)
(* The master's steps.                                                     *)
(***************************************************************************)
Places == {"open", "work", "wait", "blocks", "index", "index_wait", "header", "unwind",
           "destroyed", "crashed"}

LEMMA GotoMoves ==
  ASSUME TypeOK, NEW w \in Places, Goto(w), sections' = sections
  PROVE  /\ master'.at = w /\ master'.section = master.section
         /\ master' \in [at : Places, section : sections' \cup {0}]
BY DEF TypeOK, Goto, Places

\* What does not depend on where the master is
LEMMA MasterKeeps ==
  ASSUME WriterInv, Alive,
         master' \in [at : Places, section : sections' \cup {0}], master'.at \notin {"open", "destroyed", "crashed"},
         UNCHANGED <<sections, multiple, file, linked, next, todo, job, offset, table, valid, error>>
  PROVE  /\ TypeOK' /\ ShapeInv' /\ JobInv' /\ PlacesDisjoint'
         /\ ContentsInv' /\ DestroyInv' /\ CrashInv'
<1> USE DEF WriterInv
<1>1. Jobs' = Jobs /\ HeadersEnd' = HeadersEnd
  BY LayoutStays
<1>2. TypeOK'
  BY <1>1 DEF TypeOK, Places
<1>3. ShapeInv' /\ JobInv'
  BY DEF ShapeInv, JobInv, At
<1>4. PlacesDisjoint'
  BY PlacesStay DEF TypeOK
<1>5. ContentsInv'
  <2>1. Adds({}) /\ ~At("crashed")
    BY DEF Adds, Alive, At
  <2>2. QED
    BY <2>1, ContentsStay
<1>6. DestroyInv' /\ CrashInv'
  BY DEF DestroyInv, CrashInv, At
<1>7. QED
  BY <1>2, <1>3, <1>4, <1>5, <1>6

LEMMA OpenStep ==
  ASSUME WriterInv, Open
  PROVE  WriterInv'
<1> USE DEF WriterInv
<1> DEFINE preheader == [i \in {0} \cup Padding |-> IF i = 0 THEN Magic ELSE Zero]
<1>1. /\ At("open") /\ Goto("work")
      /\ UNCHANGED <<sections, multiple, linked, next, todo, job, offset, table, valid, error>>
  BY DEF Open
<1>2. multiple /\ valid = {} /\ \A j \in Job : job[j] = "none"
  BY <1>1 DEF ShapeInv
<1>3. PICK W \in SUBSET ({0} \cup Padding) : Adds(W)
  <2>1. PICK done \in SUBSET DOMAIN preheader : Written([i \in done |-> preheader[i]])
    BY DEF Open
  <2>2. DOMAIN [i \in done |-> preheader[i]] = done /\ done \in SUBSET ({0} \cup Padding)
    OBVIOUS
  <2>3. QED
    BY <2>1, <2>2, WrittenAdds
<1>4. master'.at = "work" /\ master' \in [at : Places, section : sections' \cup {0}]
  BY <1>1, GotoMoves DEF Places
<1>5. Jobs' = Jobs /\ HeadersEnd' = HeadersEnd /\ Jobs \subseteq Job
  BY <1>1, LayoutStays, JobNames
<1>6. TypeOK'
  <2>1. DOMAIN file' \subseteq Nat
    <3>1. W \subseteq Nat
      BY SizeAssumption
    <3>2. QED
      BY <1>3, <3>1 DEF Adds, TypeOK
  <2>2. QED
    BY <1>1, <1>4, <1>5, <2>1 DEF TypeOK, Places
<1>7. ShapeInv' /\ JobInv'
  BY <1>1, <1>4 DEF ShapeInv, JobInv, At
<1>8. PlacesDisjoint'
  BY <1>1, PlacesStay DEF TypeOK
<1>9. FinalizeInv'
  BY <1>1, <1>2, <1>4, JobNames DEF FinalizeInv, At
<1>10. ContentsInv'
  <2>1. \A s \in sections : HeaderOffset(s) + 1 \notin W /\ HeaderOffset(s) \notin W
    BY <1>2, <1>3, Layout
  <2>2. \A k \in Jobs : job'[k] # "written"
    BY <1>1, <1>2, <1>5
  <2>3. ~At("crashed")
    BY <1>1 DEF At
  <2>4. QED
    BY <1>1, <1>3, <2>1, <2>2, <2>3, ContentsStay
<1>11. DestroyInv' /\ CrashInv'
  BY <1>4 DEF DestroyInv, CrashInv, At
<1>12. QED
  BY <1>6, <1>7, <1>8, <1>9, <1>10, <1>11

LEMMA WaitStep ==
  ASSUME WriterInv,
         NEW here, NEW there, threads_wait_all(here, there),
         <<here, there>> \in {<<"wait", "work">>, <<"blocks", "index">>, <<"index_wait", "header">>}
  PROVE  WriterInv'
<1> USE DEF WriterInv
<1>1. /\ At(here)
      /\ UNCHANGED <<sections, multiple, file, linked, next, todo, job, offset, table, valid, error>>
  BY DEF threads_wait_all
<1>2. \/ here = "wait" /\ there = "work"
      \/ here = "blocks" /\ there = "index"
      \/ here = "index_wait" /\ there = "header"
  OBVIOUS
<1>3. PICK w \in {"work", "index", "header", "unwind"} : Goto(w) /\ (w # "unwind" => w = there /\ Busy = {} /\ error = {})
  BY <1>2 DEF threads_wait_all, Throw
<1>4. /\ master'.at = w /\ master'.section = master.section
      /\ master' \in [at : Places, section : sections' \cup {0}]
  BY <1>1, <1>3, GotoMoves DEF Places
<1>5. TypeOK' /\ ShapeInv' /\ JobInv' /\ PlacesDisjoint' /\ ContentsInv' /\ DestroyInv' /\ CrashInv'
  <2>1. Alive
    BY <1>1, <1>2 DEF At, Alive
  <2>2. QED
    BY <1>1, <1>4, <2>1, MasterKeeps
<1>6. FinalizeInv'
  <2>1. Busy' = Busy
    BY <1>1 DEF Busy, Jobs
  <2>2. CASE w = "unwind"
    BY <1>1, <1>4, <2>2 DEF FinalizeInv, At
  <2>3. CASE w = "work" /\ At("wait")
    BY <1>1, <1>4, <2>3 DEF FinalizeInv, At
  <2>4. CASE w = "index" /\ At("blocks") /\ Busy = {} /\ error = {}
    BY <1>1, <1>4, <2>1, <2>4 DEF FinalizeInv, At
  <2>5. CASE w = "header" /\ At("index_wait") /\ Busy = {} /\ error = {}
    <3> DEFINE j == IndexOf(master.section)
    <3>1. master.section \in sections \ valid /\ job[j] # "none"
      BY <2>5 DEF FinalizeInv, At
    <3>2. j \in Jobs /\ j \in Job
      BY <3>1, JobNames
    <3>3. job[j] = "written"
      <4> HIDE DEF j
      <4>1. job[j] # "lost" /\ job[j] \notin {"cpu", "compressing", "io", "placed"}
        BY <2>5, <3>2 DEF JobInv, Busy
      <4>2. QED
        BY <3>1, <3>2, <4>1, JobTypes
    <3>4. QED
      BY <1>1, <1>4, <2>1, <2>5, <3>1, <3>3 DEF FinalizeInv, At
  <2>6. QED
    BY <1>1, <1>2, <1>3, <2>2, <2>3, <2>4, <2>5
<1>7. QED
  BY <1>5, <1>6

LEMMA FinalizeStep ==
  ASSUME WriterInv, NEW s \in sections, Finalize(s)
  PROVE  WriterInv'
<1> USE DEF WriterInv
<1>1. /\ At("work") /\ s \in sections \ valid /\ master' = [at |-> "blocks", section |-> s]
      /\ UNCHANGED <<sections, multiple, file, linked, next, todo, job, offset, table, valid, error>>
  BY DEF Finalize
<1>2. /\ master' \in [at : Places, section : sections' \cup {0}]
      /\ master'.at = "blocks" /\ master'.section = s /\ Alive
  BY <1>1 DEF Places, Alive, At
<1>3. TypeOK' /\ ShapeInv' /\ JobInv' /\ PlacesDisjoint' /\ ContentsInv' /\ DestroyInv' /\ CrashInv'
  BY <1>1, <1>2, MasterKeeps
<1>4. FinalizeInv'
  BY <1>1, <1>2 DEF FinalizeInv, At
<1>5. QED
  BY <1>3, <1>4

LEMMA ScheduleStep ==
  ASSUME WriterInv, NEW j \in todo, Schedule(j)
  PROVE  WriterInv'
<1> USE DEF WriterInv
<1>1. /\ At("work") /\ Alive
      /\ UNCHANGED <<sections, multiple, file, linked, next, offset, table, valid, error>>
  BY DEF Schedule, Alive, At
<1>2. /\ j \in Jobs /\ j \in Job /\ job[j] = "none" /\ Jobs \subseteq Job
      /\ \A s \in sections : j # IndexOf(s)
  BY JobNames DEF JobInv
<1>3. CASE offset[j] # 0 \/ "CPU" \in error
  <2>1. Goto("unwind") /\ todo' = todo /\ job' = job
    BY <1>3 DEF Schedule, Throw
  <2>2. master'.at = "unwind" /\ master' \in [at : Places, section : sections' \cup {0}]
    BY <1>1, <2>1, GotoMoves DEF Places
  <2>3. TypeOK' /\ ShapeInv' /\ JobInv' /\ PlacesDisjoint' /\ ContentsInv' /\ DestroyInv' /\ CrashInv'
    BY <1>1, <2>1, <2>2, MasterKeeps
  <2>4. FinalizeInv'
    BY <1>1, <2>1, <2>2 DEF FinalizeInv, At
  <2>5. QED
    BY <2>3, <2>4
<1>4. CASE ~(offset[j] # 0 \/ "CPU" \in error)
  <2>1. /\ todo' = todo \ {j} /\ job' = [job EXCEPT ![j] = "cpu"] /\ offset[j] = 0
        /\ UNCHANGED master \/ Goto("wait")
    BY <1>4 DEF Schedule
  <2>2. master'.at \in {"work", "wait"} /\ master' \in [at : Places, section : sections' \cup {0}]
    <3>1. CASE UNCHANGED master
      BY <1>1, <3>1 DEF TypeOK, Places, At
    <3>2. CASE Goto("wait")
      BY <1>1, <3>2, GotoMoves DEF Places
    <3>3. QED
      BY <2>1, <3>1, <3>2
  <2>3. /\ job' \in [Job -> {"none", "cpu", "compressing", "io", "placed", "written", "lost"}]
        /\ job'[j] = "cpu"
        /\ \A k \in Job : k # j => job'[k] = job[k]
    BY <1>2, <2>1 DEF TypeOK
  <2>4. Jobs' = Jobs /\ HeadersEnd' = HeadersEnd
    BY <1>1, LayoutStays
  <2>5. TypeOK'
    BY <1>1, <2>1, <2>2, <2>3, <2>4 DEF TypeOK, Places
  <2>6. ShapeInv' /\ JobInv'
    <3>1. ShapeInv'
      BY <1>1, <2>1, <2>2 DEF ShapeInv, At
    <3>2. ASSUME NEW k \in Job
          PROVE  /\ offset'[k] # 0 => job'[k] \in {"placed", "written", "lost"}
                 /\ job'[k] \in {"placed", "written"} => offset'[k] # 0
                 /\ job'[k] = "lost" => error' # {}
      <4>1. CASE k = j
        BY <1>1, <2>1, <2>3, <4>1
      <4>2. CASE k # j
        BY <1>1, <2>3, <4>2 DEF JobInv
      <4>3. QED
        BY <4>1, <4>2
    <3>3. \A k \in todo' : job'[k] = "none"
      BY <2>1, <2>3, JobNames DEF JobInv
    <3>4. QED
      BY <3>1, <3>2, <3>3 DEF JobInv
  <2>7. PlacesDisjoint'
    BY <1>1, PlacesStay DEF TypeOK
  <2>8. FinalizeInv'
    <3>1. /\ \A s \in sections : IndexOf(s) \in Job /\ IndexOf(s) # j
          /\ \A s \in sections : \A b \in Block : <<s, b>> \in Job
          /\ valid \subseteq sections
      BY <1>2, JobNames DEF TypeOK
    <3>2. \A s \in sections : job'[IndexOf(s)] = job[IndexOf(s)]
      BY <2>3, <3>1
    <3>3. ASSUME NEW s \in sections, job'[IndexOf(s)] # "none", NEW b \in Block
          PROVE  job'[<<s, b>>] = "written"
      <4>1. job[<<s, b>>] = "written"
        BY <3>2, <3>3 DEF FinalizeInv
      <4>2. QED
        BY <1>2, <2>3, <3>1, <4>1
    <3>4. QED
      BY <1>1, <2>2, <3>1, <3>2, <3>3 DEF FinalizeInv, At
  <2>9. ContentsInv'
    <3>1. Adds({}) /\ ~At("crashed")
      BY <1>1 DEF Adds, At
    <3>2. \A k \in Jobs : job'[k] = "written" => job[k] = "written"
      BY <1>2, <2>3
    <3>3. \A k \in Jobs : job[k] = "written" => offset'[k] = offset[k]
      BY <1>1
    <3>4. QED
      BY <1>1, <3>1, <3>2, <3>3, ContentsStay
  <2>10. DestroyInv' /\ CrashInv'
    BY <2>2 DEF DestroyInv, CrashInv, At
  <2>11. QED
    BY <2>5, <2>6, <2>7, <2>8, <2>9, <2>10
<1>5. QED
  BY <1>3, <1>4

LEMMA ScheduleIndexStep ==
  ASSUME WriterInv, ScheduleIndex
  PROVE  WriterInv'
<1> USE DEF WriterInv
<1> DEFINE s == master.section
           j == IndexOf(s)
<1>1. /\ At("index") /\ Alive
      /\ UNCHANGED <<sections, multiple, file, linked, next, todo, offset, table, valid, error>>
  BY DEF ScheduleIndex, Alive, At
<1>2. /\ s \in sections \ valid /\ Busy = {} /\ error = {} /\ job[j] = "none"
      /\ \A r \in sections \ valid : job[IndexOf(r)] = "none"
  BY <1>1 DEF FinalizeInv, At
<1>3. j \in Jobs /\ j \in Job /\ Jobs \subseteq Job
  BY <1>2, JobNames
<1>4. CASE "CPU" \in error \/ \E k \in BlocksOf(s) : offset[k] = 0
  <2>1. Goto("unwind") /\ job' = job
    BY <1>4 DEF ScheduleIndex, Throw
  <2>2. master'.at = "unwind" /\ master' \in [at : Places, section : sections' \cup {0}]
    BY <1>1, <2>1, GotoMoves DEF Places
  <2>3. TypeOK' /\ ShapeInv' /\ JobInv' /\ PlacesDisjoint' /\ ContentsInv' /\ DestroyInv' /\ CrashInv'
    BY <1>1, <2>1, <2>2, MasterKeeps
  <2>4. FinalizeInv'
    BY <1>1, <2>1, <2>2 DEF FinalizeInv, At
  <2>5. QED
    BY <2>3, <2>4
<1>5. CASE ~("CPU" \in error \/ \E k \in BlocksOf(s) : offset[k] = 0)
  <2>1. Goto("index_wait") /\ job' = [job EXCEPT ![j] = "cpu"]
    BY <1>5 DEF ScheduleIndex
  <2>2. /\ master'.at = "index_wait" /\ master'.section = s
        /\ master' \in [at : Places, section : sections' \cup {0}]
    BY <1>1, <2>1, GotoMoves DEF Places
  <2>3. /\ job' \in [Job -> {"none", "cpu", "compressing", "io", "placed", "written", "lost"}]
        /\ job'[j] = "cpu"
        /\ \A k \in Job : k # j => job'[k] = job[k]
    BY <1>3, <2>1 DEF TypeOK
  <2>4. Jobs' = Jobs /\ HeadersEnd' = HeadersEnd
    BY <1>1, LayoutStays
  <2>5. TypeOK'
    BY <1>1, <2>2, <2>3, <2>4 DEF TypeOK, Places
  <2>6. offset[j] = 0
    BY <1>2, <1>3 DEF JobInv
  <2>7. ShapeInv' /\ JobInv'
    <3>1. ShapeInv'
      BY <1>1, <2>2 DEF ShapeInv, At
    <3>2. ASSUME NEW k \in Job
          PROVE  /\ offset'[k] # 0 => job'[k] \in {"placed", "written", "lost"}
                 /\ job'[k] \in {"placed", "written"} => offset'[k] # 0
                 /\ job'[k] = "lost" => error' # {}
      <4>1. CASE k = j
        BY <1>1, <2>3, <2>6, <4>1
      <4>2. CASE k # j
        BY <1>1, <2>3, <4>2 DEF JobInv
      <4>3. QED
        BY <4>1, <4>2
    <3>3. \A k \in todo' : job'[k] = "none"
      BY <1>1, <1>2, <2>3, JobNames DEF JobInv
    <3>4. QED
      BY <3>1, <3>2, <3>3 DEF JobInv
  <2>8. PlacesDisjoint'
    BY <1>1, PlacesStay DEF TypeOK
  <2>9. FinalizeInv'
    <3>1. /\ \A r \in sections : IndexOf(r) \in Job /\ (r # s => IndexOf(r) # j)
          /\ \A r \in sections : \A b \in Block : <<r, b>> \in Job /\ <<r, b>> \in Jobs /\ <<r, b>> # j
          /\ valid \subseteq sections
      BY <1>2, JobNames DEF TypeOK
    <3>2. /\ \A r \in sections : r # s => job'[IndexOf(r)] = job[IndexOf(r)]
          /\ \A r \in sections : \A b \in Block : job'[<<r, b>>] = job[<<r, b>>]
      BY <2>3, <3>1
    <3>3. ASSUME NEW b \in Block
          PROVE  job[<<s, b>>] = "written"
      <4> DEFINE k == <<s, b>>
      <4>1. k \in Jobs /\ k \in Job /\ offset[k] # 0
        BY <1>2, <1>5, <3>1 DEF BlocksOf
      <4> HIDE DEF k
      <4>2. job[k] \in {"placed", "written", "lost"} /\ job[k] # "lost"
        BY <1>2, <4>1 DEF JobInv
      <4>3. job[k] # "placed"
        BY <1>2, <4>1 DEF Busy
      <4>4. job[k] = "written"
        BY <4>2, <4>3
      <4>5. QED
        BY <4>4 DEF k
    <3>4. ASSUME NEW r \in sections, job'[IndexOf(r)] # "none", NEW b \in Block
          PROVE  job'[<<r, b>>] = "written"
      <4>1. CASE r = s
        BY <3>2, <3>3, <4>1
      <4>2. CASE r # s
        BY <3>2, <3>4, <4>2 DEF FinalizeInv
      <4>3. QED
        BY <4>1, <4>2
    <3>5. ASSUME NEW r \in sections, job'[IndexOf(r)] \notin {"none", "cpu"}, NEW b \in Block
          PROVE  table'[r][b] = offset'[<<r, b>>]
      <4>1. r # s
        BY <2>3, <3>5
      <4>2. job[IndexOf(r)] \notin {"none", "cpu"}
        BY <3>2, <3>5, <4>1
      <4>3. QED
        BY <1>1, <4>2 DEF FinalizeInv
    <3>6. \A r \in valid : job'[IndexOf(r)] = "written"
      <4>1. \A r \in valid : r # s /\ job[IndexOf(r)] = "written"
        BY <1>2 DEF FinalizeInv
      <4>2. QED
        BY <3>1, <3>2, <4>1
    <3>7. \A r \in sections \ valid : r # s => job'[IndexOf(r)] = "none"
      BY <1>2, <3>2
    <3> HIDE DEF s, j
    <3>8. job'[IndexOf(s)] # "none"
      BY <2>3 DEF j
    <3>9. QED
      BY <1>1, <1>2, <2>2, <3>4, <3>5, <3>6, <3>7, <3>8 DEF FinalizeInv, At
  <2>10. ContentsInv'
    <3>1. Adds({}) /\ ~At("crashed")
      BY <1>1 DEF Adds, At
    <3>2. \A k \in Jobs : job'[k] = "written" => job[k] = "written"
      BY <1>3, <2>3
    <3>3. \A k \in Jobs : job[k] = "written" => offset'[k] = offset[k]
      BY <1>1
    <3>4. QED
      BY <1>1, <3>1, <3>2, <3>3, ContentsStay
  <2>11. DestroyInv' /\ CrashInv'
    BY <2>2 DEF DestroyInv, CrashInv, At
  <2>12. QED
    BY <2>5, <2>7, <2>8, <2>9, <2>10, <2>11
<1>6. QED
  BY <1>4, <1>5

\* The end of the header, which says where the index is, is not written without the rest
LEMMA HeaderInPart ==
  ASSUME TypeOK, ShapeInv, NEW s \in sections, WrittenInPart(Header(s))
  PROVE  \E W \in SUBSET {HeaderOffset(s)} : Adds(W)
<1> DEFINE at == HeaderOffset(s)
           bytes == Header(s)
<1>1. at \in Nat
  BY Layout
<1>2. DOMAIN bytes = at .. at + 1
  BY DEF Header
<1>3. Cardinality(DOMAIN bytes) = 2
  BY <1>1, <1>2, FS_Interval
<1>4. PICK n \in 0 .. 1 : Written(Prefix(bytes, n))
  <2> HIDE DEF bytes
  <2>1. PICK n \in 0 .. 2 - 1 : Written(Prefix(bytes, n))
    BY <1>3 DEF WrittenInPart, bytes
  <2>2. n \in 0 .. 1
    OBVIOUS
  <2>3. QED
    BY <2>1, <2>2
<1>5. {h \in DOMAIN bytes : h < at + 1} = {at}
  BY <1>1, <1>2
<1>6. Cardinality({h \in DOMAIN bytes : h < at + 1}) = 1
  BY <1>5, FS_Singleton
<1>7. DOMAIN Prefix(bytes, n) \in SUBSET {at}
  <2> HIDE DEF bytes
  <2>1. at + 1 \notin DOMAIN Prefix(bytes, n)
    BY <1>4, <1>6 DEF Prefix
  <2>2. DOMAIN Prefix(bytes, n) \subseteq at .. at + 1
    BY <1>2 DEF Prefix
  <2>3. at .. at + 1 = {at, at + 1}
    BY <1>1
  <2>4. QED
    BY <2>1, <2>2, <2>3
<1>8. QED
  BY <1>4, <1>7, WrittenAdds

LEMMA write_headerStep ==
  ASSUME WriterInv, write_header
  PROVE  WriterInv'
<1> USE DEF WriterInv
<1> DEFINE s == master.section
           at == HeaderOffset(s)
<1>1. /\ At("header") /\ Alive
      /\ UNCHANGED <<sections, multiple, linked, next, todo, job, offset, table, error>>
  BY DEF write_header, Alive, At
<1>2. /\ s \in sections /\ s \notin valid /\ job[IndexOf(s)] = "written"
      /\ \A r \in sections \ valid : r # s => job[IndexOf(r)] = "none"
  BY <1>1 DEF FinalizeInv, At
<1>3. Jobs' = Jobs /\ HeadersEnd' = HeadersEnd /\ Jobs \subseteq Job /\ \A r : HeaderOffset(r)' = HeaderOffset(r)
  BY <1>1, LayoutStays, JobNames
<1>4. PICK w \in {"work", "unwind"}, W \in SUBSET {at, at + 1} :
        /\ Goto(w) /\ Adds(W)
        /\ w = "work" => /\ W = {at, at + 1} /\ valid' = valid \cup {s}
                         /\ file'[at] = ValidFlag /\ file'[at + 1] = Location(offset[IndexOf(s)])
        /\ w = "unwind" => W \subseteq {at} /\ valid' = valid
  <2>1. CASE Written(Header(s)) /\ valid' = valid \cup {s} /\ Goto("work")
    <3>1. at \in Nat
      BY <1>2, Layout
    <3>2. DOMAIN Header(s) = {at, at + 1} /\ at # at + 1
      BY <3>1 DEF Header
    <3>3. Header(s)[at] = ValidFlag /\ Header(s)[at + 1] = Location(offset[IndexOf(s)])
      BY <3>1 DEF Header
    <3>4. Adds({at, at + 1}) /\ file'[at] = ValidFlag /\ file'[at + 1] = Location(offset[IndexOf(s)])
      <4>1. Adds(DOMAIN Header(s)) /\ \A i \in DOMAIN Header(s) : file'[i] = Header(s)[i]
        BY <2>1, WrittenAdds
      <4>2. QED
        BY <3>2, <3>3, <4>1
    <3> HIDE DEF at
    <3>5. QED
      BY <2>1, <3>4
  <2>2. CASE WrittenInPart(Header(s)) /\ Throw /\ UNCHANGED valid
    <3>1. PICK W \in SUBSET {at} : Adds(W)
      BY <1>2, <2>2, HeaderInPart
    <3> HIDE DEF at
    <3>2. QED
      BY <2>2, <3>1 DEF Throw
  <2>3. QED
    BY <2>1, <2>2 DEF write_header
<1>5. master'.at = w /\ master' \in [at : Places, section : sections' \cup {0}]
  BY <1>1, <1>4, GotoMoves DEF Places
<1>6. at \in Nat /\ at + 1 \in Nat /\ at + 1 < HeadersEnd /\ at < HeadersEnd
  BY <1>2, Layout
<1>7. valid' \subseteq sections /\ valid \subseteq valid' /\ valid' \subseteq valid \cup {s}
  BY <1>2, <1>4 DEF TypeOK
<1>8. TypeOK'
  <2>1. DOMAIN file' \subseteq Nat
    <3>1. W \subseteq Nat
      BY <1>4, <1>6
    <3>2. QED
      BY <1>4, <3>1 DEF Adds, TypeOK
  <2>2. QED
    BY <1>1, <1>3, <1>5, <1>7, <2>1 DEF TypeOK, Places
<1>9. ShapeInv' /\ JobInv'
  BY <1>1, <1>4, <1>5 DEF ShapeInv, JobInv, At
<1>10. PlacesDisjoint'
  BY <1>1, PlacesStay DEF TypeOK
<1>11. FinalizeInv'
  <2>1. \A r \in valid' : job[IndexOf(r)] = "written"
    BY <1>2, <1>7 DEF FinalizeInv
  <2>2. w = "work" => \A r \in sections \ valid' : job[IndexOf(r)] = "none"
    BY <1>2, <1>4
  <2>3. w \in {"work", "unwind"}
    OBVIOUS
  <2> HIDE DEF s
  <2>4. QED
    BY <1>1, <1>5, <2>1, <2>2, <2>3 DEF FinalizeInv, At
<1>12. ContentsInv'
  <2>1. ASSUME NEW j \in Jobs, job[j] = "written"
        PROVE  Finds(j, offset[j])'
    <3> DEFINE place == offset[j] .. offset[j] + SizeOf[j] - 1
    <3>1. j \in Job /\ offset[j] \in Nat /\ Finds(j, offset[j]) /\ offset[j] # 0
      BY <1>1, <1>3, <2>1, JobTypes DEF ContentsInv, JobInv, At
    <3>2. place \subseteq HeadersEnd .. next - 1
      BY <2>1, <3>1 DEF PlacesDisjoint
    <3>3. W \cap place = {}
      <4> HIDE DEF place, at
      <4>1. HeadersEnd \in Nat
        BY Layout
      <4>2. \A i \in W : i < HeadersEnd /\ i \in Nat
        BY <1>4, <1>6
      <4>3. QED
        BY <3>2, <4>1, <4>2
    <3>4. \A i \in 0 .. SizeOf[j] - 1 : offset[j] + i \in DOMAIN file' /\ file'[offset[j] + i] = ByteOf(j, i)
      <4> HIDE DEF at
      <4>1. Adds(W)
        BY <1>4
      <4>2. QED
        BY <3>1, <3>3, <4>1, FoundStays
    <3>5. QED
      BY <1>1, <3>4 DEF Finds
  <2>2. ASSUME NEW r \in sections, r # s
        PROVE  HeaderOffset(r) \notin W /\ HeaderOffset(r) + 1 \notin W
    <3>1. {HeaderOffset(s), HeaderOffset(s) + 1} \cap {HeaderOffset(r), HeaderOffset(r) + 1} = {}
      BY <1>2, <2>2, Layout
    <3>2. QED
      BY <1>4, <3>1
  <2>3. ASSUME NEW r \in sections, HeaderOffset(r) + 1 \in DOMAIN file'
        PROVE  r \in valid'
    <3>1. CASE HeaderOffset(r) + 1 \in DOMAIN file
      BY <1>1, <1>7, <3>1 DEF ContentsInv, At
    <3>2. CASE HeaderOffset(r) + 1 \in W
      <4>1. r = s
        BY <2>2, <3>2
      <4>2. w = "work"
        BY <1>4, <1>6, <3>2, <4>1
      <4>3. QED
        BY <1>4, <4>1, <4>2
    <3>3. QED
      BY <1>4, <2>3, <3>1, <3>2 DEF Adds
  <2>4. ASSUME NEW r \in valid'
        PROVE  /\ {HeaderOffset(r), HeaderOffset(r) + 1} \subseteq DOMAIN file'
               /\ file'[HeaderOffset(r)] = ValidFlag
               /\ file'[HeaderOffset(r) + 1] = Location(offset[IndexOf(r)])
    <3>1. CASE r = s
      <4>1. w = "work"
        BY <1>2, <1>4, <2>4, <3>1
      <4>2. QED
        BY <1>4, <3>1, <4>1 DEF Adds
    <3>2. CASE r # s
      <4>1. r \in valid /\ r \in sections
        BY <1>7, <2>4, <3>2
      <4>2. /\ {HeaderOffset(r), HeaderOffset(r) + 1} \subseteq DOMAIN file
            /\ file[HeaderOffset(r)] = ValidFlag
            /\ file[HeaderOffset(r) + 1] = Location(offset[IndexOf(r)])
        BY <1>1, <4>1 DEF ContentsInv, At
      <4>3. HeaderOffset(r) \notin W /\ HeaderOffset(r) + 1 \notin W
        BY <2>2, <3>2, <4>1
      <4>4. QED
        BY <1>4, <4>2, <4>3 DEF Adds
    <3>3. QED
      BY <3>1, <3>2
  <2>5. QED
    BY <1>1, <1>3, <2>1, <2>3, <2>4 DEF ContentsInv
<1>13. DestroyInv' /\ CrashInv'
  BY <1>4, <1>5 DEF DestroyInv, CrashInv, At
<1>14. QED
  BY <1>8, <1>9, <1>10, <1>11, <1>12, <1>13

LEMMA DestroyStep ==
  ASSUME WriterInv, Destroy
  PROVE  WriterInv'
<1> USE DEF WriterInv
<1>1. /\ Goto("destroyed") /\ linked' = (linked /\ valid = sections) /\ ~At("crashed")
      /\ UNCHANGED <<sections, multiple, file, next, todo, job, offset, table, valid, error>>
  BY DEF Destroy, At
<1>2. master'.at = "destroyed" /\ master' \in [at : Places, section : sections' \cup {0}]
  BY <1>1, GotoMoves DEF Places
<1>3. Jobs' = Jobs /\ HeadersEnd' = HeadersEnd
  BY <1>1, LayoutStays
<1>4. TypeOK'
  BY <1>1, <1>2, <1>3 DEF TypeOK, Places
<1>5. ShapeInv' /\ JobInv'
  BY <1>1, <1>2 DEF ShapeInv, JobInv, At
<1>6. PlacesDisjoint'
  BY <1>1, PlacesStay DEF TypeOK
<1>7. FinalizeInv'
  BY <1>1, <1>2 DEF FinalizeInv, At
<1>8. ContentsInv'
  <2>1. Adds({})
    BY <1>1 DEF Adds
  <2>2. QED
    BY <1>1, <2>1, ContentsStay
<1>9. DestroyInv' /\ CrashInv'
  BY <1>1, <1>2 DEF DestroyInv, CrashInv, At
<1>10. QED
  BY <1>4, <1>5, <1>6, <1>7, <1>8, <1>9

LEMMA CrashStep ==
  ASSUME WriterInv, Crash
  PROVE  WriterInv'
<1> USE DEF WriterInv
<1>1. /\ master' = [at |-> "crashed", section |-> 0]
      /\ next' = FirstOffset
      /\ job' = [j \in Job |-> "none"] /\ offset' = [j \in Job |-> 0]
      /\ todo' = {} /\ valid' = {} /\ error' = {}
      /\ UNCHANGED <<sections, multiple, file, linked, table>>
  BY DEF Crash
<1>2. Jobs' = Jobs /\ HeadersEnd' = HeadersEnd /\ Jobs \subseteq Job
  BY <1>1, LayoutStays, JobNames
<1>3. master'.at = "crashed" /\ master'.section = 0
  BY <1>1
<1>4. TypeOK'
  <2>1. HeadersEnd \in Nat
    BY Layout
  <2>2. QED
    BY <1>1, <1>2, <2>1 DEF TypeOK, FirstOffset
<1>5. ShapeInv' /\ JobInv'
  BY <1>1, <1>3 DEF ShapeInv, JobInv, At
<1>6. PlacesDisjoint'
  BY <1>1, <1>2 DEF PlacesDisjoint
<1>7. FinalizeInv'
  <2>1. \A s \in sections : IndexOf(s) \in Job
    BY JobNames
  <2>2. QED
    BY <1>1, <1>3, <2>1 DEF FinalizeInv, At
<1>8. ContentsInv'
  BY <1>3 DEF ContentsInv, At
<1>9. DestroyInv' /\ CrashInv'
  <2>1. ValidMeansComplete
    BY InvMeansValidComplete
  <2>2. \A s : HeaderOffset(s)' = HeaderOffset(s)
    BY <1>1, LayoutStays
  <2>3. ValidMeansComplete'
    BY <1>1, <2>1, <2>2 DEF ValidMeansComplete, Claims, Complete, Finds
  <2>4. QED
    BY <1>3, <2>3 DEF DestroyInv, CrashInv, At
<1>10. QED
  BY <1>4, <1>5, <1>6, <1>7, <1>8, <1>9

-----------------------------------------------------------------------------
(***************************************************************************)
(* The specification.                                                      *)
(***************************************************************************)
LEMMA InitWriterInv == Init => WriterInv
<1> SUFFICES ASSUME Init PROVE WriterInv
  OBVIOUS
<1>1. /\ (multiple /\ sections = Section) \/ (~multiple /\ sections = {1})
      /\ multiple \in BOOLEAN /\ sections \subseteq Section
  <2>1. CASE multiple = TRUE /\ sections = Section
    BY <2>1
  <2>2. CASE multiple = FALSE /\ sections = {1}
    BY <2>2, ConstantFacts
  <2>3. QED
    BY <2>1, <2>2 DEF Init
<1>2. Jobs \subseteq Job
  BY <1>1 DEF Jobs, Job
<1>3. HeadersEnd \in Nat
  BY <1>1, ConstantFacts DEF HeadersEnd, PreheaderSize
<1>4. TypeOK
  <2>1. todo \subseteq Jobs
    BY DEF Init, Jobs
  <2>2. DOMAIN file \subseteq Nat
    BY DEF Init
  <2>3. next \in Nat /\ next >= HeadersEnd
    BY <1>3 DEF Init, FirstOffset
  <2>4. master.at \in {"open", "work"} /\ master = [at |-> master.at, section |-> 0]
    BY DEF Init
  <2>5. /\ job \in [Job -> {"none", "cpu", "compressing", "io", "placed", "written", "lost"}]
        /\ offset \in [Job -> Nat] /\ linked \in BOOLEAN /\ valid = {} /\ error = {}
    BY DEF Init
  <2>6. QED
    BY <1>1, <2>1, <2>2, <2>3, <2>4, <2>5 DEF TypeOK
<1>5. ShapeInv /\ JobInv
  <2>1. todo \subseteq Job
    BY <1>1 DEF Init, Job
  <2>2. QED
    BY <1>1, <2>1 DEF Init, ShapeInv, JobInv, At
<1>6. PlacesDisjoint
  BY <1>2 DEF Init, PlacesDisjoint
<1>7. FinalizeInv
  <2>1. \A s \in sections : IndexOf(s) \in Job
    BY <1>1 DEF IndexOf, Job
  <2>2. QED
    BY <2>1 DEF Init, FinalizeInv, At
<1>8. ContentsInv
  BY <1>2 DEF Init, ContentsInv
<1>9. DestroyInv /\ CrashInv
  BY DEF Init, DestroyInv, CrashInv, At
<1>10. QED
  BY <1>4, <1>5, <1>6, <1>7, <1>8, <1>9 DEF WriterInv

LEMMA NextWriterInv == WriterInv /\ [Next]_vars => WriterInv'
<1> SUFFICES ASSUME WriterInv, [Next]_vars PROVE WriterInv'
  OBVIOUS
<1>1. CASE Open
  BY <1>1, OpenStep
<1>2. CASE \E j \in todo : Schedule(j)
  BY <1>2, ScheduleStep
<1>3. CASE \/ threads_wait_all("wait", "work")
           \/ threads_wait_all("blocks", "index")
           \/ threads_wait_all("index_wait", "header")
  BY <1>3, WaitStep
<1>4. CASE \E s \in sections : Finalize(s)
  BY <1>4, FinalizeStep
<1>5. CASE ScheduleIndex
  BY <1>5, ScheduleIndexStep
<1>6. CASE write_header
  BY <1>6, write_headerStep
<1>7. CASE Destroy
  BY <1>7, DestroyStep
<1>8. CASE Crash
  BY <1>8, CrashStep
<1>9. CASE \E j \in Jobs : Work(j)
  BY <1>9, StartCompressStep, compress_and_writeStep, ReserveStep, pwriteStep DEF Work
<1>10. CASE UNCHANGED vars
  <2> USE <1>10 DEF vars
  <2>1. /\ Jobs' = Jobs /\ HeadersEnd' = HeadersEnd /\ Reserved' = Reserved
        /\ \A s : HeaderOffset(s)' = HeaderOffset(s)
    BY LayoutStays
  <2>2. TypeOK' /\ ShapeInv' /\ JobInv' /\ PlacesDisjoint'
    BY <2>1 DEF WriterInv, TypeOK, ShapeInv, JobInv, PlacesDisjoint, At
  <2>3. Busy' = Busy
    BY <2>1 DEF Busy
  <2>4. FinalizeInv' /\ ContentsInv'
    BY <2>1, <2>3 DEF WriterInv, FinalizeInv, ContentsInv, Finds, At
  <2>5. DestroyInv' /\ CrashInv'
    BY <2>1 DEF WriterInv, DestroyInv, CrashInv, At, ValidMeansComplete, Claims, Complete, Finds
  <2>6. QED
    BY <2>2, <2>4, <2>5 DEF WriterInv
<1>11. QED
  BY <1>1, <1>2, <1>3, <1>4, <1>5, <1>6, <1>7, <1>8, <1>9, <1>10 DEF Next, Write

\* The inductive invariant holds: jobs, places, the order of finalize and the bytes on disk
\* agree, whatever fails and wherever the process dies (supertensor.cc:232-529)
THEOREM WriterInvariance == Spec => []WriterInv
BY InitWriterInv, NextWriterInv, PTL DEF Spec

\* The variables have their types
THEOREM WriterTypeCorrect == Spec => []TypeOK
<1>1. WriterInv => TypeOK
  BY DEF WriterInv
<1>2. QED
  BY <1>1, WriterInvariance, PTL

\* Places that concurrent jobs of all sections get from next_offset_t::reserve never overlap one
\* another, the headers or the padding, for any blocks and compressed sizes
THEOREM PlacesNeverOverlap == Spec => []PlacesDisjoint
<1>1. WriterInv => PlacesDisjoint
  BY DEF WriterInv
<1>2. QED
  BY <1>1, WriterInvariance, PTL

\* What a header calls valid is complete, at any time, also after a failed write, an exception
\* or a crash: finalize writes the header last
THEOREM ValidIsComplete == Spec => []ValidMeansComplete
BY InvMeansValidComplete, WriterInvariance, PTL

\* ~supertensor_writer_t leaves a file only when every section of it is complete
THEOREM SurvivorIsComplete == Spec => []LeavesCompleteFile
<1>1. WriterInv => LeavesCompleteFile
  <2> SUFFICES ASSUME WriterInv, At("destroyed"), linked, NEW s \in sections
               PROVE  Claims(s) /\ Complete(s)
    BY DEF LeavesCompleteFile
  <2>1. s \in valid /\ ~At("crashed")
    BY DEF WriterInv, DestroyInv, At
  <2>2. QED
    BY <2>1, ValidSectionsComplete
<1>2. QED
  BY <1>1, WriterInvariance, PTL
=============================================================================
