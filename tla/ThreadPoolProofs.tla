--------------------------- MODULE ThreadPoolProofs ---------------------------
(***************************************************************************)
(* Machine-checked proofs about the thread pools of thread.cc, for any     *)
(* numbers of workers, and any jobs that each is scheduled in one place.   *)
(***************************************************************************)
EXTENDS ThreadPool, FiniteSetTheorems, SequenceTheorems, TLAPS

-----------------------------------------------------------------------------
(***************************************************************************)
(* The inductive invariant.                                                *)
(***************************************************************************)
Elements(q) == {q[i] : i \in 1 .. Len(q)}
Distinct(q) == \A a, b \in 1 .. Len(q) : a # b => q[a] # q[b]
Queued(k) == k \in Elements(jobs[PoolOf[k]])
Running(t) == pc[t] = "run"
Spinning(p) == {t \in Worker[p] : pc[t] = "spin"}
ChildIndex(k) == 1 .. Len(Children[k])

\* A job is in one queue, on one thread, or has run once
OnceInv ==
  /\ \A p \in Pool : /\ Distinct(jobs[p])
                     /\ \A k \in Elements(jobs[p]) : PoolOf[k] = p /\ runs[k] = 0
  /\ \A t \in Runner : Running(t) => /\ runs[task[t].job] = 0
                                     /\ ~Queued(task[t].job)
                                     /\ task[t].scheduled <= Len(Children[task[t].job])
  /\ \A t, u \in Runner : Running(t) /\ Running(u) /\ t # u => task[t].job # task[u].job
  /\ \A k \in Job : /\ runs[k] \in {0, 1}
                    /\ k \in throws => runs[k] = 0

\* U are the jobs that have not been scheduled yet
Unscheduled(U) ==
  /\ \A i \in 1 .. Len(Roots) : Roots[i] \in U <=> i > posted
  /\ \A k \in U : runs[k] = 0 /\ ~Queued(k) /\ \A t \in Runner : Running(t) => task[t].job # k
  /\ \A k \in Job : k \in U \/ Queued(k) => \A c \in ChildIndex(k) : Children[k][c] \in U
  /\ \A t \in Runner : Running(t) =>
       \A c \in ChildIndex(task[t].job) : Children[task[t].job][c] \in U <=> c > task[t].scheduled
  /\ \A k \in Job : runs[k] # 0 => \A c \in ChildIndex(k) : Children[k][c] \notin U
  /\ error = {} => \A k \in Job : \/ k \in U \/ Queued(k) \/ runs[k] = 1
                                  \/ \E t \in Runner : Running(t) /\ task[t].job = k

ScheduledOnceInv == \E U \in SUBSET Job : Unscheduled(U)

\* The pools count their idle workers, and hold no jobs once they die
PoolInv ==
  /\ \A p \in Pool : waiting[p] = Cardinality(Spinning(p))
  /\ \A p \in die : jobs[p] = <<>>
  /\ \A t \in Runner : pc[t] = "dying" => Home(t) \in error
  /\ error # {} => throws # {}

MasterInv ==
  /\ \A t \in AllWorkers : pc[t] \in {"try", "spin", "run", "dying", "exited"}
  /\ pc[Master] \notin {"try", "spin", "exited"}
  /\ pc[Master] \notin {"post", "aborted"} => posted = Len(Roots)
  /\ pc[Master] \in {"failed", "aborted"} => error # {}
  /\ pc[Master] = "returned" => error = {} /\ \A p \in Pool : AllIdle(p)

PoolsInv == TypeOK /\ OnceInv /\ ScheduledOnceInv /\ PoolInv /\ MasterInv

-----------------------------------------------------------------------------
(***************************************************************************)
(* Queues, and the threads of pools.                                       *)
(***************************************************************************)
LEMMA ElementsAre == \A q, x : x \in Elements(q) <=> \E i \in 1 .. Len(q) : x = q[i]
BY DEF Elements

LEMMA Enqueued ==
  ASSUME NEW q \in Seq(Job), NEW j \in Job, NEW r, r = <<j>> \o q \/ r = Append(q, j)
  PROVE  /\ r \in Seq(Job) /\ r # <<>>
         /\ Elements(r) = Elements(q) \cup {j}
         /\ Distinct(q) /\ j \notin Elements(q) => Distinct(r)
<1> DEFINE n == Len(q)
<1>1. n \in Nat /\ \A i \in 1 .. n : q[i] \in Job
  OBVIOUS
<1>2. CASE r = <<j>> \o q
  <2>1. <<j>> \in Seq(Job) /\ Len(<<j>>) = 1 /\ <<j>>[1] = j
    OBVIOUS
  <2>2. r \in Seq(Job) /\ Len(r) = n + 1 /\ r[1] = j /\ \A i \in 2 .. n + 1 : r[i] = q[i - 1]
    BY <1>1, <1>2, <2>1, ConcatProperties
  <2>3. \A i \in 1 .. n : i + 1 \in 2 .. n + 1 /\ r[i + 1] = q[i]
    BY <1>1, <2>2
  <2>4. Elements(r) = Elements(q) \cup {j}
    <3>1. ASSUME NEW i \in 1 .. n + 1 PROVE r[i] \in Elements(q) \cup {j}
      <4>1. i = 1 \/ (i \in 2 .. n + 1 /\ i - 1 \in 1 .. n)
        BY <1>1
      <4>2. i \in 2 .. n + 1 => r[i] = q[i - 1]
        BY <2>2
      <4>3. QED
        BY <2>2, <4>1, <4>2, ElementsAre
    <3>2. 1 \in 1 .. Len(r) /\ \A i \in 1 .. n : i + 1 \in 1 .. Len(r)
      BY <1>1, <2>2
    <3>3. j \in Elements(r) /\ \A i \in 1 .. n : q[i] \in Elements(r)
      BY <2>2, <2>3, <3>2, ElementsAre
    <3>4. QED
      BY <2>2, <3>1, <3>3, ElementsAre
  <2>5. ASSUME Distinct(q), j \notin Elements(q) PROVE Distinct(r)
    <3> SUFFICES ASSUME NEW a \in 1 .. n + 1, NEW b \in 1 .. n + 1, a < b PROVE r[a] # r[b]
      BY <1>1, <2>2 DEF Distinct
    <3>1. b \in 2 .. n + 1 /\ b - 1 \in 1 .. n /\ r[b] = q[b - 1]
      BY <1>1, <2>2
    <3>2. CASE a = 1
      BY <2>2, <2>5, <3>1, <3>2, ElementsAre
    <3>3. CASE a # 1
      <4>1. a \in 2 .. n + 1 /\ a - 1 \in 1 .. n /\ a - 1 # b - 1
        BY <1>1, <3>3
      <4>2. r[a] = q[a - 1]
        BY <2>2, <4>1
      <4>3. QED
        BY <2>5, <3>1, <4>1, <4>2 DEF Distinct
    <3>4. QED
      BY <3>2, <3>3
  <2>6. QED
    BY <1>1, <2>2, <2>4, <2>5
<1>3. CASE r = Append(q, j)
  <2>1. r \in Seq(Job) /\ Len(r) = n + 1 /\ r[n + 1] = j /\ \A i \in 1 .. n : r[i] = q[i]
    BY <1>1, <1>3
  <2>2. Elements(r) = Elements(q) \cup {j}
    <3>1. ASSUME NEW i \in 1 .. n + 1 PROVE r[i] \in Elements(q) \cup {j}
      <4>1. i \in 1 .. n \/ i = n + 1
        BY <1>1
      <4>2. QED
        BY <2>1, <4>1, ElementsAre
    <3>2. n + 1 \in 1 .. Len(r) /\ \A i \in 1 .. n : i \in 1 .. Len(r)
      BY <1>1, <2>1
    <3>3. j \in Elements(r) /\ \A i \in 1 .. n : q[i] \in Elements(r)
      BY <2>1, <3>2, ElementsAre
    <3>4. QED
      BY <2>1, <3>1, <3>3, ElementsAre
  <2>3. ASSUME Distinct(q), j \notin Elements(q) PROVE Distinct(r)
    BY <1>1, <2>1, <2>3 DEF Distinct, Elements
  <2>4. QED
    BY <1>1, <2>1, <2>2, <2>3
<1>4. QED
  BY <1>2, <1>3

LEMMA Dequeued ==
  ASSUME NEW q \in Seq(Job), q # <<>>, Distinct(q)
  PROVE  /\ Tail(q) \in Seq(Job) /\ Head(q) \in Elements(q) /\ Head(q) \in Job
         /\ Distinct(Tail(q)) /\ Elements(Tail(q)) = Elements(q) \ {Head(q)}
<1> DEFINE n == Len(q)
           r == Tail(q)
<1>1. n \in Nat /\ n >= 1
  BY EmptySeq
<1>2. r \in Seq(Job) /\ Len(r) = n - 1 /\ Head(q) = q[1] /\ \A i \in 1 .. n - 1 : r[i] = q[i + 1]
  BY <1>1, HeadTailProperties
<1>3. Head(q) \in Elements(q) /\ Head(q) \in Job
  BY <1>1, <1>2 DEF Elements
<1>4. \A i \in 2 .. n : q[i] # q[1] /\ i - 1 \in 1 .. n - 1 /\ r[i - 1] = q[i]
  BY <1>1, <1>2 DEF Distinct
<1>5. Distinct(r)
  BY <1>1, <1>2 DEF Distinct
<1>6. Elements(r) = Elements(q) \ {q[1]}
  <2>1. ASSUME NEW i \in 1 .. n - 1 PROVE r[i] \in Elements(q) \ {q[1]}
    <3>1. i + 1 \in 1 .. n /\ i + 1 # 1 /\ 1 \in 1 .. n
      BY <1>1
    <3>2. r[i] = q[i + 1] /\ q[i + 1] # q[1]
      BY <1>2, <3>1 DEF Distinct
    <3>3. QED
      BY <3>1, <3>2, ElementsAre
  <2>2. ASSUME NEW i \in 1 .. n, q[i] # q[1] PROVE q[i] \in Elements(r)
    <3>1. i \in 2 .. n
      BY <1>1, <2>2
    <3>2. QED
      BY <1>2, <1>4, <3>1, ElementsAre
  <2>3. \A x \in Elements(r) : x \in Elements(q) \ {q[1]}
    <3> SUFFICES ASSUME NEW x \in Elements(r) PROVE x \in Elements(q) \ {q[1]}
      OBVIOUS
    <3>1. PICK i \in 1 .. Len(r) : x = r[i]
      BY ElementsAre
    <3>2. i \in 1 .. n - 1
      BY <1>2
    <3>3. QED
      BY <2>1, <3>1, <3>2
  <2>4. \A x \in Elements(q) \ {q[1]} : x \in Elements(r)
    <3> SUFFICES ASSUME NEW x \in Elements(q) \ {q[1]} PROVE x \in Elements(r)
      OBVIOUS
    <3>1. PICK i \in 1 .. n : x = q[i]
      BY ElementsAre
    <3>2. QED
      BY <2>2, <3>1
  <2> HIDE DEF r
  <2>5. QED
    BY <2>3, <2>4
<1>7. QED
  BY <1>2, <1>3, <1>5, <1>6

LEMMA NoElements == Elements(<<>>) = {} /\ Distinct(<<>>) /\ <<>> \in Seq(Job)
BY DEF Elements, Distinct

\* Threads, and the pool each belongs to
LEMMA Threads ==
  /\ "CPU" \in Pool /\ Pool \subseteq {"CPU", "IO"}
  /\ Master \in Runner /\ Master \notin AllWorkers /\ Runner = AllWorkers \cup {Master}
  /\ \A t \in Runner : Home(t) \in Pool
  /\ \A t \in AllWorkers : t \in Worker[Home(t)] /\ t # Master /\ t \in Runner
  /\ \A p \in Pool : \A t \in Worker[p] : t \in AllWorkers /\ Home(t) = p
  /\ \A p \in Pool : IsFiniteSet(Worker[p])
  /\ \A k \in Job : PoolOf[k] \in Pool
<1>1. /\ "CPU" \in Pool /\ Pool \subseteq {"CPU", "IO"} /\ Master \notin AllWorkers
      /\ \A p \in Pool : IsFiniteSet(Worker[p])
      /\ \A p, q \in Pool : p # q => Worker[p] \cap Worker[q] = {}
      /\ \A k \in Job : PoolOf[k] \in Pool
  BY PoolAssumption
<1>2. ASSUME NEW p \in Pool, NEW t \in Worker[p]
      PROVE  t \in AllWorkers /\ Home(t) = p
  <2>1. t \in AllWorkers /\ t # Master
    BY <1>1 DEF AllWorkers
  <2>2. \A q \in Pool : t \in Worker[q] => q = p
    BY <1>1
  <2>3. QED
    BY <2>1, <2>2 DEF Home
<1>3. ASSUME NEW t \in AllWorkers PROVE Home(t) \in Pool /\ t \in Worker[Home(t)]
  <2>1. PICK p \in Pool : t \in Worker[p]
    BY DEF AllWorkers
  <2>2. QED
    BY <1>2, <2>1
<1>4. Home(Master) = "CPU"
  BY DEF Home
<1>5. QED
  BY <1>1, <1>2, <1>3, <1>4 DEF Runner

\* A job has one place where it is scheduled
LEMMA Places ==
  /\ \A i \in 1 .. Len(Roots) : Roots[i] \in Job
  /\ \A k \in Job : Len(Children[k]) \in Nat /\ \A c \in ChildIndex(k) : Children[k][c] \in Job
  /\ Len(Roots) \in Nat
<1>1. Roots \in Seq(Job) /\ Children \in [Job -> Seq(Job)]
  BY PoolAssumption
<1>2. QED
  BY <1>1 DEF ChildIndex

\* The number of idle workers tells when all are idle
LEMMA AllSpin ==
  ASSUME TypeOK, PoolInv, NEW p \in Pool, waiting[p] = Cardinality(Worker[p])
  PROVE  Spinning(p) = Worker[p]
<1>1. IsFiniteSet(Worker[p]) /\ Spinning(p) \subseteq Worker[p]
  BY Threads DEF Spinning
<1>2. Cardinality(Spinning(p)) = Cardinality(Worker[p])
  BY DEF PoolInv
<1>3. QED
  BY <1>1, <1>2, FS_Subset

-----------------------------------------------------------------------------
(***************************************************************************)
(* Steps on queues and threads keep OnceInv and ScheduledOnceInv.          *)
(***************************************************************************)
LEMMA Enqueues ==
  ASSUME TypeOK, OnceInv, NEW j \in Job, schedule(j), ~Queued(j)
  PROVE  /\ jobs' \in [Pool -> Seq(Job)]
         /\ \A k \in Job : Queued(k)' <=> Queued(k) \/ k = j
         /\ \A p \in Pool : Distinct(jobs'[p])
         /\ \A p \in Pool : \A k \in Elements(jobs'[p]) : (k = j /\ PoolOf[k] = p) \/ k \in Elements(jobs[p])
         /\ \A p \in Pool : p # PoolOf[j] => jobs'[p] = jobs[p]
<1> DEFINE p == PoolOf[j]
           r == jobs'[p]
<1>1. p \in Pool /\ jobs \in [Pool -> Seq(Job)] /\ jobs[p] \in Seq(Job)
  BY Threads DEF TypeOK
<1>2. /\ r = <<j>> \o jobs[p] \/ r = Append(jobs[p], j)
      /\ \A q \in Pool : q # p => jobs'[q] = jobs[q]
      /\ DOMAIN jobs' = Pool /\ jobs' = [q \in Pool |-> jobs'[q]]
  BY <1>1 DEF schedule
<1>3. j \notin Elements(jobs[p]) /\ Distinct(jobs[p])
  BY <1>1 DEF Queued, OnceInv
<1>4. r \in Seq(Job) /\ Elements(r) = Elements(jobs[p]) \cup {j} /\ Distinct(r)
  <2> HIDE DEF r, p
  <2>1. QED
    BY <1>1, <1>2, <1>3, Enqueued
<1>5. \A q \in Pool : jobs'[q] \in Seq(Job) /\ Distinct(jobs'[q])
  BY <1>1, <1>2, <1>4 DEF OnceInv
<1>6. jobs' \in [Pool -> Seq(Job)]
  BY <1>2, <1>5
<1>7. ASSUME NEW k \in Job
      PROVE  Queued(k)' <=> Queued(k) \/ k = j
  <2>1. PoolOf[k] \in Pool
    BY Threads
  <2>2. CASE PoolOf[k] = p
    BY <1>4, <2>2 DEF Queued
  <2>3. CASE PoolOf[k] # p
    BY <1>2, <2>1, <2>3 DEF Queued
  <2>4. QED
    BY <2>2, <2>3
<1>8. \A q \in Pool : \A k \in Elements(jobs'[q]) : (k = j /\ PoolOf[k] = q) \/ k \in Elements(jobs[q])
  BY <1>2, <1>4
<1>9. QED
  BY <1>2, <1>5, <1>6, <1>7, <1>8

LEMMA Takes ==
  ASSUME TypeOK, OnceInv, NEW t \in Runner, NEW p \in Pool, Take(t, p), jobs[p] # <<>>
  PROVE  \E h \in Job :
           /\ jobs' \in [Pool -> Seq(Job)]
           /\ Queued(h) /\ PoolOf[h] = p
           /\ \A k \in Job : Queued(k)' <=> Queued(k) /\ k # h
           /\ \A q \in Pool : Distinct(jobs'[q]) /\ Elements(jobs'[q]) \subseteq Elements(jobs[q])
           /\ \A q \in Pool : jobs[q] = <<>> => jobs'[q] = <<>>
           /\ task' = [task EXCEPT ![t] = [job |-> h, scheduled |-> 0]]
           /\ pc' = [pc EXCEPT ![t] = "run"]
<1> DEFINE h == Head(jobs[p])
           r == jobs'[p]
<1>1. jobs \in [Pool -> Seq(Job)] /\ jobs[p] \in Seq(Job) /\ Distinct(jobs[p])
  BY DEF TypeOK, OnceInv
<1>2. /\ r = Tail(jobs[p]) /\ \A q \in Pool : q # p => jobs'[q] = jobs[q]
      /\ jobs' = [q \in Pool |-> jobs'[q]]
  BY <1>1 DEF Take
<1>3. /\ r \in Seq(Job) /\ h \in Job /\ h \in Elements(jobs[p])
      /\ Distinct(r) /\ Elements(r) = Elements(jobs[p]) \ {h}
  <2>1. /\ Tail(jobs[p]) \in Seq(Job) /\ Head(jobs[p]) \in Elements(jobs[p]) /\ Head(jobs[p]) \in Job
        /\ Distinct(Tail(jobs[p])) /\ Elements(Tail(jobs[p])) = Elements(jobs[p]) \ {Head(jobs[p])}
    BY <1>1, Dequeued
  <2>2. QED
    BY <1>2, <2>1
<1>4. PoolOf[h] = p /\ Queued(h)
  BY <1>3 DEF OnceInv, Queued
<1>5. task' = [task EXCEPT ![t] = [job |-> h, scheduled |-> 0]] /\ pc' = [pc EXCEPT ![t] = "run"]
  BY DEF Take, Goto
<1> HIDE DEF h, r
<1>6. \A q \in Pool : Distinct(jobs'[q]) /\ Elements(jobs'[q]) \subseteq Elements(jobs[q]) /\ jobs'[q] \in Seq(Job)
  <2> SUFFICES ASSUME NEW q \in Pool
               PROVE  Distinct(jobs'[q]) /\ Elements(jobs'[q]) \subseteq Elements(jobs[q]) /\ jobs'[q] \in Seq(Job)
    OBVIOUS
  <2>1. CASE q = p
    BY <1>3, <2>1 DEF r
  <2>2. CASE q # p
    BY <1>1, <1>2, <2>2 DEF OnceInv
  <2>3. QED
    BY <2>1, <2>2
<1>7. jobs' \in [Pool -> Seq(Job)]
  BY <1>2, <1>6
<1>8. ASSUME NEW k \in Job
      PROVE  Queued(k)' <=> Queued(k) /\ k # h
  <2>1. PoolOf[k] \in Pool
    BY Threads
  <2>2. CASE PoolOf[k] = p
    BY <1>3, <2>2 DEF Queued, r
  <2>3. CASE PoolOf[k] # p
    BY <1>2, <1>4, <2>1, <2>3 DEF Queued
  <2>4. QED
    BY <2>2, <2>3
<1>9. \A q \in Pool : jobs[q] = <<>> => jobs'[q] = <<>>
  BY <1>2
<1>10. QED
  BY <1>3, <1>4, <1>5, <1>6, <1>7, <1>8, <1>9

\* A job is scheduled: its place was ahead of the master or of its parent
LEMMA ScheduleKeepsOnce ==
  ASSUME TypeOK, OnceInv, NEW U \in SUBSET Job, Unscheduled(U), NEW j \in U, schedule(j),
         \A u \in Runner : Running(u)' <=> Running(u),
         \A u \in Runner : task'[u].job = task[u].job,
         \A u \in Runner : Running(u) => task'[u].scheduled <= Len(Children[task[u].job]),
         \A i \in 1 .. Len(Roots) : i > posted' <=> i > posted /\ Roots[i] # j,
         \A u \in Runner : Running(u) =>
           \A c \in ChildIndex(task[u].job) :
             c > task'[u].scheduled <=> c > task[u].scheduled /\ Children[task[u].job][c] # j,
         \A k \in Job : k \in U \/ Queued(k) => \A c \in ChildIndex(k) : Children[k][c] # j,
         UNCHANGED <<error, runs, throws>>
  PROVE  OnceInv' /\ ScheduledOnceInv' /\ jobs' \in [Pool -> Seq(Job)]
<1>1. j \in Job /\ ~Queued(j) /\ runs[j] = 0 /\ \A u \in Runner : Running(u) => task[u].job # j
  BY DEF Unscheduled
<1>2. /\ jobs' \in [Pool -> Seq(Job)]
      /\ \A k \in Job : Queued(k)' <=> Queued(k) \/ k = j
      /\ \A p \in Pool : Distinct(jobs'[p])
      /\ \A p \in Pool : \A k \in Elements(jobs'[p]) : (k = j /\ PoolOf[k] = p) \/ k \in Elements(jobs[p])
  BY <1>1, Enqueues
<1>3. \A u \in Runner : Running(u) => task[u].job \in Job
  BY DEF TypeOK, Running
<1>4. OnceInv'
  <2>1. \A p \in Pool : \A k \in Elements(jobs'[p]) : PoolOf[k] = p /\ runs[k] = 0
    BY <1>1, <1>2 DEF OnceInv
  <2>2. ASSUME NEW u \in Runner, Running(u)'
        PROVE  (/\ runs[task[u].job] = 0 /\ ~Queued(task[u].job)
                /\ task[u].scheduled <= Len(Children[task[u].job]))'
    <3>1. PICK k \in Job : k = task[u].job
      BY <1>3, <2>2
    <3>2. k # j /\ task'[u].job = k /\ runs[k] = 0 /\ ~Queued(k)
      BY <1>1, <2>2, <3>1 DEF OnceInv
    <3>3. ~Queued(k)'
      BY <1>2, <3>2
    <3>4. QED
      BY <2>2, <3>1, <3>2, <3>3
  <2>3. \A t, u \in Runner : Running(t)' /\ Running(u)' /\ t # u => task'[t].job # task'[u].job
    BY DEF OnceInv
  <2>4. \A k \in Job : runs'[k] \in {0, 1} /\ (k \in throws' => runs'[k] = 0)
    BY DEF OnceInv
  <2>5. QED
    BY <1>2, <2>1, <2>2, <2>3, <2>4 DEF OnceInv
<1>5. ScheduledOnceInv'
  <2> DEFINE V == U \ {j}
  <2>1. \A i \in 1 .. Len(Roots) : Roots[i] \in V <=> i > posted'
    BY DEF Unscheduled
  <2>2. ASSUME NEW k \in V
        PROVE  runs'[k] = 0 /\ ~Queued(k)' /\ \A t \in Runner : Running(t)' => task'[t].job # k
    BY <1>2 DEF Unscheduled
  <2>3. ASSUME NEW k \in Job, k \in V \/ Queued(k)', NEW c \in ChildIndex(k)
        PROVE  Children[k][c] \in V
    <3>1. k \in U \/ Queued(k)
      BY <1>2, <2>3
    <3>2. Children[k][c] \in U /\ Children[k][c] # j
      BY <3>1 DEF Unscheduled
    <3>3. QED
      BY <3>2
  <2>4. ASSUME NEW t \in Runner, Running(t)', NEW c \in ChildIndex(task'[t].job)
        PROVE  Children[task'[t].job][c] \in V <=> c > task'[t].scheduled
    <3>1. Running(t) /\ task'[t].job = task[t].job
      BY <2>4
    <3>2. Children[task[t].job][c] \in U <=> c > task[t].scheduled
      BY <2>4, <3>1 DEF Unscheduled
    <3>3. QED
      BY <2>4, <3>1, <3>2
  <2>5. \A k \in Job : runs'[k] # 0 => \A c \in ChildIndex(k) : Children[k][c] \notin V
    BY DEF Unscheduled
  <2>6. ASSUME error' = {}, NEW k \in Job
        PROVE  k \in V \/ Queued(k)' \/ runs'[k] = 1 \/ \E t \in Runner : Running(t)' /\ task'[t].job = k
    <3>1. k \in U \/ Queued(k) \/ runs[k] = 1 \/ \E t \in Runner : Running(t) /\ task[t].job = k
      BY <2>6 DEF Unscheduled
    <3>2. QED
      BY <1>2, <3>1
  <2>7. V \in SUBSET Job
    OBVIOUS
  <2> HIDE DEF V
  <2>8. Unscheduled(V)'
    BY <2>1, <2>2, <2>3, <2>4, <2>5, <2>6 DEF Unscheduled
  <2>9. QED
    BY <2>7, <2>8 DEF ScheduledOnceInv
<1>6. QED
  BY <1>2, <1>4, <1>5

\* A thread takes the job at the head of a queue
LEMMA TakeKeepsOnce ==
  ASSUME TypeOK, OnceInv, ScheduledOnceInv,
         NEW t \in Runner, ~Running(t), NEW p \in Pool, Take(t, p), jobs[p] # <<>>,
         UNCHANGED <<error, posted, runs, throws>>
  PROVE  /\ OnceInv' /\ ScheduledOnceInv' /\ jobs' \in [Pool -> Seq(Job)]
         /\ task' \in [Runner -> [job : Job \cup {"none"}, scheduled : Nat]]
         /\ task'[t].job \in Job /\ pc' = [pc EXCEPT ![t] = "run"]
         /\ \A u \in Runner : u # t => task'[u] = task[u]
         /\ \A q \in Pool : jobs[q] = <<>> => jobs'[q] = <<>>
<1>1. PICK h \in Job :
         /\ jobs' \in [Pool -> Seq(Job)]
         /\ Queued(h) /\ PoolOf[h] = p
         /\ \A k \in Job : Queued(k)' <=> Queued(k) /\ k # h
         /\ \A q \in Pool : Distinct(jobs'[q]) /\ Elements(jobs'[q]) \subseteq Elements(jobs[q])
         /\ \A q \in Pool : jobs[q] = <<>> => jobs'[q] = <<>>
         /\ task' = [task EXCEPT ![t] = [job |-> h, scheduled |-> 0]]
         /\ pc' = [pc EXCEPT ![t] = "run"]
  BY Takes
<1>2. /\ task' \in [Runner -> [job : Job \cup {"none"}, scheduled : Nat]]
      /\ task'[t].job = h /\ task'[t].scheduled = 0
      /\ \A u \in Runner : u # t => task'[u] = task[u]
      /\ Running(t)' /\ \A u \in Runner : u # t => (Running(u)' <=> Running(u))
  BY <1>1 DEF TypeOK, Running
<1>3. /\ \A u \in Runner : Running(u) => task[u].job \in Job /\ task[u].job # h
      /\ runs[h] = 0
  BY <1>1, Threads DEF OnceInv, TypeOK, Running, Queued
<1>4. OnceInv'
  <2>1. \A q \in Pool : \A k \in Elements(jobs'[q]) : PoolOf[k] = q /\ runs[k] = 0
    BY <1>1 DEF OnceInv
  <2>2. ASSUME NEW u \in Runner, Running(u)'
        PROVE  (/\ runs[task[u].job] = 0 /\ ~Queued(task[u].job)
                /\ task[u].scheduled <= Len(Children[task[u].job]))'
    <3>1. CASE u = t
      <4>1. ~Queued(h)' /\ 0 <= Len(Children[h])
        BY <1>1, Places
      <4>2. QED
        BY <1>2, <1>3, <3>1, <4>1
    <3>2. CASE u # t
      <4>1. PICK k \in Job : k = task[u].job
        BY <1>2, <1>3, <2>2, <3>2
      <4>2. task'[u] = task[u] /\ runs[k] = 0 /\ ~Queued(k) /\ task[u].scheduled <= Len(Children[k])
        BY <1>2, <2>2, <3>2, <4>1 DEF OnceInv
      <4>3. ~Queued(k)'
        BY <1>1, <4>2
      <4>4. QED
        BY <4>1, <4>2, <4>3
    <3>3. QED
      BY <3>1, <3>2
  <2>3. \A u, v \in Runner : Running(u)' /\ Running(v)' /\ u # v => task'[u].job # task'[v].job
    BY <1>2, <1>3 DEF OnceInv
  <2>4. \A k \in Job : runs'[k] \in {0, 1} /\ (k \in throws' => runs'[k] = 0)
    BY DEF OnceInv
  <2>5. QED
    BY <1>1, <2>1, <2>2, <2>3, <2>4 DEF OnceInv
<1>5. ScheduledOnceInv'
  <2>1. PICK U \in SUBSET Job : Unscheduled(U)
    BY DEF ScheduledOnceInv
  <2>2. h \notin U
    BY <1>1, <2>1 DEF Unscheduled
  <2>3. \A i \in 1 .. Len(Roots) : Roots[i] \in U <=> i > posted'
    BY <2>1 DEF Unscheduled
  <2>4. ASSUME NEW k \in U
        PROVE  runs'[k] = 0 /\ ~Queued(k)' /\ \A u \in Runner : Running(u)' => task'[u].job # k
    <3>1. runs[k] = 0 /\ ~Queued(k) /\ k # h /\ \A u \in Runner : Running(u) => task[u].job # k
      BY <2>1, <2>2 DEF Unscheduled
    <3>2. QED
      BY <1>1, <1>2, <3>1
  <2>5. ASSUME NEW k \in Job, k \in U \/ Queued(k)', NEW c \in ChildIndex(k)
        PROVE  Children[k][c] \in U
    BY <1>1, <2>1, <2>5 DEF Unscheduled
  <2>6. ASSUME NEW u \in Runner, Running(u)', NEW c \in ChildIndex(task'[u].job)
        PROVE  Children[task'[u].job][c] \in U <=> c > task'[u].scheduled
    <3>1. CASE u = t
      <4>1. c \in ChildIndex(h) /\ c > 0
        BY <1>2, <2>6, <3>1, Places DEF ChildIndex
      <4>2. Children[h][c] \in U
        BY <1>1, <2>1, <4>1 DEF Unscheduled
      <4>3. QED
        BY <1>2, <3>1, <4>1, <4>2
    <3>2. CASE u # t
      BY <1>2, <2>1, <2>6, <3>2 DEF Unscheduled
    <3>3. QED
      BY <3>1, <3>2
  <2>7. \A k \in Job : runs'[k] # 0 => \A c \in ChildIndex(k) : Children[k][c] \notin U
    BY <2>1 DEF Unscheduled
  <2>8. ASSUME error' = {}, NEW k \in Job
        PROVE  k \in U \/ Queued(k)' \/ runs'[k] = 1 \/ \E u \in Runner : Running(u)' /\ task'[u].job = k
    <3>1. k \in U \/ Queued(k) \/ runs[k] = 1 \/ \E u \in Runner : Running(u) /\ task[u].job = k
      BY <2>1, <2>8 DEF Unscheduled
    <3>2. CASE k = h
      BY <1>2, <3>2
    <3>3. CASE \E u \in Runner : Running(u) /\ task[u].job = k
      BY <1>2, <3>3
    <3>4. QED
      BY <1>1, <3>1, <3>2, <3>3
  <2>9. Unscheduled(U)'
    BY <2>3, <2>4, <2>5, <2>6, <2>7, <2>8 DEF Unscheduled
  <2>10. QED
    BY <2>9 DEF ScheduledOnceInv
<1>6. QED
  BY <1>1, <1>2, <1>4, <1>5

\* Jobs do not move, except that a pool with an error drops them
LEMMA QuietKeepsOnce ==
  ASSUME TypeOK, OnceInv, ScheduledOnceInv,
         jobs' \in [Pool -> Seq(Job)], \A p \in Pool : jobs'[p] = jobs[p] \/ jobs'[p] = <<>>,
         \A u \in Runner : Running(u)' => Running(u) /\ task'[u] = task[u],
         error \subseteq error',
         error' = {} => jobs' = jobs /\ \A u \in Runner : Running(u) => Running(u)',
         UNCHANGED <<posted, runs, throws>>
  PROVE  OnceInv' /\ ScheduledOnceInv'
<1>1. /\ \A p \in Pool : Elements(jobs'[p]) \subseteq Elements(jobs[p])
      /\ \A p \in Pool : Distinct(jobs'[p])
  BY NoElements DEF OnceInv
<1>2. \A k \in Job : Queued(k)' => Queued(k)
  BY <1>1, Threads DEF Queued
<1>3. \A u \in Runner : Running(u) => task[u].job \in Job
  BY DEF TypeOK, Running
<1>4. OnceInv'
  <2>1. \A q \in Pool : \A k \in Elements(jobs'[q]) : PoolOf[k] = q /\ runs[k] = 0
    BY <1>1 DEF OnceInv
  <2>2. ASSUME NEW u \in Runner, Running(u)'
        PROVE  (/\ runs[task[u].job] = 0 /\ ~Queued(task[u].job)
                /\ task[u].scheduled <= Len(Children[task[u].job]))'
    <3>1. PICK k \in Job : k = task[u].job
      BY <1>3, <2>2
    <3>2. task'[u] = task[u] /\ runs[k] = 0 /\ ~Queued(k) /\ task[u].scheduled <= Len(Children[k])
      BY <2>2, <3>1 DEF OnceInv
    <3>3. ~Queued(k)'
      BY <1>2, <3>2
    <3>4. QED
      BY <3>1, <3>2, <3>3
  <2>3. \A u, v \in Runner : Running(u)' /\ Running(v)' /\ u # v => task'[u].job # task'[v].job
    BY DEF OnceInv
  <2>4. \A k \in Job : runs'[k] \in {0, 1} /\ (k \in throws' => runs'[k] = 0)
    BY DEF OnceInv
  <2>5. QED
    BY <1>1, <2>1, <2>2, <2>3, <2>4 DEF OnceInv
<1>5. ScheduledOnceInv'
  <2>1. PICK U \in SUBSET Job : Unscheduled(U)
    BY DEF ScheduledOnceInv
  <2>2. \A i \in 1 .. Len(Roots) : Roots[i] \in U <=> i > posted'
    BY <2>1 DEF Unscheduled
  <2>3. ASSUME NEW k \in U
        PROVE  runs'[k] = 0 /\ ~Queued(k)' /\ \A u \in Runner : Running(u)' => task'[u].job # k
    BY <1>2, <2>1 DEF Unscheduled
  <2>4. ASSUME NEW k \in Job, k \in U \/ Queued(k)', NEW c \in ChildIndex(k)
        PROVE  Children[k][c] \in U
    BY <1>2, <2>1, <2>4 DEF Unscheduled
  <2>5. ASSUME NEW u \in Runner, Running(u)', NEW c \in ChildIndex(task'[u].job)
        PROVE  Children[task'[u].job][c] \in U <=> c > task'[u].scheduled
    BY <2>1, <2>5 DEF Unscheduled
  <2>6. \A k \in Job : runs'[k] # 0 => \A c \in ChildIndex(k) : Children[k][c] \notin U
    BY <2>1 DEF Unscheduled
  <2>7. ASSUME error' = {}, NEW k \in Job
        PROVE  k \in U \/ Queued(k)' \/ runs'[k] = 1 \/ \E u \in Runner : Running(u)' /\ task'[u].job = k
    <3>1. error = {}
      BY <2>7
    <3>2. k \in U \/ Queued(k) \/ runs[k] = 1 \/ \E u \in Runner : Running(u) /\ task[u].job = k
      BY <2>1, <3>1 DEF Unscheduled
    <3>3. Queued(k) => Queued(k)'
      BY <2>7 DEF Queued
    <3>4. QED
      BY <2>7, <3>2, <3>3
  <2>8. Unscheduled(U)'
    BY <2>2, <2>3, <2>4, <2>5, <2>6, <2>7 DEF Unscheduled
  <2>9. QED
    BY <2>8 DEF ScheduledOnceInv
<1>6. QED
  BY <1>4, <1>5

\* A job has run
LEMMA CompleteKeepsOnce ==
  ASSUME TypeOK, OnceInv, ScheduledOnceInv,
         NEW t \in Runner, Complete(t)
  PROVE  OnceInv' /\ ScheduledOnceInv' /\ runs' \in [Job -> Nat]
<1>1. PICK k \in Job : k = task[t].job
  BY DEF TypeOK, Complete
<1>2. /\ Running(t) /\ ~(task[t].scheduled < Len(Children[k])) /\ k \notin throws
      /\ runs' = [runs EXCEPT ![k] = @ + 1] /\ task' = [task EXCEPT ![t] = NoTask]
      /\ UNCHANGED <<jobs, error, die, waiting, posted, throws>>
      /\ pc' = [pc EXCEPT ![t] = IF t = Master THEN "help" ELSE "try"]
  BY <1>1 DEF Complete, HasMore, Running, Goto
<1>3. /\ ~Running(t)' /\ \A u \in Runner : u # t => (Running(u)' <=> Running(u)) /\ task'[u] = task[u]
      /\ runs' \in [Job -> Nat] /\ runs'[k] = runs[k] + 1
      /\ \A h \in Job : h # k => runs'[h] = runs[h]
  BY <1>2 DEF TypeOK, Running
<1>4. /\ runs[k] = 0 /\ ~Queued(k) /\ task[t].scheduled <= Len(Children[k])
      /\ \A u \in Runner : Running(u) => task[u].job \in Job /\ (u # t => task[u].job # k)
  BY <1>1, <1>2 DEF OnceInv, TypeOK, Running
<1>5. \A h : Queued(h)' <=> Queued(h)
  BY <1>2 DEF Queued
<1>6. OnceInv'
  <2>1. ASSUME NEW p \in Pool, NEW h \in Elements(jobs'[p])
        PROVE  PoolOf[h] = p /\ runs'[h] = 0
    <3>1. PoolOf[h] = p /\ runs[h] = 0
      BY <1>2 DEF OnceInv
    <3>2. h \in Job
      BY <1>2, ElementsAre DEF TypeOK
    <3>3. h # k
      BY <1>2, <1>4, <3>1 DEF Queued
    <3>4. QED
      BY <1>3, <3>1, <3>2, <3>3
  <2>2. ASSUME NEW u \in Runner, Running(u)'
        PROVE  (/\ runs[task[u].job] = 0 /\ ~Queued(task[u].job)
                /\ task[u].scheduled <= Len(Children[task[u].job]))'
    <3>1. u # t /\ Running(u) /\ task'[u] = task[u]
      BY <1>3, <2>2
    <3>2. PICK h \in Job : h = task[u].job
      BY <1>4, <3>1
    <3>3. h # k /\ runs[h] = 0 /\ ~Queued(h) /\ task[u].scheduled <= Len(Children[h])
      BY <1>4, <3>1, <3>2 DEF OnceInv
    <3>4. ~Queued(h)' /\ runs'[h] = 0
      BY <1>3, <1>5, <3>3
    <3>5. QED
      BY <3>1, <3>2, <3>3, <3>4
  <2>3. \A u, v \in Runner : Running(u)' /\ Running(v)' /\ u # v => task'[u].job # task'[v].job
    BY <1>3 DEF OnceInv
  <2>4. \A h \in Job : runs'[h] \in {0, 1} /\ (h \in throws' => runs'[h] = 0)
    BY <1>2, <1>3, <1>4 DEF OnceInv
  <2>5. \A p \in Pool : Distinct(jobs'[p])
    BY <1>2 DEF OnceInv
  <2>6. QED
    BY <2>1, <2>2, <2>3, <2>4, <2>5 DEF OnceInv
<1>7. ScheduledOnceInv'
  <2>1. PICK U \in SUBSET Job : Unscheduled(U)
    BY DEF ScheduledOnceInv
  <2>2. \A i \in 1 .. Len(Roots) : Roots[i] \in U <=> i > posted'
    BY <1>2, <2>1 DEF Unscheduled
  <2>3. ASSUME NEW h \in U
        PROVE  runs'[h] = 0 /\ ~Queued(h)' /\ \A u \in Runner : Running(u)' => task'[u].job # h
    <3>1. h # k /\ h \in Job
      BY <1>1, <1>2, <2>1 DEF Unscheduled
    <3>2. QED
      BY <1>3, <1>5, <2>1, <3>1 DEF Unscheduled
  <2>4. ASSUME NEW h \in Job, h \in U \/ Queued(h)', NEW c \in ChildIndex(h)
        PROVE  Children[h][c] \in U
    BY <1>5, <2>1, <2>4 DEF Unscheduled
  <2>5. ASSUME NEW u \in Runner, Running(u)', NEW c \in ChildIndex(task'[u].job)
        PROVE  Children[task'[u].job][c] \in U <=> c > task'[u].scheduled
    <3>1. Running(u) /\ task'[u] = task[u]
      BY <1>3, <2>5
    <3>2. QED
      BY <2>1, <2>5, <3>1 DEF Unscheduled
  <2>6. ASSUME NEW h \in Job, runs'[h] # 0, NEW c \in ChildIndex(h)
        PROVE  Children[h][c] \notin U
    <3>1. CASE h = k
      <4>1. c \in 1 .. Len(Children[k]) /\ Len(Children[k]) \in Nat /\ task[t].scheduled \in Nat
        BY <3>1, Places DEF ChildIndex, TypeOK
      <4>2. ~(c > task[t].scheduled)
        BY <1>2, <1>4, <4>1
      <4>3. QED
        BY <1>1, <1>2, <2>1, <3>1, <4>2 DEF Unscheduled
    <3>2. CASE h # k
      BY <1>3, <2>1, <2>6, <3>2 DEF Unscheduled
    <3>3. QED
      BY <3>1, <3>2
  <2>7. ASSUME error' = {}, NEW h \in Job
        PROVE  h \in U \/ Queued(h)' \/ runs'[h] = 1 \/ \E u \in Runner : Running(u)' /\ task'[u].job = h
    <3>1. h \in U \/ Queued(h) \/ runs[h] = 1 \/ \E u \in Runner : Running(u) /\ task[u].job = h
      BY <1>2, <2>1, <2>7 DEF Unscheduled
    <3>2. CASE h = k
      BY <1>3, <1>4, <3>2
    <3>3. CASE h # k /\ \E u \in Runner : Running(u) /\ task[u].job = h
      BY <1>1, <1>3, <3>3
    <3>4. QED
      BY <1>3, <1>5, <3>1, <3>2, <3>3
  <2>8. Unscheduled(U)'
    BY <2>2, <2>3, <2>4, <2>5, <2>6, <2>7 DEF Unscheduled
  <2>9. QED
    BY <2>8 DEF ScheduledOnceInv
<1>8. QED
  BY <1>3, <1>6, <1>7

-----------------------------------------------------------------------------
(***************************************************************************)
(* The count of idle workers, the errors, and the master.                  *)
(***************************************************************************)
Where == {"try", "spin", "run", "dying", "exited", "post", "help", "wait_CPU",
          "wait_IO", "check", "returned", "failed", "aborted"}

\* Once the master has returned, nothing is left to do
LEMMA AtReturn ==
  ASSUME PoolsInv, pc[Master] = "returned"
  PROVE  /\ \A t \in AllWorkers : pc[t] = "spin"
         /\ \A p \in Pool : jobs[p] = <<>>
         /\ die = {}
<1> USE DEF PoolsInv
<1>1. error = {} /\ \A p \in Pool : jobs[p] = <<>> /\ waiting[p] = Cardinality(Worker[p])
  BY DEF MasterInv, AllIdle
<1>2. \A p \in Pool : Spinning(p) = Worker[p]
  BY <1>1, AllSpin
<1>3. \A t \in AllWorkers : pc[t] = "spin"
  <2> SUFFICES ASSUME NEW t \in AllWorkers PROVE pc[t] = "spin"
    OBVIOUS
  <2>1. PICK p \in Pool : t \in Worker[p]
    BY Threads
  <2>2. t \in Spinning(p)
    BY <1>2, <2>1
  <2>3. QED
    BY <2>2 DEF Spinning
<1>4. die = {}
  BY <1>1 DEF TypeOK
<1>5. QED
  BY <1>1, <1>3, <1>4

\* A thread goes elsewhere
LEMMA Moves ==
  ASSUME PoolsInv, NEW t \in Runner, NEW w \in Where, pc' = [pc EXCEPT ![t] = w],
         pc[Master] # "returned", w # "returned",
         t # Master => w \in {"try", "spin", "run", "dying", "exited"},
         t = Master => /\ w \notin {"try", "spin", "exited"}
                       /\ w \notin {"post", "aborted"} => posted' = Len(Roots)
                       /\ w \in {"failed", "aborted"} => error' # {},
         t # Master => posted' = posted,
         error \subseteq error'
  PROVE  MasterInv' /\ pc' \in [Runner -> Where]
<1> USE DEF PoolsInv
<1>1. Master \in Runner /\ \A u \in AllWorkers : u \in Runner /\ u # Master
  BY Threads
<1>2. pc \in [Runner -> Where]
  BY DEF TypeOK, Where
<1>3. pc' \in [Runner -> Where] /\ pc'[t] = w /\ \A u \in Runner : u # t => pc'[u] = pc[u]
  BY <1>2
<1>4. \A u \in AllWorkers : pc'[u] \in {"try", "spin", "run", "dying", "exited"}
  BY <1>1, <1>3 DEF MasterInv
<1>5. CASE t = Master
  BY <1>3, <1>4, <1>5 DEF MasterInv
<1>6. CASE t # Master
  BY <1>1, <1>3, <1>4, <1>6 DEF MasterInv
<1>7. QED
  BY <1>3, <1>5, <1>6

\* ... and is not idle before or after
LEMMA NoneSpins ==
  ASSUME PoolsInv, NEW t \in Runner, NEW w \in Where, pc' = [pc EXCEPT ![t] = w],
         pc[t] # "spin", w # "spin", waiting' = waiting
  PROVE  \A p \in Pool : waiting'[p] = Cardinality(Spinning(p)')
<1> SUFFICES ASSUME NEW p \in Pool PROVE waiting'[p] = Cardinality(Spinning(p)')
  OBVIOUS
<1> USE DEF PoolsInv
<1>1. \A u \in Worker[p] : u \in Runner
  BY Threads
<1>2. pc \in [Runner -> Where]
  BY DEF TypeOK, Where
<1>3. \A u \in Worker[p] : pc'[u] = "spin" <=> pc[u] = "spin"
  BY <1>1, <1>2
<1>4. Spinning(p)' = Spinning(p)
  BY <1>3 DEF Spinning
<1>5. QED
  BY <1>4 DEF PoolInv

LEMMA WaitingTypes ==
  ASSUME NEW p \in Pool, NEW n, n = Cardinality(Spinning(p))
  PROVE  n \in Nat /\ n <= Cardinality(Worker[p])
<1>1. IsFiniteSet(Worker[p]) /\ Spinning(p) \in SUBSET Worker[p]
  BY Threads DEF Spinning
<1>2. QED
  BY <1>1, FS_Subset, FS_CardinalityType

LEMMA NewWaitingTypes ==
  ASSUME NEW p \in Pool, NEW n, n = Cardinality(Spinning(p)')
  PROVE  n \in Nat /\ n <= Cardinality(Worker[p])
<1>1. IsFiniteSet(Worker[p]) /\ Spinning(p)' \in SUBSET Worker[p]
  BY Threads DEF Spinning
<1>2. QED
  BY <1>1, FS_Subset, FS_CardinalityType

\* What the parts above add up to
LEMMA Rest ==
  ASSUME PoolsInv, NEW t \in Runner, NEW w \in Where, pc' = [pc EXCEPT ![t] = w],
         OnceInv', ScheduledOnceInv', MasterInv',
         \A p \in Pool : waiting'[p] = Cardinality(Spinning(p)'),
         waiting' = [p \in Pool |-> waiting'[p]],
         jobs' \in [Pool -> Seq(Job)],
         \A p \in die' : jobs'[p] = <<>>,
         w = "dying" => Home(t) \in error',
         error \subseteq error', error' # {} => throws # {},
         die' \subseteq error', error' \subseteq Pool,
         task' \in [Runner -> [job : Job \cup {"none"}, scheduled : Nat]],
         \A u \in Runner : pc'[u] = "run" => task'[u].job \in Job,
         posted' \in 0 .. Len(Roots), runs' \in [Job -> Nat], throws' = throws
  PROVE  PoolsInv'
<1> USE DEF PoolsInv
<1>1. pc \in [Runner -> Where]
  BY DEF TypeOK, Where
<1>2. pc' \in [Runner -> Where] /\ pc'[t] = w /\ \A u \in Runner : u # t => pc'[u] = pc[u]
  BY <1>1
<1>3. PoolInv'
  <2>1. \A u \in Runner : pc'[u] = "dying" => Home(u) \in error'
    BY <1>2 DEF PoolInv
  <2>2. QED
    BY <2>1 DEF PoolInv, Home
<1>4. TypeOK'
  <2>1. \A p \in Pool : waiting'[p] \in Nat /\ waiting'[p] <= Cardinality(Worker[p])
    BY NewWaitingTypes
  <2>2. waiting' \in [Pool -> Nat]
    BY <2>1
  <2>3. throws' \subseteq Job
    BY DEF TypeOK
  <2>4. QED
    BY <1>2, <2>1, <2>2, <2>3 DEF TypeOK, Where
<1>5. QED
  BY <1>3, <1>4

-----------------------------------------------------------------------------
(***************************************************************************)
(* The workers' steps.                                                     *)
(***************************************************************************)
LEMMA TryStep ==
  ASSUME PoolsInv, NEW t \in AllWorkers, Try(t)
  PROVE  PoolsInv'
<1> USE DEF PoolsInv
<1> DEFINE p == Home(t)
<1>1. t \in Runner /\ t # Master /\ p \in Pool /\ t \in Worker[p] /\ \A q \in Pool : t \in Worker[q] => q = p
  BY Threads
<1>2. /\ pc[t] = "try" /\ ~Running(t) /\ pc[Master] # "returned"
      /\ UNCHANGED <<error, die, posted, runs, throws>>
  BY <1>1, AtReturn DEF Try, Running
<1>3. /\ die' \subseteq error' /\ error' \subseteq Pool /\ posted' \in 0 .. Len(Roots) /\ runs' \in [Job -> Nat]
      /\ error' # {} => throws # {}
      /\ waiting \in [Pool -> Nat] /\ \A q \in die : jobs[q] = <<>>
      /\ pc \in [Runner -> Where]
  BY <1>2 DEF TypeOK, PoolInv, Where
<1> HIDE DEF p
<1>4. CASE jobs[p] # <<>>
  <2>1. Take(t, p) /\ waiting' = waiting
    BY <1>4 DEF Try, p
  <2>2. /\ OnceInv' /\ ScheduledOnceInv' /\ jobs' \in [Pool -> Seq(Job)]
        /\ task' \in [Runner -> [job : Job \cup {"none"}, scheduled : Nat]]
        /\ task'[t].job \in Job /\ pc' = [pc EXCEPT ![t] = "run"]
        /\ \A u \in Runner : u # t => task'[u] = task[u]
        /\ \A q \in Pool : jobs[q] = <<>> => jobs'[q] = <<>>
    BY <1>1, <1>2, <1>4, <2>1, TakeKeepsOnce
  <2>3. "run" \in Where /\ error \subseteq error'
    BY <1>2 DEF Where
  <2>4. MasterInv'
    BY <1>1, <1>2, <2>2, <2>3, Moves
  <2>5. \A q \in Pool : waiting'[q] = Cardinality(Spinning(q)')
    BY <1>1, <1>2, <2>1, <2>2, <2>3, NoneSpins
  <2>6. waiting' = [q \in Pool |-> waiting'[q]]
    BY <1>3, <2>1
  <2>7. \A q \in die' : jobs'[q] = <<>>
    BY <1>2, <1>3, <2>2
  <2>8. \A u \in Runner : pc'[u] = "run" => task'[u].job \in Job
    BY <1>1, <1>3, <2>2 DEF TypeOK
  <2>9. QED
    BY <1>1, <1>2, <1>3, <2>2, <2>3, <2>4, <2>5, <2>6, <2>7, <2>8, Rest
<1>5. CASE jobs[p] = <<>>
  <2>1. /\ waiting' = [waiting EXCEPT ![p] = @ + 1] /\ pc' = [pc EXCEPT ![t] = "spin"]
        /\ jobs' = jobs /\ task' = task
    BY <1>5 DEF Try, Goto, p
  <2>2. "spin" \in Where /\ error \subseteq error'
    BY <1>2 DEF Where
  <2>3. /\ pc'[t] = "spin" /\ \A u \in Runner : u # t => pc'[u] = pc[u]
    BY <1>1, <1>3, <2>1
  <2>4. OnceInv' /\ ScheduledOnceInv'
    <3>1. \A u \in Runner : Running(u)' <=> Running(u)
      BY <1>2, <2>3 DEF Running
    <3>2. jobs' \in [Pool -> Seq(Job)]
      BY <2>1 DEF TypeOK
    <3>3. QED
      BY <1>2, <2>1, <2>2, <3>1, <3>2, QuietKeepsOnce
  <2>5. MasterInv'
    BY <1>1, <1>2, <2>1, <2>2, Moves
  <2>6. \A q \in Pool : waiting'[q] = Cardinality(Spinning(q)')
    <3> SUFFICES ASSUME NEW q \in Pool PROVE waiting'[q] = Cardinality(Spinning(q)')
      OBVIOUS
    <3>0. \A u \in Worker[q] : u \in Runner
      BY Threads
    <3>1. CASE q = p
      <4>1. Spinning(q)' = Spinning(q) \cup {t} /\ t \notin Spinning(q)
        BY <1>1, <1>2, <2>3, <3>0, <3>1 DEF Spinning
      <4>2. IsFiniteSet(Worker[q]) /\ Spinning(q) \in SUBSET Worker[q]
        BY Threads DEF Spinning
      <4>3. IsFiniteSet(Spinning(q))
        BY <4>2, FS_Subset
      <4>4. Cardinality(Spinning(q) \cup {t}) = Cardinality(Spinning(q)) + 1
        BY <4>1, <4>3, FS_AddElement
      <4>5. waiting'[q] = waiting[q] + 1 /\ waiting[q] = Cardinality(Spinning(q))
        BY <1>3, <2>1, <3>1 DEF PoolInv
      <4>6. QED
        BY <4>1, <4>4, <4>5
    <3>2. CASE q # p
      <4>1. t \notin Worker[q]
        BY <1>1, <3>2
      <4>2. Spinning(q)' = Spinning(q)
        BY <2>3, <3>0, <4>1 DEF Spinning
      <4>3. QED
        BY <1>3, <2>1, <3>2, <4>2 DEF PoolInv
    <3>3. QED
      BY <3>1, <3>2
  <2>7. waiting' = [q \in Pool |-> waiting'[q]]
    BY <1>3, <2>1
  <2>8. /\ jobs' \in [Pool -> Seq(Job)]
        /\ task' \in [Runner -> [job : Job \cup {"none"}, scheduled : Nat]]
        /\ \A u \in Runner : pc'[u] = "run" => task'[u].job \in Job
    BY <2>1, <2>3 DEF TypeOK
  <2>9. \A q \in die' : jobs'[q] = <<>>
    BY <1>2, <1>3, <2>1
  <2>10. QED
    BY <1>1, <1>2, <1>3, <2>1, <2>2, <2>4, <2>5, <2>6, <2>7, <2>8, <2>9, Rest
<1>6. QED
  BY <1>4, <1>5

LEMMA SpinStep ==
  ASSUME PoolsInv, NEW t \in AllWorkers, Spin(t)
  PROVE  PoolsInv'
<1> USE DEF PoolsInv
<1> DEFINE p == Home(t)
<1>1. t \in Runner /\ t # Master /\ p \in Pool /\ t \in Worker[p] /\ \A q \in Pool : t \in Worker[q] => q = p
  BY Threads
<1>2. /\ pc[t] = "spin" /\ ~Running(t)
      /\ waiting' = [waiting EXCEPT ![p] = @ - 1]
      /\ UNCHANGED <<error, die, posted, runs, throws>>
  BY DEF Spin, Running
<1>3. /\ die' \subseteq error' /\ error' \subseteq Pool /\ posted' \in 0 .. Len(Roots) /\ runs' \in [Job -> Nat]
      /\ error' # {} => throws # {}
      /\ waiting \in [Pool -> Nat] /\ \A q \in die : jobs[q] = <<>>
      /\ pc \in [Runner -> Where]
  BY <1>2 DEF TypeOK, PoolInv, Where
<1> HIDE DEF p
<1>4. pc[Master] # "returned"
  <2> SUFFICES ASSUME pc[Master] = "returned" PROVE FALSE
    OBVIOUS
  <2>1. jobs[p] = <<>> /\ die = {}
    BY <1>1, AtReturn
  <2>2. QED
    BY <2>1 DEF Spin, p
<1>5. PICK w \in {"run", "exited"} : pc' = [pc EXCEPT ![t] = w]
  BY DEF Spin, Take, Goto
<1>6. /\ OnceInv' /\ ScheduledOnceInv' /\ jobs' \in [Pool -> Seq(Job)]
      /\ task' \in [Runner -> [job : Job \cup {"none"}, scheduled : Nat]]
      /\ \A u \in Runner : pc'[u] = "run" => task'[u].job \in Job
      /\ \A q \in Pool : jobs[q] = <<>> => jobs'[q] = <<>>
  <2>1. CASE jobs[p] # <<>> /\ Take(t, p)
    <3>1. /\ OnceInv' /\ ScheduledOnceInv' /\ jobs' \in [Pool -> Seq(Job)]
          /\ task' \in [Runner -> [job : Job \cup {"none"}, scheduled : Nat]]
          /\ task'[t].job \in Job /\ pc' = [pc EXCEPT ![t] = "run"]
          /\ \A u \in Runner : u # t => task'[u] = task[u]
          /\ \A q \in Pool : jobs[q] = <<>> => jobs'[q] = <<>>
      BY <1>1, <1>2, <2>1, TakeKeepsOnce
    <3>2. \A u \in Runner : pc'[u] = "run" => task'[u].job \in Job
      BY <1>1, <1>3, <3>1 DEF TypeOK
    <3>3. QED
      BY <3>1, <3>2
  <2>2. CASE Goto(t, "exited") /\ UNCHANGED <<jobs, task>>
    <3>1. pc' = [pc EXCEPT ![t] = "exited"]
      BY <2>2 DEF Goto
    <3>2. pc'[t] = "exited" /\ \A u \in Runner : u # t => pc'[u] = pc[u]
      BY <1>1, <1>3, <3>1
    <3>3. \A u \in Runner : Running(u)' <=> Running(u)
      BY <1>2, <3>2 DEF Running
    <3>4. jobs' \in [Pool -> Seq(Job)] /\ error \subseteq error'
      BY <1>2, <2>2 DEF TypeOK
    <3>5. OnceInv' /\ ScheduledOnceInv'
      BY <1>2, <2>2, <3>3, <3>4, QuietKeepsOnce
    <3>6. /\ task' \in [Runner -> [job : Job \cup {"none"}, scheduled : Nat]]
          /\ \A u \in Runner : pc'[u] = "run" => task'[u].job \in Job
      BY <2>2, <3>2 DEF TypeOK
    <3>7. QED
      BY <2>2, <3>4, <3>5, <3>6
  <2>3. QED
    BY <2>1, <2>2 DEF Spin, p
<1>7. w \in Where /\ error \subseteq error'
  BY <1>2 DEF Where
<1>8. MasterInv'
  BY <1>1, <1>2, <1>4, <1>5, <1>7, Moves
<1>9. \A q \in Pool : waiting'[q] = Cardinality(Spinning(q)')
  <2> SUFFICES ASSUME NEW q \in Pool PROVE waiting'[q] = Cardinality(Spinning(q)')
    OBVIOUS
  <2>1. \A u \in Worker[q] : u \in Runner
    BY Threads
  <2>2. pc'[t] # "spin" /\ \A u \in Runner : u # t => pc'[u] = pc[u]
    BY <1>1, <1>3, <1>5
  <2>3. CASE q = p
    <3>1. Spinning(q)' = Spinning(q) \ {t} /\ t \in Spinning(q)
      BY <1>1, <1>2, <2>1, <2>2, <2>3 DEF Spinning
    <3>2. IsFiniteSet(Worker[q]) /\ Spinning(q) \in SUBSET Worker[q]
      BY Threads DEF Spinning
    <3>3. IsFiniteSet(Spinning(q))
      BY <3>2, FS_Subset
    <3>4. Cardinality(Spinning(q) \ {t}) = Cardinality(Spinning(q)) - 1
      BY <3>1, <3>3, FS_RemoveElement
    <3>5. waiting'[q] = waiting[q] - 1 /\ waiting[q] = Cardinality(Spinning(q))
      BY <1>2, <1>3, <2>3 DEF PoolInv
    <3>6. QED
      BY <3>1, <3>4, <3>5
  <2>4. CASE q # p
    <3>1. t \notin Worker[q]
      BY <1>1, <2>4
    <3>2. Spinning(q)' = Spinning(q)
      BY <2>1, <2>2, <3>1 DEF Spinning
    <3>3. QED
      BY <1>2, <1>3, <2>4, <3>2 DEF PoolInv
  <2>5. QED
    BY <2>3, <2>4
<1>10. waiting' = [q \in Pool |-> waiting'[q]]
  BY <1>2, <1>3
<1>11. \A q \in die' : jobs'[q] = <<>>
  BY <1>2, <1>3, <1>6
<1>12. w # "dying"
  OBVIOUS
<1>13. QED
  BY <1>1, <1>2, <1>3, <1>5, <1>6, <1>7, <1>8, <1>9, <1>10, <1>11, <1>12, Rest

\* A running thread is a worker of a pool that works on, or the helping master
LEMMA RunnerRuns ==
  ASSUME PoolsInv, NEW t \in Runner, pc[t] \in {"run", "dying"}
  PROVE  /\ pc[Master] # "returned" /\ Home(t) \in Pool
         /\ t # Master => t \in AllWorkers
         /\ t = Master => posted = Len(Roots)
         /\ waiting = [p \in Pool |-> waiting[p]]
         /\ jobs \in [Pool -> Seq(Job)]
         /\ task \in [Runner -> [job : Job \cup {"none"}, scheduled : Nat]]
         /\ pc \in [Runner -> Where]
         /\ \A p \in die : jobs[p] = <<>>
         /\ die \subseteq error /\ error \subseteq Pool /\ (error # {} => throws # {})
         /\ posted \in 0 .. Len(Roots) /\ runs \in [Job -> Nat]
         /\ \A u \in Runner : pc[u] = "run" => task[u].job \in Job
<1> USE DEF PoolsInv
<1>1. t # Master => t \in AllWorkers
  BY Threads
<1>2. pc[Master] # "returned"
  BY <1>1, AtReturn
<1>3. t = Master => posted = Len(Roots)
  BY DEF MasterInv
<1>4. Home(t) \in Pool
  BY Threads
<1>5. waiting = [p \in Pool |-> waiting[p]] /\ pc \in [Runner -> Where]
  BY DEF TypeOK, Where
<1>6. QED
  BY <1>1, <1>2, <1>3, <1>4, <1>5 DEF TypeOK, PoolInv

LEMMA SpawnStep ==
  ASSUME PoolsInv, NEW t \in Runner, Spawn(t)
  PROVE  PoolsInv'
<1> USE DEF PoolsInv
<1>1. /\ pc[t] = "run" /\ Running(t) /\ HasMore(t) /\ schedule(NextChild(t))
      /\ task' = [task EXCEPT ![t].scheduled = @ + 1]
      /\ UNCHANGED <<error, die, waiting, pc, posted, runs, throws>>
  BY DEF Spawn, Running
<1>2. PICK k \in Job : k = task[t].job
  BY <1>1 DEF TypeOK
<1>3. PICK c \in Nat : c = task[t].scheduled
  BY DEF TypeOK
<1>4. /\ c < Len(Children[k]) /\ c + 1 \in ChildIndex(k) /\ Children[k][c + 1] \in Job
      /\ schedule(Children[k][c + 1])
  <2>1. c < Len(Children[k]) /\ schedule(Children[k][c + 1])
    BY <1>1, <1>2, <1>3 DEF HasMore, NextChild
  <2>2. Len(Children[k]) \in Nat
    BY Places
  <2>3. c + 1 \in ChildIndex(k)
    BY <2>1, <2>2 DEF ChildIndex
  <2>4. QED
    BY <2>1, <2>3, Places
<1>5. PICK j \in Job : j = Children[k][c + 1]
  BY <1>4
<1>6. PICK U \in SUBSET Job : Unscheduled(U)
  BY DEF ScheduledOnceInv
<1>7. j \in U
  <2>1. \A d \in ChildIndex(k) : Children[k][d] \in U <=> d > c
    BY <1>1, <1>2, <1>3, <1>6 DEF Unscheduled
  <2>2. c + 1 > c
    OBVIOUS
  <2>3. QED
    BY <1>4, <1>5, <2>1, <2>2
<1>8. /\ task' \in [Runner -> [job : Job \cup {"none"}, scheduled : Nat]]
      /\ task'[t].scheduled = c + 1 /\ \A u \in Runner : task'[u].job = task[u].job
      /\ \A u \in Runner : u # t => task'[u] = task[u]
  BY <1>1, <1>3 DEF TypeOK
<1>9. /\ \A i \in 1 .. Len(Roots) : Roots[i] # j
      /\ \A l \in Job : \A d \in ChildIndex(l) : Children[l][d] = j => l = k /\ d = c + 1
  BY <1>4, <1>5, ScheduleAssumption DEF ChildIndex
<1>10. OnceInv' /\ ScheduledOnceInv' /\ jobs' \in [Pool -> Seq(Job)]
  <2>1. \A u \in Runner : Running(u)' <=> Running(u)
    BY <1>1 DEF Running
  <2>2. \A u \in Runner : Running(u) => task'[u].scheduled <= Len(Children[task[u].job])
    <3> SUFFICES ASSUME NEW u \in Runner, Running(u) PROVE task'[u].scheduled <= Len(Children[task[u].job])
      OBVIOUS
    <3>1. CASE u = t
      BY <1>2, <1>4, <1>8, <3>1 DEF ChildIndex
    <3>2. CASE u # t
      BY <1>8, <3>2 DEF OnceInv
    <3>3. QED
      BY <3>1, <3>2
  <2>3. \A i \in 1 .. Len(Roots) : i > posted' <=> i > posted /\ Roots[i] # j
    BY <1>1, <1>9
  <2>4. ASSUME NEW u \in Runner, Running(u), NEW d \in ChildIndex(task[u].job)
        PROVE  d > task'[u].scheduled <=> d > task[u].scheduled /\ Children[task[u].job][d] # j
    <3>1. CASE u = t
      <4>1. d \in ChildIndex(k) /\ d \in Nat
        BY <1>2, <2>4, <3>1, Places DEF ChildIndex
      <4>2. Children[k][d] = j <=> d = c + 1
        BY <1>4, <1>5, <1>9, <4>1
      <4>3. QED
        BY <1>2, <1>3, <1>8, <3>1, <4>1, <4>2
    <3>2. CASE u # t
      <4>1. task[u].job \in Job /\ task[u].job # k /\ task'[u] = task[u]
        BY <1>1, <1>2, <1>8, <2>4, <3>2 DEF OnceInv, TypeOK, Running
      <4>2. Children[task[u].job][d] # j
        BY <1>9, <2>4, <4>1
      <4>3. QED
        BY <4>1, <4>2
    <3>3. QED
      BY <3>1, <3>2
  <2>5. ASSUME NEW l \in Job, l \in U \/ Queued(l), NEW d \in ChildIndex(l)
        PROVE  Children[l][d] # j
    <3>1. l # k
      BY <1>1, <1>2, <1>6, <2>5 DEF Unscheduled, OnceInv
    <3>2. QED
      BY <1>9, <2>5, <3>1
  <2>6. schedule(j) /\ UNCHANGED <<error, runs, throws>>
    BY <1>1, <1>4, <1>5
  <2>7. QED
    BY <1>6, <1>7, <1>8, <2>1, <2>2, <2>3, <2>4, <2>5, <2>6, ScheduleKeepsOnce
<1>11. pc[Master] # "returned"
  BY <1>1, RunnerRuns
<1>12. TypeOK'
  BY <1>1, <1>8, <1>10 DEF TypeOK
<1>13. PoolInv'
  <2>1. \A p \in Pool : Spinning(p)' = Spinning(p)
    BY <1>1 DEF Spinning
  <2>2. \A p \in die' : jobs'[p] = <<>>
    <3>1. PoolOf[j] \in Pool /\ PoolOf[j] \notin error
      BY <1>4, <1>5, Threads DEF schedule
    <3>2. \A p \in Pool : p # PoolOf[j] => jobs'[p] = jobs[p]
      BY <1>4, <1>5, <3>1 DEF schedule, TypeOK
    <3>3. QED
      BY <1>1, <3>1, <3>2 DEF PoolInv, TypeOK
  <2>3. QED
    BY <1>1, <2>1, <2>2 DEF PoolInv
<1>14. MasterInv'
  BY <1>1, <1>11 DEF MasterInv
<1>15. QED
  BY <1>10, <1>12, <1>13, <1>14

LEMMA CompleteStep ==
  ASSUME PoolsInv, NEW t \in Runner, Complete(t)
  PROVE  PoolsInv'
<1> USE DEF PoolsInv
<1>1. PICK w \in {"help", "try"} :
        /\ pc' = [pc EXCEPT ![t] = w]
        /\ t = Master => w = "help"
        /\ t # Master => w = "try"
  BY DEF Complete, Goto
<1>2. /\ pc[t] = "run" /\ task' = [task EXCEPT ![t] = NoTask]
      /\ UNCHANGED <<jobs, error, die, waiting, posted, throws>>
  BY DEF Complete
<1>3. OnceInv' /\ ScheduledOnceInv' /\ runs' \in [Job -> Nat]
  BY CompleteKeepsOnce
<1>4. w \in Where /\ w \notin {"returned", "spin", "dying", "run"} /\ error \subseteq error'
  BY <1>2 DEF Where
<1>5. MasterInv'
  BY <1>1, <1>2, <1>4, RunnerRuns, Moves
<1>6. \A p \in Pool : waiting'[p] = Cardinality(Spinning(p)')
  BY <1>1, <1>2, <1>4, NoneSpins
<1>7. /\ task' \in [Runner -> [job : Job \cup {"none"}, scheduled : Nat]]
      /\ \A u \in Runner : pc'[u] = "run" => task'[u].job \in Job
  BY <1>1, <1>2, <1>4 DEF TypeOK, NoTask
<1>8. QED
  BY <1>1, <1>2, <1>3, <1>4, <1>5, <1>6, <1>7, RunnerRuns, Rest

LEMMA ThrowStep ==
  ASSUME PoolsInv, NEW t \in Runner, Throw(t)
  PROVE  PoolsInv'
<1> USE DEF PoolsInv
<1>1. /\ pc[t] = "run" /\ pc' = [pc EXCEPT ![t] = "dying"]
      /\ task' = [task EXCEPT ![t] = NoTask] /\ error' = error \cup {Home(t)}
      /\ UNCHANGED <<jobs, die, waiting, posted, runs, throws>>
  BY DEF Throw, Goto
<1>2. throws # {}
  <2>1. CASE task[t].job \in throws
    BY <2>1
  <2>2. CASE HasMore(t) /\ PoolOf[NextChild(t)] \in error
    BY <2>2 DEF PoolInv
  <2>3. QED
    BY <2>1, <2>2 DEF Throw
<1>3. "dying" \in Where /\ error \subseteq error' /\ error' # {} /\ Home(t) \in error'
  BY <1>1 DEF Where
<1>4. /\ pc'[t] = "dying" /\ \A u \in Runner : u # t => pc'[u] = pc[u] /\ task'[u] = task[u]
      /\ task' \in [Runner -> [job : Job \cup {"none"}, scheduled : Nat]]
  BY <1>1 DEF TypeOK, NoTask
<1>5. OnceInv' /\ ScheduledOnceInv'
  <2>1. \A u \in Runner : Running(u)' => Running(u) /\ task'[u] = task[u]
    BY <1>4 DEF Running
  <2>2. jobs' \in [Pool -> Seq(Job)]
    BY <1>1 DEF TypeOK
  <2>3. QED
    BY <1>1, <1>3, <2>1, <2>2, QuietKeepsOnce
<1>6. MasterInv'
  BY <1>1, <1>3, RunnerRuns, Moves
<1>7. \A p \in Pool : waiting'[p] = Cardinality(Spinning(p)')
  BY <1>1, <1>3, NoneSpins
<1>8. /\ die' \subseteq error' /\ error' \subseteq Pool
      /\ \A u \in Runner : pc'[u] = "run" => task'[u].job \in Job
  BY <1>1, <1>4, RunnerRuns
<1>9. QED
  BY <1>1, <1>2, <1>3, <1>4, <1>5, <1>6, <1>7, <1>8, RunnerRuns, Rest

LEMMA set_dieStep ==
  ASSUME PoolsInv, NEW t \in Runner, set_die(t)
  PROVE  PoolsInv'
<1> USE DEF PoolsInv
<1>1. PICK w \in {"wait_CPU", "exited"} :
        /\ pc' = [pc EXCEPT ![t] = w]
        /\ t = Master => w = "wait_CPU"
        /\ t # Master => w = "exited"
  BY DEF set_die, Goto
<1>2. /\ pc[t] = "dying" /\ die' = die \cup {Home(t)} /\ jobs' = [jobs EXCEPT ![Home(t)] = <<>>]
      /\ UNCHANGED <<error, waiting, task, posted, runs, throws>>
  BY DEF set_die
<1>3. Home(t) \in error /\ Home(t) \in Pool
  BY <1>2, Threads DEF PoolInv
<1>4. w \in Where /\ w \notin {"returned", "spin", "dying", "run"} /\ error \subseteq error'
  BY <1>2 DEF Where
<1>5. /\ jobs'[Home(t)] = <<>> /\ \A p \in Pool : p # Home(t) => jobs'[p] = jobs[p]
      /\ jobs' \in [Pool -> Seq(Job)]
  <2>1. <<>> \in Seq(Job)
    BY NoElements
  <2>2. QED
    BY <1>2, <1>3, <2>1 DEF TypeOK
<1>6. \A u \in Runner : pc'[u] = "run" => pc[u] = "run"
  BY <1>1, <1>4, <1>2, RunnerRuns
<1>7. OnceInv' /\ ScheduledOnceInv'
  <2>1. \A u \in Runner : Running(u)' => Running(u) /\ task'[u] = task[u]
    BY <1>2, <1>6 DEF Running
  <2>2. \A p \in Pool : jobs'[p] = jobs[p] \/ jobs'[p] = <<>>
    BY <1>5
  <2>3. error' # {}
    BY <1>2, <1>3
  <2>4. QED
    BY <1>2, <1>4, <1>5, <2>1, <2>2, <2>3, QuietKeepsOnce
<1>8. MasterInv'
  BY <1>1, <1>2, <1>4, RunnerRuns, Moves
<1>9. \A p \in Pool : waiting'[p] = Cardinality(Spinning(p)')
  BY <1>1, <1>2, <1>4, NoneSpins
<1>10. \A p \in die' : jobs'[p] = <<>>
  <2>1. die \subseteq Pool /\ \A p \in die : jobs[p] = <<>>
    BY DEF TypeOK, PoolInv
  <2>2. QED
    BY <1>2, <1>5, <2>1
<1>11. /\ die' \subseteq error' /\ error' \subseteq Pool
       /\ \A u \in Runner : pc'[u] = "run" => task'[u].job \in Job
       /\ task' \in [Runner -> [job : Job \cup {"none"}, scheduled : Nat]]
       /\ waiting' = [p \in Pool |-> waiting'[p]]
       /\ posted' \in 0 .. Len(Roots) /\ runs' \in [Job -> Nat] /\ (error' # {} => throws # {})
  BY <1>2, <1>3, <1>6, RunnerRuns
<1>12. QED
  BY <1>1, <1>2, <1>4, <1>5, <1>7, <1>8, <1>9, <1>10, <1>11, Rest

LEMMA RunStep ==
  ASSUME PoolsInv, NEW t \in Runner, Run(t)
  PROVE  PoolsInv'
BY SpawnStep, CompleteStep, ThrowStep, set_dieStep DEF Run

-----------------------------------------------------------------------------
(***************************************************************************)
(* The master's steps.                                                     *)
(***************************************************************************)

\* The master goes on without touching the pools
LEMMA MasterGoes ==
  ASSUME PoolsInv, NEW w \in Where, w \notin {"try", "spin", "exited", "run", "dying", "post", "returned"},
         pc' = [pc EXCEPT ![Master] = w],
         pc[Master] \notin {"run", "returned"},
         w # "aborted" => posted = Len(Roots),
         w \in {"failed", "aborted"} => error # {},
         UNCHANGED <<jobs, error, die, waiting, task, posted, runs, throws>>
  PROVE  PoolsInv'
<1> USE DEF PoolsInv
<1>1. /\ Master \in Runner /\ pc \in [Runner -> Where] /\ pc[Master] # "spin"
  BY Threads DEF TypeOK, Where, MasterInv
<1>2. \A u \in Runner : pc'[u] = "run" <=> pc[u] = "run"
  BY <1>1
<1>3. OnceInv' /\ ScheduledOnceInv'
  <2>1. \A u \in Runner : Running(u)' <=> Running(u)
    BY <1>2 DEF Running
  <2>2. jobs' \in [Pool -> Seq(Job)] /\ error \subseteq error'
    BY DEF TypeOK
  <2>3. QED
    BY <2>1, <2>2, QuietKeepsOnce
<1>4. MasterInv'
  BY <1>1, Moves
<1>5. \A p \in Pool : waiting'[p] = Cardinality(Spinning(p)')
  BY <1>1, NoneSpins
<1>6. /\ die' \subseteq error' /\ error' \subseteq Pool /\ jobs' \in [Pool -> Seq(Job)]
      /\ \A u \in Runner : pc'[u] = "run" => task'[u].job \in Job
      /\ task' \in [Runner -> [job : Job \cup {"none"}, scheduled : Nat]]
      /\ waiting' = [p \in Pool |-> waiting'[p]]
      /\ posted' \in 0 .. Len(Roots) /\ runs' \in [Job -> Nat] /\ (error' # {} => throws # {})
      /\ \A p \in die' : jobs'[p] = <<>>
  BY <1>2 DEF TypeOK, PoolInv
<1>7. QED
  BY <1>1, <1>3, <1>4, <1>5, <1>6, Rest

LEMMA PostStep ==
  ASSUME PoolsInv, Post
  PROVE  PoolsInv'
<1> USE DEF PoolsInv
<1>1. /\ pc[Master] = "post" /\ posted < Len(Roots) /\ posted \in Nat /\ posted + 1 \in 1 .. Len(Roots)
      /\ UNCHANGED <<error, die, waiting, task, runs, throws>>
  BY Places DEF Post, TypeOK
<1>2. CASE PoolOf[Roots[posted + 1]] \in error /\ Goto(Master, "aborted") /\ UNCHANGED <<jobs, posted>>
  <2>1. pc' = [pc EXCEPT ![Master] = "aborted"] /\ "aborted" \in Where /\ error # {}
    BY <1>2 DEF Goto, Where
  <2>2. QED
    BY <1>1, <1>2, <2>1, MasterGoes
<1>3. CASE schedule(Roots[posted + 1]) /\ posted' = posted + 1 /\ UNCHANGED pc
  <2>1. PICK j \in Job : j = Roots[posted + 1]
    BY <1>1, Places
  <2>2. PICK U \in SUBSET Job : Unscheduled(U)
    BY DEF ScheduledOnceInv
  <2>3. j \in U
    BY <1>1, <2>1, <2>2 DEF Unscheduled
  <2>4. /\ \A i \in 1 .. Len(Roots) : Roots[i] = j <=> i = posted + 1
        /\ \A l \in Job : \A d \in ChildIndex(l) : Children[l][d] # j
    BY <1>1, <2>1, ScheduleAssumption DEF ChildIndex
  <2>5. OnceInv' /\ ScheduledOnceInv' /\ jobs' \in [Pool -> Seq(Job)]
    <3>1. \A u \in Runner : (Running(u)' <=> Running(u)) /\ task'[u] = task[u]
      BY <1>1, <1>3 DEF Running
    <3>2. \A u \in Runner : Running(u) => task[u].scheduled <= Len(Children[task[u].job]) /\ task[u].job \in Job
      BY DEF OnceInv, TypeOK, Running
    <3>3. \A i \in 1 .. Len(Roots) : i > posted' <=> i > posted /\ Roots[i] # j
      <4> SUFFICES ASSUME NEW i \in 1 .. Len(Roots) PROVE i > posted' <=> i > posted /\ Roots[i] # j
        OBVIOUS
      <4>1. i \in Nat /\ (Roots[i] = j <=> i = posted + 1)
        BY <2>4, Places
      <4>2. QED
        BY <1>1, <1>3, <4>1
    <3>4. schedule(j) /\ UNCHANGED <<error, runs, throws>>
      BY <1>1, <1>3, <2>1
    <3>5. \A u \in Runner : Running(u) =>
            \A c \in ChildIndex(task[u].job) :
              c > task'[u].scheduled <=> c > task[u].scheduled /\ Children[task[u].job][c] # j
      BY <2>4, <3>1, <3>2
    <3>6. \A k \in Job : k \in U \/ Queued(k) => \A c \in ChildIndex(k) : Children[k][c] # j
      BY <2>4
    <3>7. \A u \in Runner : /\ Running(u)' <=> Running(u)
                            /\ task'[u].job = task[u].job
                            /\ Running(u) => task'[u].scheduled <= Len(Children[task[u].job])
      BY <3>1, <3>2
    <3>8. QED
      BY <2>2, <2>3, <3>3, <3>4, <3>5, <3>6, <3>7, ScheduleKeepsOnce
  <2>6. TypeOK'
    BY <1>1, <1>3, <2>5 DEF TypeOK
  <2>7. PoolInv'
    <3>1. \A p \in Pool : Spinning(p)' = Spinning(p)
      BY <1>3 DEF Spinning
    <3>2. \A p \in die' : jobs'[p] = <<>>
      <4>1. PoolOf[j] \in Pool /\ PoolOf[j] \notin error
        BY <1>3, <2>1, Threads DEF schedule
      <4>2. \A p \in Pool : p # PoolOf[j] => jobs'[p] = jobs[p]
        BY <1>3, <2>1, <4>1 DEF schedule, TypeOK
      <4>3. QED
        BY <1>1, <4>1, <4>2 DEF PoolInv, TypeOK
    <3>3. QED
      BY <1>1, <1>3, <3>1, <3>2 DEF PoolInv
  <2>8. MasterInv'
    BY <1>1, <1>3 DEF MasterInv
  <2>9. QED
    BY <2>5, <2>6, <2>7, <2>8
<1>4. QED
  BY <1>2, <1>3 DEF Post

LEMMA WaitAllStep ==
  ASSUME PoolsInv, WaitAll
  PROVE  PoolsInv'
<1>1. PICK w \in {"wait_CPU", "help"} : pc' = [pc EXCEPT ![Master] = w]
  BY DEF WaitAll
<1>2. /\ pc[Master] = "post" /\ posted = Len(Roots)
      /\ UNCHANGED <<jobs, error, die, waiting, task, posted, runs, throws>>
  BY DEF WaitAll
<1>3. w \in Where /\ w \notin {"try", "spin", "exited", "run", "dying", "post", "returned", "failed", "aborted"}
  BY DEF Where
<1>4. QED
  BY <1>1, <1>2, <1>3, MasterGoes

LEMMA HelpStep ==
  ASSUME PoolsInv, Help
  PROVE  PoolsInv'
<1> USE DEF PoolsInv
<1>1. /\ pc[Master] = "help" /\ ~Running(Master) /\ Master \in Runner /\ "CPU" \in Pool
      /\ posted = Len(Roots)
      /\ UNCHANGED <<error, die, waiting, posted, runs, throws>>
  BY Threads DEF Help, Running, MasterInv
<1>2. CASE "CPU" \in die \/ jobs["CPU"] = <<>>
  <2>1. pc' = [pc EXCEPT ![Master] = "wait_CPU"] /\ UNCHANGED <<jobs, task>> /\ "wait_CPU" \in Where
    BY <1>2 DEF Help, Goto, Where
  <2>2. QED
    BY <1>1, <2>1, MasterGoes
<1>3. CASE ~("CPU" \in die \/ jobs["CPU"] = <<>>)
  <2>1. Take(Master, "CPU") /\ jobs["CPU"] # <<>>
    BY <1>3 DEF Help
  <2>2. /\ OnceInv' /\ ScheduledOnceInv' /\ jobs' \in [Pool -> Seq(Job)]
        /\ task' \in [Runner -> [job : Job \cup {"none"}, scheduled : Nat]]
        /\ task'[Master].job \in Job /\ pc' = [pc EXCEPT ![Master] = "run"]
        /\ \A u \in Runner : u # Master => task'[u] = task[u]
        /\ \A q \in Pool : jobs[q] = <<>> => jobs'[q] = <<>>
    BY <1>1, <2>1, TakeKeepsOnce
  <2>3. "run" \in Where /\ error \subseteq error'
    BY <1>1 DEF Where
  <2>4. MasterInv'
    BY <1>1, <2>2, <2>3, Moves
  <2>5. \A q \in Pool : waiting'[q] = Cardinality(Spinning(q)')
    BY <1>1, <2>2, <2>3, NoneSpins
  <2>6. \A q \in die' : jobs'[q] = <<>>
    BY <1>1, <2>2 DEF PoolInv, TypeOK
  <2>7. \A u \in Runner : pc'[u] = "run" => task'[u].job \in Job
    <3>1. pc \in [Runner -> Where]
      BY DEF TypeOK, Where
    <3>2. QED
      BY <1>1, <2>2, <3>1 DEF TypeOK
  <2>8. /\ waiting' = [q \in Pool |-> waiting'[q]]
        /\ die' \subseteq error' /\ error' \subseteq Pool /\ posted' \in 0 .. Len(Roots) /\ runs' \in [Job -> Nat]
        /\ (error' # {} => throws # {}) /\ throws' = throws
    BY <1>1 DEF TypeOK, PoolInv
  <2>9. QED
    BY <1>1, <2>2, <2>3, <2>4, <2>5, <2>6, <2>7, <2>8, Rest
<1>4. QED
  BY <1>2, <1>3

\* The master returns
LEMMA Returns ==
  ASSUME PoolsInv, pc' = [pc EXCEPT ![Master] = "returned"],
         pc[Master] \notin {"run", "post", "aborted"},
         error = {}, \A p \in Pool : AllIdle(p),
         UNCHANGED <<jobs, error, die, waiting, task, posted, runs, throws>>
  PROVE  PoolsInv'
<1> USE DEF PoolsInv
<1>1. /\ Master \in Runner /\ pc \in [Runner -> Where] /\ pc[Master] # "spin" /\ "returned" \in Where
      /\ \A u \in AllWorkers : u \in Runner /\ u # Master
  BY Threads DEF TypeOK, Where, MasterInv
<1>2. pc'[Master] = "returned" /\ \A u \in Runner : u # Master => pc'[u] = pc[u]
  BY <1>1
<1>3. \A u \in Runner : pc'[u] = "run" <=> pc[u] = "run"
  BY <1>2
<1>4. OnceInv' /\ ScheduledOnceInv'
  <2>1. \A u \in Runner : Running(u)' <=> Running(u)
    BY <1>3 DEF Running
  <2>2. jobs' \in [Pool -> Seq(Job)] /\ error \subseteq error'
    BY DEF TypeOK
  <2>3. QED
    BY <2>1, <2>2, QuietKeepsOnce
<1>5. MasterInv'
  BY <1>1, <1>2 DEF MasterInv, AllIdle
<1>6. \A p \in Pool : waiting'[p] = Cardinality(Spinning(p)')
  BY <1>1, NoneSpins
<1>7. /\ die' \subseteq error' /\ error' \subseteq Pool /\ jobs' \in [Pool -> Seq(Job)]
      /\ \A u \in Runner : pc'[u] = "run" => task'[u].job \in Job
      /\ task' \in [Runner -> [job : Job \cup {"none"}, scheduled : Nat]]
      /\ waiting' = [p \in Pool |-> waiting'[p]]
      /\ posted' \in 0 .. Len(Roots) /\ runs' \in [Job -> Nat] /\ (error' # {} => throws # {})
      /\ \A p \in die' : jobs'[p] = <<>>
  BY <1>3 DEF TypeOK, PoolInv
<1>8. QED
  BY <1>1, <1>4, <1>5, <1>6, <1>7, Rest

LEMMA threads_wait_allStep ==
  ASSUME PoolsInv, threads_wait_all
  PROVE  PoolsInv'
<1> USE DEF PoolsInv
<1>1. /\ pc[Master] \in {"wait_CPU", "wait_IO", "check"} /\ posted = Len(Roots)
      /\ UNCHANGED <<jobs, error, die, waiting, task, posted, runs, throws>>
  BY DEF threads_wait_all, wait, CheckBoth, MasterInv
<1>2. PICK w \in {"failed", "wait_IO", "check", "wait_CPU", "returned"} :
        /\ pc' = [pc EXCEPT ![Master] = w]
        /\ w = "failed" => error # {}
        /\ w = "returned" => error = {} /\ \A p \in Pool : AllIdle(p)
  <2>1. CASE wait("CPU", "wait_CPU", IF "IO" \in Pool THEN "wait_IO" ELSE "returned")
    <3>1. CASE "CPU" \in error
      BY <2>1, <3>1 DEF wait, Goto
    <3>2. CASE "CPU" \notin error /\ "IO" \in Pool
      BY <2>1, <3>2 DEF wait, Goto
    <3>3. CASE "CPU" \notin error /\ "IO" \notin Pool
      <4>1. Pool = {"CPU"} /\ error \subseteq Pool /\ die \subseteq error
        <5>1. "CPU" \in Pool /\ Pool \subseteq {"CPU", "IO"}
          BY Threads
        <5>2. Pool = {"CPU"}
          BY <3>3, <5>1
        <5>3. QED
          BY <5>2 DEF TypeOK
      <4>2. error = {} /\ AllIdle("CPU")
        BY <2>1, <3>3, <4>1 DEF wait
      <4>3. pc' = [pc EXCEPT ![Master] = "returned"]
        BY <2>1, <3>3 DEF wait, Goto
      <4>4. QED
        BY <4>1, <4>2, <4>3
    <3>4. QED
      BY <3>1, <3>2, <3>3
  <2>2. CASE wait("IO", "wait_IO", "check")
    BY <2>2 DEF wait, Goto
  <2>3. CASE CheckBoth
    <3>1. CASE error # {}
      BY <2>3, <3>1 DEF CheckBoth, Goto
    <3>2. CASE error = {} /\ \A p \in Pool : AllIdle(p)
      BY <2>3, <3>2 DEF CheckBoth, Goto
    <3>3. CASE error = {} /\ ~\A p \in Pool : AllIdle(p)
      BY <2>3, <3>3 DEF CheckBoth, Goto
    <3>4. QED
      BY <3>1, <3>2, <3>3
  <2>4. QED
    BY <2>1, <2>2, <2>3 DEF threads_wait_all
<1>3. CASE w = "returned"
  BY <1>1, <1>2, <1>3, Returns
<1>4. CASE w # "returned"
  <2>1. w \in Where /\ w \notin {"try", "spin", "exited", "run", "dying", "post", "returned", "aborted"}
    BY <1>4 DEF Where
  <2>2. QED
    BY <1>1, <1>2, <2>1, MasterGoes
<1>5. QED
  BY <1>3, <1>4

-----------------------------------------------------------------------------
(***************************************************************************)
(* The specification.                                                      *)
(***************************************************************************)
LEMMA InitPoolsInv == Init => PoolsInv
<1> SUFFICES ASSUME Init PROVE PoolsInv
  OBVIOUS
<1>1. /\ Master \in Runner /\ \A t \in AllWorkers : t \in Runner /\ t # Master
      /\ pc[Master] = "post" /\ \A t \in AllWorkers : pc[t] = "try"
      /\ \A t \in Runner : pc[t] \in {"post", "try"}
  BY Threads DEF Init
<1>2. /\ \A p \in Pool : jobs[p] = <<>> /\ jobs \in [Pool -> Seq(Job)]
      /\ \A k \in Job : ~Queued(k) /\ runs[k] = 0
      /\ \A t \in Runner : ~Running(t)
  <2>1. <<>> \in Seq(Job) /\ Elements(<<>>) = {}
    BY NoElements
  <2>2. \A k \in Job : PoolOf[k] \in Pool
    BY Threads
  <2>3. QED
    BY <1>1, <2>1, <2>2 DEF Init, Queued, Running
<1>3. TypeOK
  <2>1. \A p \in Pool : 0 <= Cardinality(Worker[p])
    <3> SUFFICES ASSUME NEW p \in Pool PROVE 0 <= Cardinality(Worker[p])
      OBVIOUS
    <3>1. IsFiniteSet(Worker[p])
      BY Threads
    <3>2. Cardinality(Worker[p]) \in Nat
      BY <3>1, FS_CardinalityType
    <3>3. QED
      BY <3>2
  <2>2. task \in [Runner -> [job : Job \cup {"none"}, scheduled : Nat]]
    BY DEF Init, NoTask
  <2>3. jobs \in [Pool -> Seq(Job)]
    <3>1. <<>> \in Seq(Job)
      BY NoElements
    <3>2. QED
      BY <3>1 DEF Init
  <2>4. posted \in 0 .. Len(Roots)
    BY Places DEF Init
  <2>5. /\ waiting \in [Pool -> Nat] /\ \A p \in Pool : waiting[p] <= Cardinality(Worker[p])
        /\ die \subseteq error /\ error \subseteq Pool /\ runs \in [Job -> Nat] /\ throws \subseteq Job
    BY <2>1 DEF Init
  <2>6. /\ \A t \in Runner : pc[t] # "run"
        /\ pc \in [Runner -> {"try", "spin", "run", "dying", "exited", "post", "help", "wait_CPU",
                        "wait_IO", "check", "returned", "failed", "aborted"}]
    BY <1>1 DEF Init
  <2>7. QED
    BY <2>2, <2>3, <2>4, <2>5, <2>6 DEF TypeOK
<1>4. OnceInv
  <2>1. \A p \in Pool : Distinct(jobs[p]) /\ Elements(jobs[p]) = {}
    BY <1>2, NoElements
  <2>2. QED
    BY <1>2, <2>1 DEF OnceInv
<1>5. ScheduledOnceInv
  <2>1. \A i \in 1 .. Len(Roots) : Roots[i] \in Job <=> i > posted
    <3>1. posted = 0 /\ \A i \in 1 .. Len(Roots) : i > 0
      BY Places DEF Init
    <3>2. QED
      BY <3>1, Places
  <2>2. \A k \in Job : \A c \in ChildIndex(k) : Children[k][c] \in Job
    BY Places
  <2>3. Unscheduled(Job)
    BY <1>2, <2>1, <2>2 DEF Unscheduled
  <2>4. QED
    BY <2>3 DEF ScheduledOnceInv
<1>6. PoolInv
  <2>1. \A p \in Pool : Spinning(p) = {}
    <3> SUFFICES ASSUME NEW p \in Pool, NEW t \in Worker[p] PROVE pc[t] # "spin"
      BY DEF Spinning
    <3>1. t \in AllWorkers
      BY Threads
    <3>2. QED
      BY <1>1, <3>1
  <2>2. \A p \in Pool : waiting[p] = Cardinality(Spinning(p))
    BY <2>1, FS_EmptySet DEF Init
  <2>3. QED
    BY <1>1, <2>2 DEF PoolInv, Init
<1>7. MasterInv
  BY <1>1 DEF MasterInv
<1>8. QED
  BY <1>3, <1>4, <1>5, <1>6, <1>7 DEF PoolsInv

LEMMA NextPoolsInv == PoolsInv /\ [Next]_vars => PoolsInv'
<1> SUFFICES ASSUME PoolsInv, [Next]_vars PROVE PoolsInv'
  OBVIOUS
<1>1. Master \in Runner /\ \A t \in AllWorkers : t \in Runner
  BY Threads
<1>2. CASE \E t \in AllWorkers : Try(t)
  BY <1>2, TryStep
<1>3. CASE \E t \in AllWorkers : Spin(t)
  BY <1>3, SpinStep
<1>4. CASE \E t \in Runner : Run(t)
  BY <1>4, RunStep
<1>5. CASE Post
  BY <1>5, PostStep
<1>6. CASE WaitAll
  BY <1>6, WaitAllStep
<1>7. CASE Help
  BY <1>7, HelpStep
<1>8. CASE threads_wait_all
  BY <1>8, threads_wait_allStep
<1>9. CASE UNCHANGED vars
  <2> USE <1>9 DEF vars, PoolsInv
  <2>1. \A k : Queued(k)' <=> Queued(k)
    BY DEF Queued
  <2>2. \A t : Running(t)' <=> Running(t)
    BY DEF Running
  <2>3. TypeOK' /\ OnceInv'
    BY <2>1, <2>2 DEF TypeOK, OnceInv, Queued, Running
  <2>4. ScheduledOnceInv'
    <3>1. jobs' \in [Pool -> Seq(Job)] /\ error \subseteq error'
      BY DEF TypeOK
    <3>2. QED
      BY <2>2, <3>1, QuietKeepsOnce
  <2>5. PoolInv' /\ MasterInv'
    BY DEF PoolInv, MasterInv, Spinning, AllIdle
  <2>6. QED
    BY <2>3, <2>4, <2>5
<1>10. QED
  BY <1>1, <1>2, <1>3, <1>4, <1>5, <1>6, <1>7, <1>8, <1>9 DEF Next, master, worker

\* When nobody has a job left and none threw, those that were scheduled are all there are
LEMMA AllHaveRun ==
  ASSUME PoolsInv, pc[Master] = "returned"
  PROVE  \A k \in Job : runs[k] = 1
<1> USE DEF PoolsInv
<1>1. PICK U \in SUBSET Job : Unscheduled(U)
  BY DEF ScheduledOnceInv
<1>2. /\ error = {} /\ posted = Len(Roots) /\ \A p \in Pool : jobs[p] = <<>>
      /\ \A t \in AllWorkers : pc[t] = "spin"
  BY AtReturn DEF MasterInv
<1>3. \A t \in Runner : ~Running(t)
  BY <1>2, Threads DEF Running
<1>4. \A k \in Job : ~Queued(k)
  BY <1>2, Threads, NoElements DEF Queued
<1>5. \A k \in Job : k \in U \/ runs[k] = 1
  BY <1>1, <1>2, <1>3, <1>4 DEF Unscheduled
<1> DEFINE S == Job \ U
<1>6. \A i \in 1 .. Len(Roots) : Roots[i] \in S
  <2> SUFFICES ASSUME NEW i \in 1 .. Len(Roots) PROVE Roots[i] \in S
    OBVIOUS
  <2>1. ~(i > posted) /\ Roots[i] \in Job
    BY <1>2, Places
  <2>2. QED
    BY <1>1, <2>1 DEF Unscheduled
<1>7. \A k \in S : \A c \in 1 .. Len(Children[k]) : Children[k][c] \in S
  <2> SUFFICES ASSUME NEW k \in S, NEW c \in 1 .. Len(Children[k]) PROVE Children[k][c] \in S
    OBVIOUS
  <2>1. runs[k] # 0 /\ c \in ChildIndex(k) /\ k \in Job
    BY <1>5 DEF ChildIndex
  <2>2. QED
    BY <1>1, <2>1, Places DEF Unscheduled
<1>8. S = Job
  <2>1. S \in SUBSET Job
    OBVIOUS
  <2> HIDE DEF S
  <2>2. QED
    BY <1>6, <1>7, <2>1, ScheduleAssumption
<1>9. QED
  BY <1>5, <1>8

\* The inductive invariant holds, however jobs are spread over pools and threads, also when
\* they throw (thread.cc:270-577)
THEOREM PoolsInvariance == Spec => []PoolsInv
BY InitPoolsInv, NextPoolsInv, PTL DEF Spec

\* The variables have their types
THEOREM PoolTypeCorrect == Spec => []TypeOK
<1>1. PoolsInv => TypeOK
  BY DEF PoolsInv
<1>2. QED
  BY <1>1, PoolsInvariance, PTL

\* threads_wait_all returns when every job has run exactly once, whichever pool's job
\* scheduled it, for any numbers of workers and any tree of jobs
THEOREM ReturnMeansComplete == Spec => []ReturnsWhenComplete
<1>1. PoolsInv => ReturnsWhenComplete
  BY AllHaveRun DEF ReturnsWhenComplete
<1>2. QED
  BY <1>1, PoolsInvariance, PTL

\* An exception in a job, in either pool, reaches the master, and the master fails only then
THEOREM ErrorsAreSeen == Spec => []ErrorsReachMaster
<1>1. PoolsInv => ErrorsReachMaster
  <2> SUFFICES ASSUME PoolsInv PROVE ErrorsReachMaster
    OBVIOUS
  <2>1. throws \subseteq Job /\ \A k \in throws : runs[k] = 0
    BY DEF PoolsInv, TypeOK, OnceInv
  <2>2. ASSUME pc[Master] = "returned" PROVE error = {} /\ throws = {}
    <3>1. \A k \in Job : runs[k] = 1
      BY <2>2, AllHaveRun
    <3>2. QED
      BY <2>1, <2>2, <3>1 DEF PoolsInv, MasterInv
  <2>3. ASSUME pc[Master] \in {"failed", "aborted"} PROVE \E j \in throws : runs[j] = 0
    BY <2>1, <2>3 DEF PoolsInv, MasterInv, PoolInv
  <2>4. QED
    BY <2>2, <2>3 DEF ErrorsReachMaster
<1>2. QED
  BY <1>1, PoolsInvariance, PTL

\* thread.cc:364: "Enforce the following invariant: if die = true, there are no jobs available"
THEOREM DeadPoolHasNoJobs == Spec => [](\A p \in die : jobs[p] = <<>>)
<1>1. PoolsInv => \A p \in die : jobs[p] = <<>>
  BY DEF PoolsInv, PoolInv
<1>2. QED
  BY <1>1, PoolsInvariance, PTL
=============================================================================
