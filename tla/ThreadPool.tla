----------------------------- MODULE ThreadPool ------------------------------
(***************************************************************************)
(* The CPU and IO thread pools of utility/thread.cc, in the nonblocking    *)
(* variant that is compiled (BLOCKING 0).  Jobs may schedule jobs in either*)
(* pool and may throw.  The master thread schedules some jobs and then     *)
(* calls threads_wait_all, or threads_wait_all_help, which first runs CPU  *)
(* jobs itself.                                                            *)
(*                                                                         *)
(* Every access to a pool's deque and flags holds its spin lock, so each   *)
(* critical section is one step.  job_count changes with the deque, so it  *)
(* is the deque's length.                                                  *)
(***************************************************************************)
EXTENDS Integers, Sequences, FiniteSets

CONSTANTS Worker,    \* Worker[p]: the threads of pool p
          Job,
          PoolOf,    \* the pool each job is scheduled in
          Children,  \* the jobs a job schedules, in order
          Soon,      \* the jobs scheduled at the front of the queue
          Roots,     \* the jobs the master schedules, in order
          Master

Pool == DOMAIN Worker  \* "CPU", and "IO" if there are IO threads
AllWorkers == UNION {Worker[p] : p \in Pool}
Runner == AllWorkers \cup {Master}

ASSUME PoolAssumption ==
  /\ "CPU" \in Pool /\ Pool \subseteq {"CPU", "IO"}
  /\ \A p \in Pool : IsFiniteSet(Worker[p]) /\ Worker[p] # {}
  /\ \A p, q \in Pool : p # q => Worker[p] \cap Worker[q] = {}
  /\ Master \notin AllWorkers
  /\ PoolOf \in [Job -> Pool]
  /\ Roots \in Seq(Job) /\ Children \in [Job -> Seq(Job)]

\* A job is an object that is scheduled in one place, by the master or by another job, and Job
\* has those that are scheduled when nothing throws
ASSUME ScheduleAssumption ==
  /\ \A i, h \in 1 .. Len(Roots) : Roots[i] = Roots[h] => i = h
  /\ \A k \in Job : \A c \in 1 .. Len(Children[k]) :
       /\ \A i \in 1 .. Len(Roots) : Roots[i] # Children[k][c]
       /\ \A l \in Job : \A d \in 1 .. Len(Children[l]) :
            Children[l][d] = Children[k][c] => l = k /\ d = c
  /\ \A S \in SUBSET Job :
       /\ \A i \in 1 .. Len(Roots) : Roots[i] \in S
       /\ \A k \in S : \A c \in 1 .. Len(Children[k]) : Children[k][c] \in S
       => S = Job

\* The pool whose threads a thread belongs to; the master helps the CPU pool
Home(t) == IF t = Master THEN "CPU" ELSE CHOOSE p \in Pool : t \in Worker[p]

VARIABLES
  jobs,     \* the deque of each pool
  error,    \* the pools with a captured exception
  die,      \* the pools that are shutting down
  waiting,  \* the number of idle workers each pool counts
  pc,       \* where each thread is
  task,     \* the job each thread runs, and how many children it scheduled
  posted,   \* roots the master has scheduled
  runs,     \* how often each job ran to completion
  throws    \* the jobs that throw

vars == <<jobs, error, die, waiting, pc, task, posted, runs, throws>>

NoTask == [job |-> "none", scheduled |-> 0]

Init ==
  /\ jobs = [p \in Pool |-> <<>>]
  /\ error = {} /\ die = {}
  /\ waiting = [p \in Pool |-> 0]
  /\ pc = [t \in Runner |-> IF t = Master THEN "post" ELSE "try"]
  /\ task = [t \in Runner |-> NoTask]
  /\ posted = 0
  /\ runs = [j \in Job |-> 0]
  /\ throws \in SUBSET Job

Goto(t, where) == pc' = [pc EXCEPT ![t] = where]
-----------------------------------------------------------------------------
(***************************************************************************)
(* schedule: add the job, or rethrow the pool's error.                     *)
(***************************************************************************)
schedule(j) ==
  /\ PoolOf[j] \notin error
  /\ jobs' = [jobs EXCEPT ![PoolOf[j]] = IF j \in Soon THEN <<j>> \o @ ELSE Append(@, j)]

Take(t, p) ==
  /\ jobs' = [jobs EXCEPT ![p] = Tail(@)]
  /\ task' = [task EXCEPT ![t] = [job |-> Head(jobs[p]), scheduled |-> 0]]
  /\ Goto(t, "run")

\* worker: try once, and count as waiting if there is no job
Try(t) ==
  LET p == Home(t) IN
  /\ pc[t] = "try"
  /\ IF jobs[p] # <<>>
       THEN Take(t, p) /\ UNCHANGED waiting
       ELSE /\ waiting' = [waiting EXCEPT ![p] = @ + 1]
            /\ Goto(t, "spin")
            /\ UNCHANGED <<jobs, task>>
  /\ UNCHANGED <<error, die, posted, runs, throws>>

\* Spin until there is a job or the pool dies
Spin(t) ==
  LET p == Home(t) IN
  /\ pc[t] = "spin"
  /\ waiting' = [waiting EXCEPT ![p] = @ - 1]
  /\ \/ jobs[p] # <<>> /\ Take(t, p)
     \/ jobs[p] = <<>> /\ p \in die /\ Goto(t, "exited") /\ UNCHANGED <<jobs, task>>
  /\ UNCHANGED <<error, die, posted, runs, throws>>
-----------------------------------------------------------------------------
(***************************************************************************)
(* Running a job, on a worker or on the helping master.                    *)
(***************************************************************************)
NextChild(t) == Children[task[t].job][task[t].scheduled + 1]
HasMore(t) == task[t].scheduled < Len(Children[task[t].job])

Spawn(t) ==
  /\ pc[t] = "run" /\ HasMore(t)
  /\ schedule(NextChild(t))
  /\ task' = [task EXCEPT ![t].scheduled = @ + 1]
  /\ UNCHANGED <<error, die, waiting, pc, posted, runs, throws>>

Complete(t) ==
  /\ pc[t] = "run" /\ ~HasMore(t) /\ task[t].job \notin throws
  /\ runs' = [runs EXCEPT ![task[t].job] = @ + 1]
  /\ task' = [task EXCEPT ![t] = NoTask]
  /\ Goto(t, IF t = Master THEN "help" ELSE "try")
  /\ UNCHANGED <<jobs, error, die, waiting, posted, throws>>

\* Mutant of Throw: the error is lost
ThrowUnseen(t) ==
  /\ pc[t] = "run"
  /\ \/ ~HasMore(t) /\ task[t].job \in throws
     \/ HasMore(t) /\ PoolOf[NextChild(t)] \in error
  /\ task' = [task EXCEPT ![t] = NoTask]
  /\ Goto(t, "dying")
  /\ UNCHANGED <<jobs, error, die, waiting, posted, runs, throws>>

\* The job throws, itself or out of schedule, and the pool keeps the first error
Throw(t) ==
  /\ pc[t] = "run"
  /\ \/ ~HasMore(t) /\ task[t].job \in throws
     \/ HasMore(t) /\ PoolOf[NextChild(t)] \in error
  /\ error' = error \cup {Home(t)}
  /\ task' = [task EXCEPT ![t] = NoTask]
  /\ Goto(t, "dying")
  /\ UNCHANGED <<jobs, die, waiting, posted, runs, throws>>

\* Mutant of set_die: the jobs go, but nobody is told
clear_jobs(t) ==
  /\ pc[t] = "dying"
  /\ jobs' = [jobs EXCEPT ![Home(t)] = <<>>]
  /\ Goto(t, IF t = Master THEN "wait_CPU" ELSE "exited")
  /\ UNCHANGED <<error, die, waiting, task, posted, runs, throws>>

\* "Enforce the following invariant: if die = true, there are no jobs available"
set_die(t) ==
  /\ pc[t] = "dying"
  /\ die' = die \cup {Home(t)}
  /\ jobs' = [jobs EXCEPT ![Home(t)] = <<>>]
  /\ Goto(t, IF t = Master THEN "wait_CPU" ELSE "exited")
  /\ UNCHANGED <<error, waiting, task, posted, runs, throws>>
-----------------------------------------------------------------------------
(***************************************************************************)
(* The master.                                                             *)
(***************************************************************************)
Post ==
  /\ pc[Master] = "post" /\ posted < Len(Roots)
  /\ LET root == Roots[posted + 1] IN
       \/ schedule(root) /\ posted' = posted + 1 /\ UNCHANGED pc
       \/ PoolOf[root] \in error /\ Goto(Master, "aborted") /\ UNCHANGED <<jobs, posted>>
  /\ UNCHANGED <<error, die, waiting, task, runs, throws>>

WaitAll ==
  /\ pc[Master] = "post" /\ posted = Len(Roots)
  /\ pc' \in {[pc EXCEPT ![Master] = "wait_CPU"], [pc EXCEPT ![Master] = "help"]}
  /\ UNCHANGED <<jobs, error, die, waiting, task, posted, runs, throws>>

\* threads_wait_all_help, until the CPU pool has no job or dies
Help ==
  /\ pc[Master] = "help"
  /\ IF "CPU" \in die \/ jobs["CPU"] = <<>>
       THEN Goto(Master, "wait_CPU") /\ UNCHANGED <<jobs, task>>
       ELSE Take(Master, "CPU")
  /\ UNCHANGED <<error, die, waiting, posted, runs, throws>>

\* Mutant of AllIdle: running jobs are not waited for
NoneQueued(p) == jobs[p] = <<>>

AllIdle(p) == jobs[p] = <<>> /\ waiting[p] = Cardinality(Worker[p])

\* thread_pool_t::wait on one pool, then go on
wait(p, here, there) ==
  /\ pc[Master] = here
  /\ p \in die \/ AllIdle(p)
  /\ Goto(Master, IF p \in error THEN "failed" ELSE there)
  /\ UNCHANGED <<jobs, error, die, waiting, task, posted, runs, throws>>

\* With both locks held: nothing may have moved from one pool to the other
CheckBoth ==
  /\ pc[Master] = "check"
  /\ Goto(Master, IF error # {} THEN "failed"
                  ELSE IF \A p \in Pool : AllIdle(p) THEN "returned"
                  ELSE "wait_CPU")
  /\ UNCHANGED <<jobs, error, die, waiting, task, posted, runs, throws>>

threads_wait_all ==
  \/ wait("CPU", "wait_CPU", IF "IO" \in Pool THEN "wait_IO" ELSE "returned")
  \/ "IO" \in Pool /\ wait("IO", "wait_IO", "check")
  \/ CheckBoth
-----------------------------------------------------------------------------
Run(t) == Spawn(t) \/ Complete(t) \/ Throw(t) \/ set_die(t)

worker(t) == Try(t) \/ Spin(t) \/ Run(t)

master == Post \/ WaitAll \/ Help \/ Run(Master) \/ threads_wait_all

Next == master \/ \E t \in AllWorkers : worker(t)

\* Threads keep running, and get a spin lock that others keep releasing
Spec == /\ Init /\ [][Next]_vars
        /\ WF_vars(master) /\ \A t \in AllWorkers : WF_vars(worker(t))
-----------------------------------------------------------------------------
TypeOK ==
  /\ jobs \in [Pool -> Seq(Job)]
  /\ die \subseteq error /\ error \subseteq Pool
  /\ waiting \in [Pool -> Nat] /\ \A p \in Pool : waiting[p] <= Cardinality(Worker[p])
  /\ pc \in [Runner -> {"try", "spin", "run", "dying", "exited", "post", "help", "wait_CPU",
                        "wait_IO", "check", "returned", "failed", "aborted"}]
  /\ task \in [Runner -> [job : Job \cup {"none"}, scheduled : Nat]]
  /\ \A t \in Runner : pc[t] = "run" => task[t].job \in Job
  /\ posted \in 0 .. Len(Roots)
  /\ runs \in [Job -> Nat]
  /\ throws \subseteq Job

(***************************************************************************)
(* When threads_wait_all returns, every job that was scheduled, directly or*)
(* by another job in either pool, has run exactly once.                    *)
(***************************************************************************)
ReturnsWhenComplete == pc[Master] = "returned" => \A j \in Job : runs[j] = 1

(***************************************************************************)
(* An exception reaches the master: a return means that no job threw, and a*)
(* failure that one did.                                                   *)
(***************************************************************************)
ErrorsReachMaster ==
  /\ pc[Master] = "returned" => error = {} /\ throws = {}
  /\ pc[Master] \in {"failed", "aborted"} => \E j \in throws : runs[j] = 0

(***************************************************************************)
(* No job waits for a worker that sleeps or has exited: the master always  *)
(* gets an answer, also when jobs throw.                                   *)
(***************************************************************************)
MasterGetsAnswer == <>(pc[Master] \in {"returned", "failed", "aborted"})

(***************************************************************************)
(* thread.h, threads_wait_all: "Wait for all jobs to complete".  No worker *)
(* runs a job when it leaves, by return or by exception.  A master whose   *)
(* own schedule throws has not called it and is "aborted".  This does not  *)
(* hold: see the findings.                                                 *)
(***************************************************************************)
WaitsForAllJobs ==
  pc[Master] \in {"returned", "failed"} => \A t \in AllWorkers : pc[t] # "run"
=============================================================================
