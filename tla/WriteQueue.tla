---------------------------- MODULE WriteQueue ----------------------------
(***************************************************************************)
(* core/write_queue: a deque of write jobs drained by a worker thread, by  *)
(* whoever calls flush(), and by the destructor.  One mutex guards the     *)
(* deque; it is released around every job, so drains interleave.           *)
(*                                                                         *)
(* Each action below is what one thread does while it holds the mutex,     *)
(* except RunJob, which is the job itself, run with the mutex released.    *)
(* The worker's timed wait re-checks its predicate every interval and on   *)
(* notification, so when it wakes is left open: depth_threshold_ and       *)
(* interval_ms_ decide how soon, never whether.                            *)
(***************************************************************************)
EXTENDS Naturals, Sequences

CONSTANTS
  Clients,  \* threads that call enqueue()
  Flushers, \* the clients that also call flush()
  Worker,   \* worker_, started by the constructor
  Owner,    \* the thread that runs the destructor
  MaxJobs   \* bound on the jobs enqueued

ASSUME ThreadsAssumption ==
  /\ Flushers \subseteq Clients
  /\ Worker \notin Clients
  /\ Owner \notin Clients
  /\ Worker # Owner

ASSUME MaxJobsAssumption == MaxJobs \in Nat

Threads == Clients \cup {Worker, Owner}
NoJob == 0
Job == 1..MaxJobs

VARIABLES
  q,        \* q_: the queued jobs, oldest first; a job is its enqueue number
  enqueued, \* how many jobs were enqueued
  stop,     \* stop_
  pc,       \* where each thread is
  job,      \* the job a thread popped and has not run yet
  ran,      \* history: the jobs that ran, in the order they ran
  owed      \* history: the jobs a client found queued when it called flush()

vars == <<q, enqueued, stop, pc, job, ran, owed>>

Queued == {q[i] : i \in 1..Len(q)}
Ran == {ran[i] : i \in 1..Len(ran)}

TypeOK ==
  /\ q \in Seq(Job)
  /\ enqueued \in 0..MaxJobs
  /\ stop \in BOOLEAN
  /\ pc \in [Threads -> {"idle", "wait", "running", "relock",
                         "joining", "exited", "gone"}]
  /\ job \in [Threads -> Job \cup {NoJob}]
  /\ ran \in Seq(Job)
  /\ owed \in [Clients -> SUBSET Job]

Init ==
  /\ q = <<>>
  /\ enqueued = 0
  /\ stop = FALSE
  /\ pc = [t \in Threads |-> IF t = Worker THEN "wait" ELSE "idle"]
  /\ job = [t \in Threads |-> NoJob]
  /\ ran = <<>>
  /\ owed = [c \in Clients |-> {}]

-----------------------------------------------------------------------------
(* drainLocked: the loop test and what follows it, up to the next unlock.  *)

PopFrontFromBack(t) == \* mutant: pop_back for pop_front
  /\ q # <<>>
  /\ job' = [job EXCEPT ![t] = q[Len(q)]]
  /\ q' = SubSeq(q, 1, Len(q) - 1)
  /\ pc' = [pc EXCEPT ![t] = "running"]

PopFrontKeepsFront(t) == \* mutant: the front is read but not popped
  /\ q # <<>>
  /\ job' = [job EXCEPT ![t] = Head(q)]
  /\ pc' = [pc EXCEPT ![t] = "running"]
  /\ UNCHANGED q

PopFront(t) ==
  /\ q # <<>>
  /\ job' = [job EXCEPT ![t] = Head(q)]
  /\ q' = Tail(q)
  /\ pc' = [pc EXCEPT ![t] = "running"]

Leave(t, after) ==
  /\ q = <<>>
  /\ pc' = [pc EXCEPT ![t] = after]
  /\ UNCHANGED <<q, job>>

DrainLocked(t, after) == PopFront(t) \/ Leave(t, after)

\* The body of the loop: the job runs unlocked.  One that throws is swallowed
\* by catch (...) and leaves the queue in the same state as one that returns.
RunJob(t) ==
  /\ pc[t] = "running"
  /\ ran' = Append(ran, job[t])
  /\ job' = [job EXCEPT ![t] = NoJob]
  /\ pc' = [pc EXCEPT ![t] = "relock"]
  /\ UNCHANGED <<q, enqueued, stop, owed>>

\* Where a thread goes when its drain finds the queue empty.  The worker tests
\* stop_ under the same lock and falls through its final, empty, drain.
AfterDrainOneBatch(t) == \* mutant: the worker does not loop
  IF t = Worker THEN "exited" ELSE IF t = Owner THEN "gone" ELSE "idle"

AfterDrain(t) ==
  CASE t = Worker -> IF stop THEN "exited" ELSE "wait"
    [] t = Owner -> "gone"
    [] OTHER -> "idle"

RelockOneJobOnly(t) == \* mutant: flush() runs one job and returns
  /\ pc[t] = "relock"
  /\ IF t \in Clients THEN /\ pc' = [pc EXCEPT ![t] = "idle"]
                           /\ UNCHANGED <<q, job>>
                      ELSE DrainLocked(t, AfterDrain(t))
  /\ UNCHANGED <<enqueued, stop, ran, owed>>

Relock(t) ==
  /\ pc[t] = "relock"
  /\ DrainLocked(t, AfterDrain(t))
  /\ UNCHANGED <<enqueued, stop, ran, owed>>

-----------------------------------------------------------------------------
(* The operations.                                                         *)

Enqueue(c) ==
  /\ pc[c] = "idle"
  /\ pc[Owner] # "gone"
  /\ enqueued < MaxJobs
  /\ enqueued' = enqueued + 1
  /\ q' = Append(q, enqueued + 1)
  /\ UNCHANGED <<stop, pc, job, ran, owed>>

\* A client may be in flush() only while the object lives, so none starts once
\* the destructor has begun.
Flush(c) ==
  /\ pc[c] = "idle"
  /\ pc[Owner] = "idle"
  /\ owed' = [owed EXCEPT ![c] = @ \cup Queued]
  /\ DrainLocked(c, "idle")
  /\ UNCHANGED <<enqueued, stop, ran>>

WorkerWake ==
  /\ pc[Worker] = "wait"
  /\ stop \/ q # <<>>
  /\ DrainLocked(Worker, "exited")
  /\ UNCHANGED <<enqueued, stop, ran, owed>>

\* ~WriteQueue, in two steps: ask the worker to stop; then, once it has been
\* joined, drain what was enqueued meanwhile.  The caller must own the object:
\* nobody is inside flush() when it begins.
DestroyBeginNoStop == \* mutant: stop_ is not set before the join
  /\ pc[Owner] = "idle"
  /\ \A c \in Clients : pc[c] = "idle"
  /\ pc' = [pc EXCEPT ![Owner] = "joining"]
  /\ UNCHANGED <<q, enqueued, stop, job, ran, owed>>

DestroyBegin ==
  /\ pc[Owner] = "idle"
  /\ \A c \in Clients : pc[c] = "idle"
  /\ stop' = TRUE
  /\ pc' = [pc EXCEPT ![Owner] = "joining"]
  /\ UNCHANGED <<q, enqueued, job, ran, owed>>

DestroyJoinedNoDrain == \* mutant: what was enqueued during teardown is dropped
  /\ pc[Owner] = "joining"
  /\ pc[Worker] = "exited"
  /\ pc' = [pc EXCEPT ![Owner] = "gone"]
  /\ UNCHANGED <<q, enqueued, stop, job, ran, owed>>

DestroyJoined ==
  /\ pc[Owner] = "joining"
  /\ pc[Worker] = "exited"
  /\ DrainLocked(Owner, "gone")
  /\ UNCHANGED <<enqueued, stop, ran, owed>>

Next ==
  \/ \E c \in Clients : Enqueue(c)
  \/ \E c \in Flushers : Flush(c)
  \/ \E t \in Threads : RunJob(t) \/ Relock(t)
  \/ WorkerWake
  \/ DestroyBegin
  \/ DestroyJoined

Spec == Init /\ [][Next]_vars

\* Threads that hold a job or want the mutex back are scheduled; the worker's
\* timed wait returns; join returns once the worker has exited.  Nobody has to
\* enqueue, flush or destroy.
Fairness ==
  /\ \A t \in Threads : WF_vars(RunJob(t)) /\ WF_vars(Relock(t))
  /\ WF_vars(WorkerWake)
  /\ WF_vars(DestroyJoined)

FairSpec == Spec /\ Fairness
-----------------------------------------------------------------------------
(* Properties.                                                             *)

\* No job runs twice, and none is lost: a job that was enqueued is queued, in
\* the hands of one thread, or has run, and never two of these.  The pop, the
\* unlocked call and the relock of concurrent drains must not break this.
ExactlyOnce ==
  /\ \A i, k \in 1..Len(ran) : ran[i] = ran[k] => i = k
  /\ \A s, t \in Threads : job[s] = job[t] /\ job[s] # NoJob => s = t
  /\ \A t \in Threads : job[t] \notin Queued \cup Ran
  /\ Queued \cap Ran = {}
  /\ 1..enqueued = Queued \cup Ran \cup ({job[t] : t \in Threads} \ {NoJob})

\* The destructor "drains then joins": when it returns nothing is queued,
\* nothing is running and everything enqueued has run.
DtorDrains ==
  pc[Owner] = "gone" => q = <<>> /\ Ran = 1..enqueued

\* As long as no flush() has found work, the effects of jobs come in the order
\* they were enqueued ("write_queue: jobs run in FIFO order"), the teardown
\* included.  With two drains at once they need not: the queue is popped in
\* order, and the popped jobs then race.
JobsRunInFifoOrder ==
  /\ TypeOK
  /\ (\A c \in Clients : owed[c] = {}) =>
       \A i, k \in 1..Len(ran) : i < k => ran[i] < ran[k]

\* What flush() found queued is off the queue when it returns: it has run, or
\* another drain has it in hand.  (The header says "Run all currently-queued
\* jobs synchronously"; what another thread popped before may still be running.)
FlushTakesWhatItFound ==
  \A c \in Clients : pc[c] = "idle" => owed[c] \cap Queued = {}

\* A job handed to the queue runs, whether or not anybody flushes.
EveryJobRuns ==
  \A j \in Job : (enqueued >= j) ~> (j \in Ran)

\* A destructor that was entered returns: the worker notices stop_ even while
\* jobs are still being enqueued.
TeardownEnds == (pc[Owner] = "joining") ~> (pc[Owner] = "gone")

\* The queue implements the job ledger.
Ledger == INSTANCE JobLedger WITH
  submitted <- enqueued, ran <- Ran, closed <- pc[Owner] = "gone"

LedgerSpec == Ledger!Spec
=============================================================================
