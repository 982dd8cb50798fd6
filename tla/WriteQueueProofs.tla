------------------------- MODULE WriteQueueProofs -------------------------
(***************************************************************************)
(* Proofs about WriteQueue, for any set of clients and any number of jobs. *)
(*                                                                         *)
(* Jobs are numbered in enqueue order and popped from the front, so the    *)
(* deque always holds the last Len(q) of them: everything up to Popped has *)
(* left the deque, and is either in the hands of exactly one thread or has *)
(* run exactly once.  IInv says this, and says which threads can still be  *)
(* draining in each phase of the destructor.                               *)
(***************************************************************************)
EXTENDS WriteQueue, SequenceTheorems, TLAPS

Popped == enqueued - Len(q)

\* The deque holds the youngest jobs, in order.
QueueShape ==
  /\ Len(q) <= enqueued
  /\ \A i \in 1..Len(q) : q[i] = Popped + i

\* A thread holds a job exactly while it is running it, and it was popped.
Held ==
  \A t \in Threads :
    /\ (job[t] = NoJob) <=> (pc[t] # "running")
    /\ job[t] \in 0..Popped
    /\ \A i \in 1..Len(ran) : ran[i] # job[t]

HeldOnce ==
  \A s, t \in Threads : job[s] = job[t] /\ job[s] # NoJob => s = t

RanOnce ==
  /\ \A i \in 1..Len(ran) : ran[i] \in 1..Popped
  /\ \A i, k \in 1..Len(ran) : ran[i] = ran[k] => i = k

\* What was popped is held or has run.
Accounted ==
  \A j \in 1..Popped :
    (\E t \in Threads : job[t] = j) \/ (\E i \in 1..Len(ran) : ran[i] = j)

\* Once the destructor has begun no client drains, once the worker was joined
\* only the owner does, and the owner is gone only with the deque empty.
Phase ==
  /\ \A c \in Clients : pc[c] \in {"idle", "running", "relock"}
  /\ pc[Worker] \in {"wait", "running", "relock", "exited"}
  /\ pc[Owner] \in {"idle", "joining", "running", "relock", "gone"}
  /\ pc[Owner] # "idle" => \A c \in Clients : pc[c] = "idle"
  /\ pc[Owner] \in {"running", "relock", "gone"} => pc[Worker] = "exited"
  /\ pc[Owner] = "gone" => q = <<>>

IInv ==
  TypeOK /\ QueueShape /\ Held /\ HeldOnce /\ RanOnce /\ Accounted /\ Phase

Where == {"idle", "wait", "running", "relock", "joining", "exited", "gone"}

-----------------------------------------------------------------------------
(* One drain step, taken by any thread that holds no job, keeps everything  *)
(* but Phase, which depends on which thread it is.                          *)

\* PopFront hands the oldest queued job to the thread that pops it.
LEMMA PopFrontKeeps ==
  ASSUME TypeOK, QueueShape, Held, HeldOnce, RanOnce, Accounted,
         NEW t \in Threads, pc[t] # "running",
         PopFront(t), UNCHANGED <<enqueued, stop, ran>>,
         owed' \in [Clients -> SUBSET Job]
  PROVE  /\ TypeOK' /\ QueueShape' /\ Held' /\ HeldOnce' /\ RanOnce'
         /\ Accounted'
<1> USE DEF TypeOK, Job, NoJob
<1>1. /\ Len(q) \in Nat /\ Len(q) > 0
      /\ Head(q) = q[1]
      /\ Tail(q) \in Seq(Job)
      /\ Len(q') = Len(q) - 1
      /\ \A i \in 1..Len(q') : q'[i] = q[i + 1]
  BY HeadTailProperties DEF PopFront
<1>2. Head(q) = Popped + 1 /\ Popped' = Popped + 1 /\ Popped \in Nat
  BY <1>1 DEF QueueShape, Popped
<1>3. Head(q) \in Job
  BY HeadTailProperties DEF PopFront
<1>4. TypeOK'
  BY <1>1, <1>3 DEF PopFront
<1>5. QueueShape'
  BY <1>1, <1>2 DEF QueueShape, Popped
<1>6. /\ job'[t] = Popped + 1
      /\ \A s \in Threads \ {t} : job'[s] = job[s] /\ job[s] \in 0..Popped
      /\ \A i \in 1..Len(ran) : ran[i] # Popped + 1
      /\ pc'[t] = "running"
      /\ \A s \in Threads \ {t} : pc'[s] = pc[s]
  BY <1>2 DEF PopFront, Held, RanOnce
<1>7. Held'
  BY <1>2, <1>6 DEF Held
<1>8. HeldOnce'
  BY <1>2, <1>6 DEF HeldOnce
<1>9. RanOnce'
  BY <1>2 DEF RanOnce
<1>10. Accounted'
  <2> SUFFICES ASSUME NEW j \in 1..(Popped + 1)
               PROVE  \/ \E s \in Threads : job'[s] = j
                      \/ \E i \in 1..Len(ran) : ran[i] = j
    BY <1>2 DEF Accounted
  <2>1. CASE j = Popped + 1
    BY <2>1, <1>6
  <2>2. CASE j \in 1..Popped
    <3>1. job[t] = 0 /\ j # 0
      BY <2>2, <1>2 DEF Held
    <3>2. CASE \E s \in Threads : job[s] = j
      BY <3>1, <3>2, <1>6
    <3>3. QED
      BY <2>2, <3>2 DEF Accounted
  <2> QED
    BY <1>2, <2>1, <2>2
<1> QED
  BY <1>4, <1>5, <1>7, <1>8, <1>9, <1>10

\* Leaving the drain moves no job.
LEMMA LeaveKeeps ==
  ASSUME TypeOK, QueueShape, Held, HeldOnce, RanOnce, Accounted,
         NEW t \in Threads, pc[t] # "running",
         NEW after \in Where \ {"running"},
         Leave(t, after), UNCHANGED <<enqueued, stop, ran>>,
         owed' \in [Clients -> SUBSET Job]
  PROVE  /\ TypeOK' /\ QueueShape' /\ Held' /\ HeldOnce' /\ RanOnce'
         /\ Accounted'
<1>1. TypeOK'
  BY DEF TypeOK, Leave, Where
<1>2. QueueShape' /\ HeldOnce' /\ RanOnce' /\ Accounted'
  BY DEF QueueShape, HeldOnce, RanOnce, Accounted, Popped, Leave
<1>3. Held'
  BY DEF TypeOK, Held, Popped, Leave
<1> QED
  BY <1>1, <1>2, <1>3

LEMMA DrainKeeps ==
  ASSUME TypeOK, QueueShape, Held, HeldOnce, RanOnce, Accounted,
         NEW t \in Threads, pc[t] # "running",
         NEW after \in Where \ {"running"},
         DrainLocked(t, after), UNCHANGED <<enqueued, stop, ran>>,
         owed' \in [Clients -> SUBSET Job]
  PROVE  /\ TypeOK' /\ QueueShape' /\ Held' /\ HeldOnce' /\ RanOnce'
         /\ Accounted'
BY PopFrontKeeps, LeaveKeeps DEF DrainLocked

\* Where a drain step leaves the threads.
LEMMA DrainMoves ==
  ASSUME TypeOK, NEW t \in Threads, NEW after \in Where,
         DrainLocked(t, after)
  PROVE  /\ pc'[t] = "running" \/ (pc'[t] = after /\ q' = <<>>)
         /\ \A s \in Threads \ {t} : pc'[s] = pc[s]
         /\ q = <<>> => q' = <<>>
BY DEF TypeOK, DrainLocked, PopFront, Leave, Where

-----------------------------------------------------------------------------
(* IInv is inductive.                                                       *)

LEMMA InitIInv == Init => IInv
<1> SUFFICES ASSUME Init PROVE IInv
  OBVIOUS
<1> USE ThreadsAssumption, MaxJobsAssumption DEF Init, Threads, NoJob
<1>1. TypeOK
  <2>1. q \in Seq(Job) /\ ran \in Seq(Job)
    <3>1. <<>> \in Seq(Job)
      BY EmptySeq, Zenon
    <3> QED
      BY <3>1, Zenon
  <2>2. enqueued \in 0..MaxJobs
    OBVIOUS
  <2>6. stop \in BOOLEAN
    BY Zenon
  <2>3. job \in [Threads -> Job \cup {NoJob}]
    OBVIOUS
  <2>4. pc \in [Threads -> {"idle", "wait", "running", "relock",
                            "joining", "exited", "gone"}]
    OBVIOUS
  <2>5. owed \in [Clients -> SUBSET Job]
    OBVIOUS
  <2> QED
    BY <2>1, <2>2, <2>3, <2>4, <2>5, <2>6 DEF TypeOK
<1>2. QueueShape /\ Held /\ HeldOnce /\ RanOnce /\ Accounted
  <2>1. Len(q) = 0 /\ Len(ran) = 0
    <3>1. Len(<<>>) = 0
      BY EmptySeq, Zenon
    <3> QED
      BY <3>1, Zenon
  <2>2. enqueued = 0
    OBVIOUS
  <2>3. Popped = 0
    BY ONLY <2>1, <2>2 DEF Popped
  <2>4. \A t \in Threads : job[t] = 0 /\ pc[t] # "running"
    OBVIOUS
  <2> QED
    BY ONLY <2>1, <2>2, <2>3, <2>4
    DEF QueueShape, Held, HeldOnce, RanOnce, Accounted, NoJob
<1>3. Phase
  BY DEF Phase
<1> QED
  BY <1>1, <1>2, <1>3 DEF IInv

LEMMA NextIInv == IInv /\ [Next]_vars => IInv'
<1> SUFFICES ASSUME IInv, [Next]_vars
             PROVE  IInv'
  OBVIOUS
<1> USE ThreadsAssumption, MaxJobsAssumption DEF IInv
<1>1. ASSUME NEW c \in Clients, Enqueue(c)
      PROVE  IInv'
  <2>1. /\ enqueued' = enqueued + 1 /\ enqueued + 1 \in Job
        /\ q' \in Seq(Job) /\ Len(q') = Len(q) + 1
        /\ \A i \in 1..Len(q) : q'[i] = q[i]
        /\ q'[Len(q) + 1] = enqueued + 1
        /\ Len(q) \in Nat
        /\ UNCHANGED <<stop, pc, job, ran, owed>>
    BY <1>1, AppendProperties DEF Enqueue, TypeOK, Job
  <2>2. Popped' = Popped
    BY <2>1 DEF Popped, TypeOK
  <2>3. TypeOK'
    BY <2>1 DEF TypeOK, Job
  <2>4. QueueShape'
    <3>1. /\ Len(q') <= enqueued' /\ enqueued \in Nat
          /\ enqueued + 1 = Popped + (Len(q) + 1)
      BY <2>1 DEF QueueShape, Popped, TypeOK
    <3>2. \A i \in 1..Len(q) : q'[i] = Popped' + i
      BY <2>1, <2>2 DEF QueueShape
    <3>3. q'[Len(q) + 1] = Popped' + (Len(q) + 1)
      BY <2>1, <2>2, <3>1
    <3>4. \A i \in 1..Len(q') : i \in 1..Len(q) \/ i = Len(q) + 1
      BY <2>1
    <3> QED
      BY <3>1, <3>2, <3>3, <3>4 DEF QueueShape
  <2>5. Held' /\ HeldOnce' /\ RanOnce' /\ Accounted'
    BY <2>1, <2>2 DEF Held, HeldOnce, RanOnce, Accounted
  <2>6. Phase'
    BY <1>1, <2>1 DEF Phase, Enqueue
  <2> QED
    BY <2>3, <2>4, <2>5, <2>6
<1>2. ASSUME NEW c \in Flushers, Flush(c)
      PROVE  IInv'
  <2>1. c \in Threads /\ c \in Clients /\ c # Owner /\ c # Worker
    BY DEF Threads
  <2>2. /\ DrainLocked(c, "idle") /\ pc[c] = "idle" /\ pc[Owner] = "idle"
        /\ UNCHANGED <<enqueued, stop, ran>>
    BY <1>2 DEF Flush
  <2>3. owed' \in [Clients -> SUBSET Job]
    BY <1>2, <2>1 DEF Flush, TypeOK, Queued
  <2>4. /\ TypeOK' /\ QueueShape' /\ Held' /\ HeldOnce' /\ RanOnce'
        /\ Accounted'
    BY <2>1, <2>2, <2>3, DrainKeeps DEF Where
  <2>5. Phase'
    BY <2>1, <2>2, DrainMoves DEF Phase, Threads, Where
  <2> QED
    BY <2>4, <2>5
<1>3. ASSUME NEW t \in Threads, RunJob(t)
      PROVE  IInv'
  <2>1. /\ job[t] \in Job /\ job[t] \in 1..Popped
        /\ ran' \in Seq(Job) /\ Len(ran') = Len(ran) + 1
        /\ \A i \in 1..Len(ran) : ran'[i] = ran[i]
        /\ ran'[Len(ran) + 1] = job[t]
        /\ Len(ran) \in Nat
        /\ UNCHANGED <<q, enqueued, stop, owed>>
        /\ pc'[t] = "relock" /\ job'[t] = NoJob
        /\ \A s \in Threads \ {t} : pc'[s] = pc[s] /\ job'[s] = job[s]
    BY <1>3, AppendProperties DEF RunJob, TypeOK, Held, Job, NoJob
  <2>2. Popped' = Popped /\ Popped \in Nat
    BY <2>1 DEF Popped, TypeOK, QueueShape
  <2>3. TypeOK'
    BY <1>3, <2>1 DEF TypeOK, RunJob, NoJob
  <2>4. QueueShape'
    BY <2>1, <2>2 DEF QueueShape
  <2>5. \A s \in Threads \ {t} : job[s] # job[t]
    BY <2>1 DEF HeldOnce, Job, NoJob
  <2>6. Held'
    <3>1. \A i \in 1..Len(ran') : ran'[i] = job[t] \/ \E k \in 1..Len(ran) : ran'[i] = ran[k]
      BY <2>1
    <3>2. \A i \in 1..Len(ran') : ran'[i] \in 1..Popped
      BY <2>1, <3>1 DEF RanOnce
    <3>3. ASSUME NEW s \in Threads
          PROVE  /\ (job'[s] = NoJob) <=> (pc'[s] # "running")
                 /\ job'[s] \in 0..Popped
                 /\ \A i \in 1..Len(ran') : ran'[i] # job'[s]
      <4>1. CASE s = t
        BY <4>1, <2>1, <2>2, <3>2 DEF NoJob
      <4>2. CASE s # t
        BY <4>2, <2>1, <2>5, <3>1 DEF Held
      <4> QED
        BY <4>1, <4>2
    <3> QED
      BY <2>2, <3>3 DEF Held
  <2>7. HeldOnce'
    BY <2>1 DEF HeldOnce, NoJob
  <2>8. RanOnce'
    <3>1. /\ \A i \in 1..Len(ran) : ran'[i] \in 1..Popped
          /\ ran'[Len(ran) + 1] \in 1..Popped
      BY <2>1 DEF RanOnce
    <3>2. \A i \in 1..Len(ran) : ran'[i] # ran'[Len(ran) + 1]
      BY <2>1 DEF Held
    <3>3. \A i, k \in 1..Len(ran) : ran'[i] = ran'[k] => i = k
      BY <2>1 DEF RanOnce
    <3>4. 1..Len(ran') = 1..Len(ran) \cup {Len(ran) + 1}
      BY <2>1
    <3> QED
      BY <2>2, <3>1, <3>2, <3>3, <3>4 DEF RanOnce
  <2>9. Accounted'
    <3> SUFFICES ASSUME NEW j \in 1..Popped
                 PROVE  \/ \E s \in Threads : job'[s] = j
                        \/ \E i \in 1..Len(ran') : ran'[i] = j
      BY <2>2 DEF Accounted
    <3>1. CASE j = job[t]
      BY <3>1, <2>1
    <3>2. CASE \E s \in Threads \ {t} : job[s] = j
      BY <3>2, <2>1
    <3>3. CASE \E i \in 1..Len(ran) : ran[i] = j
      BY <3>3, <2>1
    <3> QED
      BY <3>1, <3>2, <3>3 DEF Accounted
  <2>10. Phase'
    BY <1>3, <2>1 DEF Phase, RunJob, Threads
  <2> QED
    BY <2>3, <2>4, <2>6, <2>7, <2>8, <2>9, <2>10
<1>4. ASSUME NEW t \in Threads, Relock(t)
      PROVE  IInv'
  <2>1. /\ pc[t] = "relock" /\ DrainLocked(t, AfterDrain(t))
        /\ UNCHANGED <<enqueued, stop, ran, owed>>
    BY <1>4 DEF Relock
  <2>2. /\ AfterDrain(t) \in Where \ {"running"}
        /\ t \in Clients => AfterDrain(t) = "idle"
        /\ t = Worker => AfterDrain(t) \in {"wait", "exited"}
        /\ t = Owner => AfterDrain(t) = "gone"
    BY DEF AfterDrain, Where, Threads
  <2>3. /\ TypeOK' /\ QueueShape' /\ Held' /\ HeldOnce' /\ RanOnce'
        /\ Accounted'
    BY <2>1, <2>2, DrainKeeps DEF TypeOK
  <2>4. Phase'
    BY <2>1, <2>2, DrainMoves DEF Phase, Threads, Where
  <2> QED
    BY <2>3, <2>4
<1>5. CASE WorkerWake
  <2>1. /\ pc[Worker] = "wait" /\ DrainLocked(Worker, "exited")
        /\ UNCHANGED <<enqueued, stop, ran, owed>> /\ Worker \in Threads
    BY <1>5 DEF WorkerWake, Threads
  <2>2. /\ TypeOK' /\ QueueShape' /\ Held' /\ HeldOnce' /\ RanOnce'
        /\ Accounted'
    BY <2>1, DrainKeeps DEF TypeOK, Where
  <2>3. Phase'
    BY <2>1, DrainMoves DEF Phase, Threads, Where
  <2> QED
    BY <2>2, <2>3
<1>6. CASE DestroyBegin
  <2>1. TypeOK'
    BY <1>6 DEF DestroyBegin, TypeOK
  <2>2. /\ UNCHANGED <<q, enqueued, job, ran>>
        /\ pc'[Owner] = "joining"
        /\ \A s \in Threads \ {Owner} : pc'[s] = pc[s]
    BY <1>6 DEF DestroyBegin, TypeOK, Threads
  <2>3. QueueShape' /\ HeldOnce' /\ RanOnce' /\ Accounted'
    BY <2>2 DEF QueueShape, HeldOnce, RanOnce, Accounted, Popped
  <2>4. Held'
    BY <1>6, <2>2 DEF Held, Popped, DestroyBegin
  <2>5. Phase'
    BY <1>6, <2>2 DEF Phase, DestroyBegin, Threads
  <2> QED
    BY <2>1, <2>3, <2>4, <2>5
<1>7. CASE DestroyJoined
  <2>1. /\ pc[Owner] = "joining" /\ pc[Worker] = "exited"
        /\ DrainLocked(Owner, "gone")
        /\ UNCHANGED <<enqueued, stop, ran, owed>> /\ Owner \in Threads
    BY <1>7 DEF DestroyJoined, Threads
  <2>2. /\ TypeOK' /\ QueueShape' /\ Held' /\ HeldOnce' /\ RanOnce'
        /\ Accounted'
    BY <2>1, DrainKeeps DEF TypeOK, Where
  <2>3. Phase'
    BY <2>1, DrainMoves DEF Phase, Threads, Where
  <2> QED
    BY <2>2, <2>3
<1>8. CASE UNCHANGED vars
  BY <1>8 DEF vars, TypeOK, QueueShape, Held, HeldOnce, RanOnce, Accounted,
              Phase, Popped
<1> QED
  BY <1>1, <1>2, <1>3, <1>4, <1>5, <1>6, <1>7, <1>8 DEF Next

LEMMA Inductive == Spec => []IInv
BY InitIInv, NextIInv, PTL DEF Spec

-----------------------------------------------------------------------------
(* What follows from it.                                                    *)

\* Every variable of the queue keeps its type.
THEOREM TypeCorrect == Spec => []TypeOK
<1>1. IInv => TypeOK
  BY DEF IInv
<1> QED
  BY <1>1, Inductive, PTL

\* drainLocked loses no job and runs none twice, however many threads are
\* draining the deque at the same time.
THEOREM JobsExactlyOnce == Spec => []ExactlyOnce
<1>1. IInv => ExactlyOnce
  <2> SUFFICES ASSUME IInv PROVE ExactlyOnce
    OBVIOUS
  <2> USE DEF IInv, TypeOK
  <2>1. Popped \in Nat /\ Len(q) \in Nat /\ enqueued = Popped + Len(q)
    BY DEF QueueShape, Popped
  <2>2. Queued = (Popped + 1)..enqueued
    <3>1. ASSUME NEW j \in (Popped + 1)..enqueued
          PROVE  j \in Queued
      <4>1. j - Popped \in 1..Len(q) /\ q[j - Popped] = j
        BY <2>1 DEF QueueShape
      <4> QED
        BY <4>1 DEF Queued
    <3>2. ASSUME NEW i \in 1..Len(q)
          PROVE  q[i] \in (Popped + 1)..enqueued
      BY <2>1 DEF QueueShape
    <3> QED
      BY <3>1, <3>2 DEF Queued
  <2>3. Ran \subseteq 1..Popped
    BY DEF Ran, RanOnce
  <2>4. \A t \in Threads : job[t] \in 0..Popped /\ job[t] \notin Ran
    BY DEF Held, Ran
  <2>5. 1..Popped \subseteq Ran \cup {job[t] : t \in Threads}
    BY DEF Accounted, Ran
  <2>6. \A t \in Threads : job[t] \notin Queued \cup Ran
    BY <2>1, <2>2, <2>4
  <2>7. Queued \cap Ran = {}
    BY <2>1, <2>2, <2>3
  <2>8. 1..enqueued = Queued \cup Ran \cup ({job[t] : t \in Threads} \ {NoJob})
    <3>1. 1..enqueued = Queued \cup 1..Popped
      BY <2>1, <2>2
    <3>2. ASSUME NEW t \in Threads, job[t] # NoJob
          PROVE  job[t] \in 1..Popped
      BY <2>1, <2>4, <3>2 DEF NoJob
    <3>3. NoJob \notin 1..Popped
      BY DEF NoJob
    <3>4. 1..Popped = Ran \cup ({job[t] : t \in Threads} \ {NoJob})
      BY <2>3, <2>5, <3>2, <3>3
    <3> QED
      BY <3>1, <3>4
  <2> QED
    BY <2>6, <2>7, <2>8 DEF ExactlyOnce, RanOnce, HeldOnce
<1> QED
  BY <1>1, Inductive, PTL

LEMMA IInvDrains == IInv => DtorDrains
<1> SUFFICES ASSUME IInv, pc[Owner] = "gone"
             PROVE  q = <<>> /\ Ran = 1..enqueued
  BY DEF DtorDrains
<1> USE DEF IInv
<1>1. q = <<>> /\ Popped = enqueued
  BY DEF Phase, Popped, TypeOK
<1>2. \A t \in Threads : pc[t] # "running"
  BY ThreadsAssumption DEF Phase, Threads
<1>3. \A t \in Threads : job[t] = NoJob
  BY <1>2 DEF Held
<1>4. Ran = 1..enqueued
  BY <1>1, <1>3 DEF Accounted, RanOnce, Ran, NoJob
<1> QED
  BY <1>1, <1>4

\* ~WriteQueue "drains then joins": when it returns, everything has run.
THEOREM DestructorDrains == Spec => []DtorDrains
BY IInvDrains, Inductive, PTL

-----------------------------------------------------------------------------
(* The queue implements the job ledger.                                     *)

LEMMA InitRefines == Init => Ledger!Init
<1> SUFFICES ASSUME Init PROVE Ledger!Init
  OBVIOUS
<1>1. Ran = {}
  <2>1. Len(ran) = 0
    <3>1. Len(<<>>) = 0
      BY EmptySeq, Zenon
    <3> QED
      BY <3>1, Zenon DEF Init
  <2> QED
    BY ONLY <2>1 DEF Ran
<1>2. enqueued = 0 /\ pc[Owner] = "idle"
  BY ThreadsAssumption DEF Init, Threads
<1> QED
  BY <1>1, <1>2 DEF Ledger!Init

\* A step of the drain is invisible, unless it is the owner's last.
LEMMA DrainRefines ==
  ASSUME IInv, IInv', NEW t \in Threads, pc[t] \notin {"running", "gone"},
         NEW after \in Where, t # Owner => after # "gone",
         DrainLocked(t, after), UNCHANGED <<enqueued, ran>>
  PROVE  Ledger!Close \/ UNCHANGED Ledger!vars
<1>1. Ran' = Ran
  BY DEF Ran
<1>2. CASE (pc'[Owner] = "gone") = (pc[Owner] = "gone")
  BY <1>1, <1>2 DEF Ledger!vars
<1>3. CASE pc'[Owner] = "gone" /\ pc[Owner] # "gone"
  <2>1. Ran = 1..enqueued
    <3>1. DtorDrains'
      BY IInvDrains, PTL
    <3> QED
      BY <1>1, <1>3, <3>1 DEF DtorDrains
  <2> QED
    BY <1>1, <1>3, <2>1 DEF Ledger!Close
<1>4. CASE pc'[Owner] # "gone" /\ pc[Owner] = "gone"
  <2>1. Owner \in Threads
    BY DEF Threads
  <2> QED
    BY <1>4, <2>1, DrainMoves DEF IInv
<1> QED
  BY <1>2, <1>3, <1>4

LEMMA StepRefines == IInv /\ IInv' /\ [Next]_vars => [Ledger!Next]_(Ledger!vars)
<1> SUFFICES ASSUME IInv, IInv', [Next]_vars
             PROVE  Ledger!Next \/ UNCHANGED Ledger!vars
  OBVIOUS
<1> USE ThreadsAssumption, MaxJobsAssumption
<1>1. ASSUME NEW c \in Clients, Enqueue(c)
      PROVE  Ledger!Next
  <2>1. Ran' = Ran
    BY <1>1 DEF Enqueue, Ran
  <2>2. Ledger!Submit
    BY <1>1, <2>1 DEF Enqueue, Ledger!Submit
  <2> QED
    BY <2>2 DEF Ledger!Next
<1>2. ASSUME NEW c \in Flushers, Flush(c)
      PROVE  Ledger!Next \/ UNCHANGED Ledger!vars
  <2>1. c \in Threads
    BY DEF Threads
  <2> QED
    BY <1>2, <2>1, DrainRefines DEF Flush, Where, Ledger!Next
<1>3. ASSUME NEW t \in Threads, RunJob(t)
      PROVE  Ledger!Next
  <2>1. /\ job[t] \in 1..enqueued /\ job[t] \in 1..MaxJobs
        /\ job[t] \notin Ran
    BY <1>3 DEF IInv, Held, TypeOK, RunJob, NoJob, Ran, Popped, Job
  <2>2. Ran' = Ran \cup {job[t]}
    <3>1. /\ Len(ran) \in Nat /\ Len(ran') = Len(ran) + 1
          /\ \A i \in 1..Len(ran) : ran'[i] = ran[i]
          /\ ran'[Len(ran) + 1] = job[t]
      BY <1>3, <2>1, AppendProperties DEF RunJob, IInv, TypeOK, Job
    <3> QED
      BY <3>1 DEF Ran
  <2>3. pc[Owner] # "gone" /\ pc'[Owner] # "gone"
    BY <1>3 DEF RunJob, IInv, Phase, Threads, TypeOK
  <2>4. Ledger!Run(job[t])
    BY <1>3, <2>1, <2>2, <2>3 DEF RunJob, Ledger!Run
  <2> QED
    BY <2>1, <2>4 DEF Ledger!Next
<1>4. ASSUME NEW t \in Threads, Relock(t)
      PROVE  Ledger!Next \/ UNCHANGED Ledger!vars
  <2>1. AfterDrain(t) \in Where /\ (t # Owner => AfterDrain(t) # "gone")
    BY DEF AfterDrain, Where
  <2> QED
    BY <1>4, <2>1, DrainRefines DEF Relock, Ledger!Next
<1>5. CASE WorkerWake
  <2>1. Worker \in Threads
    BY DEF Threads
  <2> QED
    BY <1>5, <2>1, DrainRefines DEF WorkerWake, Where, Ledger!Next
<1>6. CASE DestroyBegin
  <2>1. Ran' = Ran /\ enqueued' = enqueued
    BY <1>6 DEF DestroyBegin, Ran
  <2>2. pc[Owner] # "gone" /\ pc'[Owner] # "gone"
    BY <1>6 DEF DestroyBegin, IInv, TypeOK, Threads
  <2> QED
    BY <2>1, <2>2 DEF Ledger!vars
<1>7. CASE DestroyJoined
  <2>1. Owner \in Threads
    BY DEF Threads
  <2> QED
    BY <1>7, <2>1, DrainRefines DEF DestroyJoined, Where, Ledger!Next
<1>8. CASE UNCHANGED vars
  BY <1>8 DEF vars, Ledger!vars, Ran
<1> QED
  BY <1>1, <1>2, <1>3, <1>4, <1>5, <1>6, <1>7, <1>8 DEF Next

\* Whatever the threads do, a user of the queue sees jobs that are submitted,
\* each run once, and a queue that closes with nothing owed.
THEOREM ImplementsLedger == Spec => LedgerSpec
<1>1. Spec => Ledger!Init /\ [][Ledger!Next]_(Ledger!vars)
  BY InitRefines, StepRefines, Inductive, PTL DEF Spec
<1> QED
  BY <1>1 DEF LedgerSpec, Ledger!Spec

-----------------------------------------------------------------------------
(* What a flush finds, and the order without one.                           *)

LEMMA QueuedAreYoungest ==
  ASSUME TypeOK, QueueShape
  PROVE  Popped \in Nat /\ Popped <= enqueued /\ Queued = (Popped + 1)..enqueued
<1>1. Popped \in Nat /\ Len(q) \in Nat /\ enqueued = Popped + Len(q) /\ enqueued \in Nat
  BY DEF TypeOK, QueueShape, Popped
<1>2. ASSUME NEW j \in (Popped + 1)..enqueued PROVE j \in Queued
  <2>1. j - Popped \in 1..Len(q) /\ q[j - Popped] = j
    BY <1>1 DEF QueueShape
  <2> QED
    BY <2>1 DEF Queued
<1>3. ASSUME NEW i \in 1..Len(q) PROVE q[i] \in (Popped + 1)..enqueued
  BY <1>1 DEF QueueShape
<1> QED
  BY <1>1, <1>2, <1>3 DEF Queued

\* A drain step takes from the front or leaves an empty deque.
LEMMA DrainPops ==
  ASSUME TypeOK, QueueShape, NEW t \in Threads, NEW after \in Where,
         DrainLocked(t, after), UNCHANGED enqueued
  PROVE  /\ Popped \in Nat /\ Popped' \in Nat /\ Popped <= Popped' /\ enqueued \in Nat
         /\ pc'[t] # "running" => Popped' = enqueued
         /\ \A s \in Threads \ {t} : pc'[s] = pc[s] /\ job'[s] = job[s]
         /\ job'[t] = job[t] \/ (pc'[t] = "running" /\ job'[t] = Popped + 1)
<1>1. Popped \in Nat /\ Len(q) \in Nat /\ enqueued \in Nat
  BY QueuedAreYoungest DEF TypeOK
<1>2. CASE PopFront(t)
  <2>1. Len(q) > 0 /\ Head(q) = q[1] /\ Len(q') = Len(q) - 1
    BY <1>2, HeadTailProperties DEF PopFront, TypeOK
  <2>2. Head(q) = Popped + 1
    BY <1>1, <2>1 DEF QueueShape
  <2> QED
    BY <1>1, <1>2, <2>1, <2>2 DEF PopFront, TypeOK, Popped
<1>3. CASE Leave(t, after)
  <2>1. Popped = enqueued
    BY <1>1, <1>3 DEF Leave, Popped
  <2> QED
    BY <1>1, <1>3, <2>1 DEF Leave, TypeOK, Popped
<1> QED
  BY <1>2, <1>3 DEF DrainLocked

\* What was found is no longer queued once its flush has returned.
OwedPopped ==
  \A c \in Clients : /\ owed[c] \subseteq 1..enqueued
                     /\ pc[c] = "idle" => owed[c] \subseteq 1..Popped

LEMMA OwedStep ==
  ASSUME IInv, OwedPopped, [Next]_vars
  PROVE  OwedPopped'
<1> USE ThreadsAssumption
<1>0. /\ TypeOK /\ QueueShape /\ Popped \in Nat /\ Popped <= enqueued /\ enqueued \in Nat
      /\ Queued = (Popped + 1)..enqueued /\ owed \in [Clients -> SUBSET Job]
  BY QueuedAreYoungest DEF IInv, TypeOK
<1>1. ASSUME NEW t \in Threads, NEW after \in Where, DrainLocked(t, after),
             UNCHANGED <<enqueued, owed>>, pc[t] # "idle"
      PROVE  OwedPopped'
  <2>1. /\ Popped' \in Nat /\ Popped <= Popped'
        /\ pc'[t] # "running" => Popped' = enqueued
        /\ \A s \in Threads \ {t} : pc'[s] = pc[s]
    BY <1>0, <1>1, DrainPops
  <2>2. ASSUME NEW c \in Clients, pc'[c] = "idle" PROVE owed[c] \subseteq 1..Popped'
    <3>1. CASE c = t
      BY <1>1, <2>1, <2>2, <3>1 DEF OwedPopped
    <3>2. CASE c # t
      <4>1. owed[c] \subseteq 1..Popped
        BY <2>1, <2>2, <3>2 DEF OwedPopped, Threads
      <4>2. 1..Popped \subseteq 1..Popped'
        BY <1>0, <2>1
      <4> QED
        BY <4>1, <4>2
    <3> QED
      BY <3>1, <3>2
  <2> QED
    BY <1>1, <2>2 DEF OwedPopped
<1>2. ASSUME NEW c \in Clients, Enqueue(c) PROVE OwedPopped'
  <2>1. enqueued' = enqueued + 1 /\ Popped' = Popped /\ UNCHANGED <<pc, owed>>
    BY <1>0, <1>2, AppendProperties DEF Enqueue, Popped, TypeOK
  <2>2. 1..enqueued \subseteq 1..enqueued'
    BY <1>0, <2>1
  <2> QED
    BY <2>1, <2>2 DEF OwedPopped
<1>3. ASSUME NEW c \in Flushers, Flush(c) PROVE OwedPopped'
  <2>1. c \in Clients /\ c \in Threads
    BY DEF Threads
  <2>2. /\ DrainLocked(c, "idle") /\ owed' = [owed EXCEPT ![c] = @ \cup Queued]
        /\ UNCHANGED enqueued
    BY <1>3 DEF Flush
  <2>3. /\ Popped' \in Nat /\ Popped <= Popped'
        /\ pc'[c] # "running" => Popped' = enqueued
        /\ \A s \in Threads \ {c} : pc'[s] = pc[s]
    BY <1>0, <2>1, <2>2, DrainPops DEF Where
  <2>4. owed'[c] = owed[c] \cup Queued /\ \A s \in Clients \ {c} : owed'[s] = owed[s]
    BY <1>0, <2>1, <2>2
  <2>5. ASSUME NEW s \in Clients
        PROVE  owed'[s] \subseteq 1..enqueued /\ (pc'[s] = "idle" => owed'[s] \subseteq 1..Popped')
    <3>1. CASE s = c
      <4>1. owed'[c] \subseteq 1..enqueued
        BY <1>0, <2>1, <2>4 DEF OwedPopped
      <4> QED
        BY <2>3, <3>1, <4>1
    <3>2. CASE s # c
      <4>1. owed[s] \subseteq 1..enqueued /\ (pc'[s] = "idle" => owed[s] \subseteq 1..Popped)
        BY <2>3, <3>2 DEF OwedPopped, Threads
      <4>2. 1..Popped \subseteq 1..Popped'
        BY <1>0, <2>3
      <4> QED
        BY <2>4, <3>2, <4>1, <4>2
    <3> QED
      BY <3>1, <3>2
  <2> QED
    BY <2>2, <2>5 DEF OwedPopped
<1>4. ASSUME NEW t \in Threads, RunJob(t) PROVE OwedPopped'
  <2>1. UNCHANGED <<enqueued, q, owed>> /\ \A c \in Clients : pc'[c] = "idle" => pc[c] = "idle"
    BY <1>0, <1>4 DEF RunJob, TypeOK, Threads
  <2> QED
    BY <2>1 DEF OwedPopped, Popped
<1>5. ASSUME NEW t \in Threads, Relock(t) PROVE OwedPopped'
  <2>1. AfterDrain(t) \in Where /\ UNCHANGED <<enqueued, owed>> /\ pc[t] # "idle"
    BY <1>5 DEF AfterDrain, Where, Relock
  <2> QED
    BY <1>1, <1>5, <2>1 DEF Relock
<1>6. CASE WorkerWake
  BY <1>1, <1>6 DEF WorkerWake, Threads, Where
<1>7. CASE DestroyBegin
  <2>1. \A c \in Clients : pc'[c] = pc[c]
    BY <1>0, <1>7 DEF DestroyBegin, TypeOK, Threads
  <2> QED
    BY <1>7, <2>1 DEF DestroyBegin, OwedPopped, Popped
<1>8. CASE DestroyJoined
  BY <1>1, <1>8 DEF DestroyJoined, Threads, Where
<1>9. CASE UNCHANGED vars
  BY <1>9 DEF vars, OwedPopped, Popped
<1> QED
  BY <1>2, <1>3, <1>4, <1>5, <1>6, <1>7, <1>8, <1>9 DEF Next

\* FlushTakesWhatItFound: however many drains race a flush, what it found is off
\* the deque when it returns.
THEOREM FlushEmptiesItsShare == Spec => []FlushTakesWhatItFound
<1>1. Init => OwedPopped
  BY DEF Init, OwedPopped
<1>2. IInv /\ OwedPopped /\ [Next]_vars => OwedPopped'
  BY OwedStep
<1>3. IInv /\ OwedPopped => FlushTakesWhatItFound
  <2> SUFFICES ASSUME IInv, OwedPopped, NEW c \in Clients, pc[c] = "idle"
               PROVE  owed[c] \cap Queued = {}
    BY DEF FlushTakesWhatItFound
  <2>1. Popped \in Nat /\ Queued = (Popped + 1)..enqueued /\ enqueued \in Nat
    BY QueuedAreYoungest DEF IInv, TypeOK
  <2> QED
    BY <2>1 DEF OwedPopped
<1> QED
  BY <1>1, <1>2, <1>3, Inductive, PTL DEF Spec

\* Until a flush finds work only the worker drains, then only the owner: one
\* thread at a time takes jobs from the front and runs them.
InOrder ==
  (\A c \in Clients : owed[c] = {}) =>
    /\ \A c \in Clients : pc[c] = "idle"
    /\ \A i, k \in 1..Len(ran) : i < k => ran[i] < ran[k]
    /\ \A t \in Threads : job[t] # NoJob => \A i \in 1..Len(ran) : ran[i] < job[t]

LEMMA OrderStep ==
  ASSUME IInv, InOrder, [Next]_vars
  PROVE  InOrder'
<1> USE ThreadsAssumption
<1>0. /\ TypeOK /\ QueueShape /\ Held /\ RanOnce /\ Phase
      /\ Popped \in Nat /\ Popped <= enqueued /\ enqueued \in Nat
      /\ Queued = (Popped + 1)..enqueued /\ owed \in [Clients -> SUBSET Job]
      /\ pc \in [Threads -> Where] /\ job \in [Threads -> Job \cup {NoJob}] /\ ran \in Seq(Job)
  BY QueuedAreYoungest DEF IInv, TypeOK, Where
<1>1. ASSUME NEW t \in {Worker, Owner}, NEW after \in Where, DrainLocked(t, after),
             UNCHANGED <<enqueued, owed, ran>>, pc[t] # "running"
      PROVE  InOrder'
  <2> SUFFICES ASSUME \A c \in Clients : owed[c] = {}
               PROVE  /\ \A c \in Clients : pc'[c] = "idle"
                      /\ \A i, k \in 1..Len(ran) : i < k => ran[i] < ran[k]
                      /\ \A s \in Threads : job'[s] # NoJob => \A i \in 1..Len(ran) : ran[i] < job'[s]
    BY <1>1 DEF InOrder
  <2>1. t \in Threads
    BY DEF Threads
  <2>2. /\ \A s \in Threads \ {t} : pc'[s] = pc[s] /\ job'[s] = job[s]
        /\ job'[t] = job[t] \/ job'[t] = Popped + 1
    BY <1>0, <1>1, <2>1, DrainPops
  <2>3. \A i \in 1..Len(ran) : ran[i] < Popped + 1
    BY <1>0 DEF RanOnce
  <2>4. \A c \in Clients : pc'[c] = "idle"
    BY <2>2 DEF InOrder, Threads
  <2> QED
    BY <2>2, <2>3, <2>4 DEF InOrder
<1>2. ASSUME NEW c \in Clients, Enqueue(c) PROVE InOrder'
  BY <1>2 DEF Enqueue, InOrder
<1>3. ASSUME NEW c \in Flushers, Flush(c) PROVE InOrder'
  <2> SUFFICES ASSUME \A s \in Clients : owed'[s] = {} PROVE InOrder'
    BY DEF InOrder
  <2>1. c \in Clients /\ c \in Threads
    BY DEF Threads
  <2>2. owed' = [owed EXCEPT ![c] = @ \cup Queued] /\ DrainLocked(c, "idle") /\ UNCHANGED <<enqueued, ran>>
    BY <1>3 DEF Flush
  <2>3. Queued = {} /\ \A s \in Clients : owed[s] = {}
    BY <1>0, <2>1, <2>2
  <2>4. q = <<>>
    <3>1. Len(q) = 0
      <4>1. Len(q) \in Nat
        BY <1>0 DEF TypeOK
      <4>2. \A i \in 1..Len(q) : q[i] \in Queued
        BY Zenon DEF Queued
      <4> QED
        BY <2>3, <4>1, <4>2
    <3> QED
      BY <1>0, <3>1, EmptySeq DEF TypeOK
  <2>5. pc' = [pc EXCEPT ![c] = "idle"] /\ job' = job
    BY <2>2, <2>4 DEF DrainLocked, PopFront, Leave
  <2> QED
    BY <1>0, <2>1, <2>2, <2>3, <2>5 DEF InOrder, Threads
<1>4. ASSUME NEW t \in Threads, RunJob(t) PROVE InOrder'
  <2> SUFFICES ASSUME \A c \in Clients : owed[c] = {}
               PROVE  /\ \A c \in Clients : pc'[c] = "idle"
                      /\ \A i, k \in 1..Len(ran') : i < k => ran'[i] < ran'[k]
                      /\ \A s \in Threads : job'[s] # NoJob => \A i \in 1..Len(ran') : ran'[i] < job'[s]
    BY <1>4 DEF InOrder, RunJob
  <2>1. /\ pc[t] = "running" /\ ran' = Append(ran, job[t])
        /\ job' = [job EXCEPT ![t] = NoJob] /\ pc' = [pc EXCEPT ![t] = "relock"]
    BY <1>4 DEF RunJob
  <2>2. \A c \in Clients : pc[c] = "idle"
    BY DEF InOrder
  <2>3. \A s \in Threads \ {t} : job[s] = NoJob
    <3>1. ASSUME NEW s \in Threads, s # t PROVE pc[s] # "running"
      BY <1>0, <2>1, <2>2, <3>1 DEF Phase, Threads
    <3> QED
      BY <1>0, <3>1 DEF Held
  <2>4. job[t] # NoJob /\ job[t] \in Job
    BY <1>0, <2>1 DEF Held
  <2>5. /\ Len(ran) \in Nat /\ Len(ran') = Len(ran) + 1 /\ ran'[Len(ran) + 1] = job[t]
        /\ \A i \in 1..Len(ran) : ran'[i] = ran[i]
    BY <1>0, <2>1, <2>4, AppendProperties
  <2>6. ASSUME NEW i \in 1..Len(ran'), NEW k \in 1..Len(ran'), i < k PROVE ran'[i] < ran'[k]
    <3>1. i \in 1..Len(ran) /\ (k \in 1..Len(ran) \/ k = Len(ran) + 1)
      BY <2>5, <2>6
    <3> QED
      BY <2>4, <2>5, <2>6, <3>1 DEF InOrder
  <2> QED
    BY <1>0, <2>1, <2>2, <2>3, <2>6 DEF Threads
<1>5. ASSUME NEW t \in Threads, Relock(t) PROVE InOrder'
  <2>1. CASE t \in Clients
    BY <1>5, <2>1 DEF InOrder, Relock
  <2>2. CASE t \in {Worker, Owner}
    <3>1. /\ DrainLocked(t, AfterDrain(t)) /\ AfterDrain(t) \in Where /\ pc[t] # "running"
          /\ UNCHANGED <<enqueued, owed, ran>>
      BY <1>5 DEF Relock, AfterDrain, Where
    <3> QED
      BY <1>1, <2>2, <3>1
  <2> QED
    BY <2>1, <2>2 DEF Threads
<1>6. CASE WorkerWake
  BY <1>1, <1>6 DEF WorkerWake, Where
<1>7. CASE DestroyBegin
  BY <1>0, <1>7 DEF DestroyBegin, InOrder, Threads
<1>8. CASE DestroyJoined
  BY <1>1, <1>8 DEF DestroyJoined, Where
<1>9. CASE UNCHANGED vars
  BY <1>9 DEF vars, InOrder
<1> QED
  BY <1>2, <1>3, <1>4, <1>5, <1>6, <1>7, <1>8, <1>9 DEF Next

\* JobsRunInFifoOrder: as long as no flush found work, jobs run in the order they
\* were enqueued, through the teardown.
THEOREM FifoWithoutFlush == Spec => []JobsRunInFifoOrder
<1>1. Init => InOrder
  <2>1. Init => Len(ran) = 0
    BY DEF Init
  <2> QED
    BY <2>1, ThreadsAssumption DEF Init, InOrder, NoJob, Threads
<1>2. IInv /\ InOrder /\ [Next]_vars => InOrder'
  BY OrderStep
<1>3. IInv /\ InOrder => JobsRunInFifoOrder
  BY DEF IInv, InOrder, JobsRunInFifoOrder
<1> QED
  BY <1>1, <1>2, <1>3, Inductive, PTL DEF Spec
=============================================================================
