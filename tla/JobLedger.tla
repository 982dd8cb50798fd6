----------------------------- MODULE JobLedger -----------------------------
(***************************************************************************)
(* What a background job queue promises its users, with no threads in it:  *)
(* jobs are numbered in the order they were handed over, each of them runs *)
(* exactly once, in no promised order, and the queue can only be torn down *)
(* once nothing is owed.                                                   *)
(***************************************************************************)
EXTENDS Naturals

CONSTANT MaxJobs \* bound on the number of jobs handed over

VARIABLES
  submitted, \* how many jobs have been handed over: the jobs are 1..submitted
  ran,       \* the jobs that have run
  closed     \* the queue has been torn down

vars == <<submitted, ran, closed>>

TypeOK ==
  /\ submitted \in 0..MaxJobs
  /\ ran \subseteq 1..submitted
  /\ closed \in BOOLEAN

Init ==
  /\ submitted = 0
  /\ ran = {}
  /\ closed = FALSE

Submit ==
  /\ ~closed
  /\ submitted < MaxJobs
  /\ submitted' = submitted + 1
  /\ UNCHANGED <<ran, closed>>

Run(j) ==
  /\ ~closed
  /\ j \in (1..submitted) \ ran
  /\ ran' = ran \cup {j}
  /\ UNCHANGED <<submitted, closed>>

Close ==
  /\ ~closed
  /\ ran = 1..submitted
  /\ closed' = TRUE
  /\ UNCHANGED <<submitted, ran>>

Next == Submit \/ (\E j \in 1..MaxJobs : Run(j)) \/ Close

Spec == Init /\ [][Next]_vars
=============================================================================
