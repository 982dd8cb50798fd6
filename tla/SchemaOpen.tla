----------------------------- MODULE SchemaOpen ---------------------------
(***************************************************************************)
(* Opening a project database: Db::Db repairs a schema whose version lags, *)
(* and ensureProjectDb then runs the migrator.  Any number of icmg         *)
(* processes do so on one file, and each may be killed between two         *)
(* statements.                                                             *)
(*                                                                         *)
(* SQLite is external: one connection holds the write lock at a time, what *)
(* it wrote is seen by others when it commits, and a connection that dies  *)
(* is rolled back.  A process that finds the lock taken waits for it.      *)
(***************************************************************************)
EXTENDS Naturals

CONSTANTS
  Procs,    \* processes
  Ensures,  \* those that call ensureProjectDb; the others just open a Db
  Last,     \* the newest migration of each process's binary
  Additive, \* migrations with ALTER TABLE ADD COLUMN, which fail when repeated
  StartVer, \* user_version of the file at first
  MaxKills, \* bound on the kills
  None

Migs == Nat \ {0}

ASSUME SchemaOpenAssumption ==
  /\ Ensures \subseteq Procs
  /\ Last \in [Procs -> Nat]
  /\ StartVer \in Nat
  /\ MaxKills \in Nat
  /\ None \notin Procs

VARIABLES
  ver,      \* PRAGMA user_version
  applied,  \* the migrations whose script is committed
  lock,     \* the process in a write transaction
  pc,       \* where each process is
  next,     \* the migration it has come to, counted from the version it read
  kills     \* kills so far

vars == <<ver, applied, lock, pc, next, kills>>

Places == {"closed", "repair", "repairing", "stamp", "list", "begin",
           "migrating", "done", "threw"}

TypeOK ==
  /\ ver \in Nat
  /\ applied \subseteq Migs
  /\ lock \in Procs \cup {None}
  /\ pc \in [Procs -> Places]
  /\ next \in [Procs -> Nat]
  /\ kills \in 0..MaxKills

Init ==
  /\ ver = StartVer
  /\ applied = 1..StartVer
  /\ lock = None
  /\ pc = [p \in Procs |-> "closed"]
  /\ next = [p \in Procs |-> 0]
  /\ kills = 0

-----------------------------------------------------------------------------
Goto(p, place) == pc' = [pc EXCEPT ![p] = place]

\* The constructor is done: ensureProjectDb goes on, another caller has its Db.
Constructed(p) == IF p \in Ensures THEN "list" ELSE "done"

\* A script fails when it adds a column that is there.
Fails(m) == m \in Additive /\ m \in applied

(* Db::Db.                                                                 *)

\* Reads the version and leaves a fresh or current file alone.
Open(p) ==
  /\ pc[p] \in {"closed", "done", "threw"}
  /\ next' = [next EXCEPT ![p] = ver + 1]
  /\ Goto(p, IF ver = 0 \/ ver >= Last[p] THEN Constructed(p) ELSE "repair")
  /\ UNCHANGED <<ver, applied, lock, kills>>

RepairRetries(p) == \* mutant: on an error, ROLLBACK and once more
  /\ pc[p] = "repair"
  /\ lock = None
  /\ IF Fails(next[p])
     THEN UNCHANGED <<lock, pc>>
     ELSE /\ lock' = p
          /\ Goto(p, "repairing")
  /\ UNCHANGED <<ver, applied, next, kills>>

\* BEGIN and the script; on an error, ROLLBACK and break.
RepairRun(p) ==
  /\ pc[p] = "repair"
  /\ lock = None
  /\ IF Fails(next[p])
     THEN /\ Goto(p, Constructed(p))
          /\ UNCHANGED lock
     ELSE /\ lock' = p
          /\ Goto(p, "repairing")
  /\ UNCHANGED <<ver, applied, next, kills>>

RepairCommit(p) ==
  /\ pc[p] = "repairing"
  /\ applied' = applied \cup {next[p]}
  /\ lock' = None
  /\ Goto(p, "stamp")
  /\ UNCHANGED <<ver, next, kills>>

\* setUserVersion, a transaction of its own, then the next migration.
RepairStamp(p) ==
  /\ pc[p] = "stamp"
  /\ lock = None
  /\ ver' = next[p]
  /\ next' = [next EXCEPT ![p] = @ + 1]
  /\ Goto(p, IF next[p] >= Last[p] THEN Constructed(p) ELSE "repair")
  /\ UNCHANGED <<applied, lock, kills>>

(* Migrator::runAll, apply and the embedded fallback.                      *)

\* current is read once, before any transaction.
List(p) ==
  /\ pc[p] = "list"
  /\ next' = [next EXCEPT ![p] = ver + 1]
  /\ Goto(p, IF ver >= Last[p] THEN "done" ELSE "begin")
  /\ UNCHANGED <<ver, applied, lock, kills>>

Advance(p) ==
  /\ next' = [next EXCEPT ![p] = @ + 1]
  /\ Goto(p, IF next[p] >= Last[p] THEN "done" ELSE "begin")

\* mutant: a failing script is skipped, not thrown
Swallow(p) == Goto(p, "done") /\ UNCHANGED next

\* ROLLBACK and throw.
Throw(p) == Goto(p, "threw") /\ UNCHANGED next

\* The recheck of v1.67, inside BEGIN IMMEDIATE.
AlreadyDone(p) == ver >= next[p]

Begin(p) ==
  /\ pc[p] = "begin"
  /\ lock = None
  /\ IF AlreadyDone(p)
     THEN Advance(p) /\ UNCHANGED lock
     ELSE IF Fails(next[p])
     THEN Throw(p) /\ UNCHANGED lock
     ELSE /\ lock' = p
          /\ Goto(p, "migrating")
          /\ UNCHANGED next
  /\ UNCHANGED <<ver, applied, kills>>

\* mutant: the version is set to the newest one at the first COMMIT
CommitLast(p) ==
  /\ pc[p] = "migrating"
  /\ applied' = applied \cup {next[p]}
  /\ ver' = Last[p]
  /\ lock' = None
  /\ Advance(p)
  /\ UNCHANGED kills

\* COMMIT: script and version together.
Commit(p) ==
  /\ pc[p] = "migrating"
  /\ applied' = applied \cup {next[p]}
  /\ ver' = next[p]
  /\ lock' = None
  /\ Advance(p)
  /\ UNCHANGED kills

\* The process is killed anywhere: its transaction is rolled back.
Kill(p) ==
  /\ kills < MaxKills
  /\ pc[p] \notin {"closed", "done", "threw"}
  /\ kills' = kills + 1
  /\ lock' = IF lock = p THEN None ELSE lock
  /\ Goto(p, "closed")
  /\ UNCHANGED <<ver, applied, next>>

Step(p) ==
  \/ RepairRun(p) \/ RepairCommit(p) \/ RepairStamp(p)
  \/ List(p) \/ Begin(p) \/ Commit(p)

Next == \E p \in Procs : Open(p) \/ Step(p) \/ Kill(p)

\* A process at work gets on; whether one opens the file again is its affair.
Fairness == \A p \in Procs : WF_vars(Step(p))

Spec == Init /\ [][Next]_vars

FairSpec == Spec /\ Fairness

-----------------------------------------------------------------------------
(* Properties.                                                             *)

\* What user_version claims is in the schema, whoever repairs, migrates or is
\* killed (the order of script and setUserVersion).
VersionNotAhead == 1..ver \subseteq applied

\* When ensureProjectDb returns, the schema is complete for its binary, even if
\* another process has meanwhile set user_version back.
EnsuredIsComplete ==
  /\ TypeOK
  /\ \A p \in Ensures : pc[p] = "done" => 1..Last[p] \subseteq applied

\* A repair never keeps a Db from being opened (Db::Db swallows its errors), a
\* migration ends, and no lock is left behind.
OpensEnd ==
  \A p \in Procs : pc[p] \notin {"closed", "done", "threw"}
                     ~> pc[p] \in {"closed", "done", "threw"}

=============================================================================
