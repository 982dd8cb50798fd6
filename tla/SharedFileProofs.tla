-------------------------- MODULE SharedFileProofs ------------------------
(***************************************************************************)
(* Proofs about the two files that icmg processes share without a server:  *)
(* the database they open and repair (SchemaOpen) and the lock file of     *)
(* `icmg sync push` (FileLock), for any processes, binaries and kills.     *)
(*                                                                         *)
(* A version is only set when everything up to it is committed.  That is   *)
(* inductive once it is known that every process at work has all the       *)
(* migrations below the one it has come to behind it, and, between a       *)
(* repair's COMMIT and its setUserVersion, that one too.  The migrations   *)
(* committed only grow, so nobody can take this away from a process that   *)
(* waits, however stale the version it started from.                       *)
(*                                                                         *)
(* As long as nobody is killed, a lock file that names a process names one *)
(* that holds the lock and will look at it again, and an empty one is open *)
(* in a process that will write to it.  A process that is alone therefore  *)
(* finds no file, or the one left by the process that died before.         *)
(***************************************************************************)
EXTENDS SchemaOpen, FileLock, TLAPS

AtWork == {"repair", "repairing", "stamp", "begin", "migrating"}

Types ==
  /\ ver \in Nat
  /\ applied \subseteq Migs
  /\ pc \in [Procs -> Places]
  /\ next \in [Procs -> Nat]

\* A process at work has the migrations below its own behind it.
Behind ==
  \A p \in Procs : pc[p] \in AtWork =>
    next[p] \in Migs /\ \A m \in Migs : m < next[p] => m \in applied

Stamped == \A p \in Procs : pc[p] = "stamp" => next[p] \in applied

NotAhead == \A m \in Migs : m <= ver => m \in applied

Complete ==
  \A p \in Ensures : pc[p] = "done" => \A m \in Migs : m <= Last[p] => m \in applied

IInv == Types /\ Behind /\ Stamped /\ NotAhead /\ Complete

-----------------------------------------------------------------------------
\* The quantified forms are the intervals of the properties.
LEMMA Intervals ==
  ASSUME NEW n \in Nat
  PROVE  (\A m \in Migs : m <= n => m \in applied) <=> 1..n \subseteq applied
BY SMT DEF Migs

\* Initially everything up to the version is there and no process is at work.
LEMMA InitInv == Init => IInv
<1> SUFFICES ASSUME Init PROVE IInv
  OBVIOUS
<1> USE SchemaOpenAssumption DEF Init
<1>1. Types
  BY DEF Types, Migs, Places
<1>2. Behind /\ Stamped /\ Complete
  BY DEF Behind, AtWork, Stamped, Complete
<1>3. NotAhead
  BY DEF NotAhead, Migs
<1> QED
  BY <1>1, <1>2, <1>3 DEF IInv

\* What every step has in common: the process that moves has behind it what its
\* new place demands, the rest is kept because the schema only grows.
LEMMA MoveKeeps ==
  ASSUME IInv, NEW p \in Procs, NEW q \in Places, NEW n \in Nat,
         pc' = [pc EXCEPT ![p] = q],
         next' = [next EXCEPT ![p] = n],
         applied \subseteq applied', applied' \subseteq Migs,
         ver' \in Nat,
         q \in AtWork => n \in Migs /\ \A m \in Migs : m < n => m \in applied',
         q = "stamp" => n \in applied',
         p \in Ensures /\ q = "done" => \A m \in Migs : m <= Last[p] => m \in applied',
         \A m \in Migs : m <= ver' => m \in applied'
  PROVE  IInv'
<1>1. Types'
  BY DEF IInv, Types
<1>2. \A r \in Procs : /\ pc'[r] = IF r = p THEN q ELSE pc[r]
                       /\ next'[r] = IF r = p THEN n ELSE next[r]
  BY DEF IInv, Types
<1>3. Behind'
  BY <1>2 DEF IInv, Behind
<1>4. Stamped'
  BY <1>2 DEF IInv, Stamped
<1>5. NotAhead'
  BY DEF NotAhead
<1>6. Complete'
  BY <1>2, SchemaOpenAssumption DEF IInv, Complete
<1> QED
  BY <1>1, <1>3, <1>4, <1>5, <1>6 DEF IInv

\* A step that leaves the place in the list of migrations alone.
LEMMA StandKeeps ==
  ASSUME IInv, NEW p \in Procs, NEW q \in Places,
         pc' = [pc EXCEPT ![p] = q], UNCHANGED <<next, ver>>,
         applied \subseteq applied', applied' \subseteq Migs,
         q \in AtWork => pc[p] \in AtWork,
         q = "stamp" => next[p] \in applied',
         p \in Ensures => q # "done"
  PROVE  IInv'
<1>1. next' = [next EXCEPT ![p] = next[p]] /\ next[p] \in Nat
  BY DEF IInv, Types
<1>2. q \in AtWork => next[p] \in Migs /\ \A m \in Migs : m < next[p] => m \in applied'
  BY DEF IInv, Behind
<1>3. /\ ver' \in Nat
      /\ \A m \in Migs : m <= ver' => m \in applied'
  BY DEF IInv, Types, NotAhead
<1> QED
  BY <1>1, <1>2, <1>3, MoveKeeps

\* From a version, the next migration is the one after it.
LEMMA FromVersion ==
  ASSUME IInv
  PROVE  /\ ver + 1 \in Migs /\ ver + 1 \in Nat
         /\ \A m \in Migs : m < ver + 1 => m \in applied
         /\ \A n \in Nat : ver >= n => \A m \in Migs : m <= n => m \in applied
BY DEF IInv, Types, NotAhead, Migs

\* Reading the version, on opening and before migrating.
LEMMA OpenKeeps ==
  ASSUME IInv, NEW p \in Procs, Open(p) \/ List(p)
  PROVE  IInv'
<1>1. /\ next' = [next EXCEPT ![p] = ver + 1]
      /\ UNCHANGED <<ver, applied>>
  BY DEF Open, List
<1>2. Last[p] \in Nat
  BY SchemaOpenAssumption
<1>3. PICK r \in Places :
        /\ pc' = [pc EXCEPT ![p] = r]
        /\ r # "stamp"
        /\ p \in Ensures /\ r = "done" => ver >= Last[p]
  BY DEF Open, List, Goto, Constructed, Places
<1>4. p \in Ensures /\ r = "done" => \A m \in Migs : m <= Last[p] => m \in applied
  BY <1>2, <1>3, FromVersion
<1> QED
  BY <1>1, <1>3, <1>4, FromVersion, MoveKeeps DEF IInv, Types, NotAhead

\* A repair runs its script or gives up.
LEMMA RepairRunKeeps ==
  ASSUME IInv, NEW p \in Procs, RepairRun(p)
  PROVE  IInv'
<1>1. PICK q \in Places :
        /\ pc' = [pc EXCEPT ![p] = q]
        /\ q # "stamp" /\ (p \in Ensures => q # "done")
  BY DEF RepairRun, Goto, Constructed, Places
<1>2. pc[p] \in AtWork /\ UNCHANGED <<next, ver, applied>>
  BY DEF RepairRun, AtWork
<1> QED
  BY <1>1, <1>2, StandKeeps DEF IInv, Types

\* A repair has its script in the schema, and the version still to set.
LEMMA RepairCommitKeeps ==
  ASSUME IInv, NEW p \in Procs, RepairCommit(p)
  PROVE  IInv'
<1>1. /\ pc[p] \in AtWork /\ "stamp" \in Places
      /\ pc' = [pc EXCEPT ![p] = "stamp"]
      /\ UNCHANGED <<next, ver>>
      /\ applied' = applied \cup {next[p]}
  BY DEF RepairCommit, Goto, AtWork, Places
<1>2. next[p] \in Migs
  BY <1>1 DEF IInv, Behind
<1>3. applied \subseteq applied' /\ applied' \subseteq Migs /\ next[p] \in applied'
  BY <1>1, <1>2 DEF IInv, Types
<1>4. "stamp" # "done"
  OBVIOUS
<1> QED
  BY <1>1, <1>3, <1>4, StandKeeps

\* What is behind a process that has its next migration committed.
LEMMA Through ==
  ASSUME IInv, NEW p \in Procs, pc[p] \in AtWork, NEW a, applied \subseteq a, next[p] \in a
  PROVE  /\ \A m \in Migs : m <= next[p] => m \in a
         /\ next[p] + 1 \in Migs /\ next[p] + 1 \in Nat /\ next[p] \in Nat
         /\ \A m \in Migs : m < next[p] + 1 => m \in a
BY DEF IInv, Types, Behind, Migs

\* setUserVersion of a repair, for a migration that is committed.
LEMMA RepairStampKeeps ==
  ASSUME IInv, NEW p \in Procs, RepairStamp(p)
  PROVE  IInv'
<1>1. /\ pc[p] \in AtWork
      /\ next' = [next EXCEPT ![p] = next[p] + 1]
      /\ ver' = next[p] /\ applied' = applied
  BY DEF RepairStamp, AtWork
<1>2. next[p] \in applied
  BY DEF RepairStamp, IInv, Stamped
<1>3. PICK q \in Places :
        /\ pc' = [pc EXCEPT ![p] = q]
        /\ q # "stamp" /\ (p \in Ensures => q # "done")
  BY DEF RepairStamp, Goto, Constructed, Places
<1>4. applied \subseteq Migs
  BY DEF IInv, Types
<1> QED
  BY <1>1, <1>2, <1>3, <1>4, Through, MoveKeeps

\* The migrator goes on from a migration that is committed.
LEMMA AdvanceKeeps ==
  ASSUME IInv, NEW p \in Procs, pc[p] \in AtWork, Advance(p),
         applied \subseteq applied', applied' \subseteq Migs,
         \A m \in Migs : m <= next[p] => m \in applied',
         ver' \in Nat, \A m \in Migs : m <= ver' => m \in applied'
  PROVE  IInv'
<1>1. /\ next' = [next EXCEPT ![p] = next[p] + 1]
      /\ next[p] \in Migs
  BY DEF Advance, IInv, Behind
<1>2. PICK q \in Places :
        /\ pc' = [pc EXCEPT ![p] = q]
        /\ q # "stamp" /\ (q = "done" => next[p] >= Last[p])
  BY DEF Advance, Goto, Places
<1>3. Last[p] \in Nat
  BY SchemaOpenAssumption
<1>4. q = "done" => \A m \in Migs : m <= Last[p] => m \in applied'
  BY <1>1, <1>2, <1>3 DEF Migs
<1>5. next[p] + 1 \in Migs /\ next[p] + 1 \in Nat
  BY <1>1 DEF Migs
<1>6. \A m \in Migs : m < next[p] + 1 => m \in applied'
  BY <1>1 DEF Migs
<1> QED
  BY <1>1, <1>2, <1>4, <1>5, <1>6, MoveKeeps

\* The recheck: a version that has passed the migration vouches for it.
LEMMA BeginKeeps ==
  ASSUME IInv, NEW p \in Procs, Begin(p)
  PROVE  IInv'
<1>1. pc[p] \in AtWork /\ UNCHANGED <<ver, applied>>
  BY DEF Begin, AtWork
<1>2. CASE AlreadyDone(p)
  <2>1. Advance(p)
    BY <1>2 DEF Begin
  <2>2. next[p] \in Nat /\ ver >= next[p]
    BY <1>2 DEF AlreadyDone, IInv, Types
  <2>3. ver' \in Nat /\ \A m \in Migs : m <= ver' => m \in applied'
    BY <1>1 DEF IInv, Types, NotAhead
  <2>4. applied \subseteq applied' /\ applied' \subseteq Migs
    BY <1>1 DEF IInv, Types
  <2>5. \A m \in Migs : m <= next[p] => m \in applied'
    BY <1>1, <2>2, FromVersion
  <2> QED
    BY <1>1, <2>1, <2>3, <2>4, <2>5, AdvanceKeeps
<1>3. CASE ~AlreadyDone(p)
  <2>1. PICK q \in Places :
          pc' = [pc EXCEPT ![p] = q] /\ q # "stamp" /\ q # "done" /\ UNCHANGED next
    BY <1>3 DEF Begin, Throw, Goto, Places
  <2> QED
    BY <1>1, <2>1, StandKeeps DEF IInv, Types
<1> QED
  BY <1>2, <1>3

\* Script and version of a migration, in one transaction.
LEMMA CommitKeeps ==
  ASSUME IInv, NEW p \in Procs, Commit(p)
  PROVE  IInv'
<1>1. /\ pc[p] \in AtWork /\ Advance(p)
      /\ ver' = next[p] /\ applied' = applied \cup {next[p]}
  BY DEF Commit, AtWork
<1>2. next[p] \in Migs
  BY <1>1 DEF IInv, Behind
<1>3. applied \subseteq applied' /\ applied' \subseteq Migs /\ next[p] \in applied'
  BY <1>1, <1>2 DEF IInv, Types
<1>4. /\ \A m \in Migs : m <= next[p] => m \in applied'
      /\ next[p] \in Nat
  BY <1>1, <1>3, Through
<1> QED
  BY <1>1, <1>3, <1>4, AdvanceKeeps

\* A process that is killed has nothing behind it to answer for.
LEMMA KillKeeps ==
  ASSUME IInv, NEW p \in Procs, Kill(p)
  PROVE  IInv'
<1>1. "closed" \in Places \ (AtWork \cup {"stamp", "done"})
  BY DEF Places, AtWork
<1>2. pc' = [pc EXCEPT ![p] = "closed"] /\ UNCHANGED <<next, ver, applied>>
  BY DEF Kill, Goto
<1> QED
  BY <1>1, <1>2, StandKeeps DEF IInv, Types

\* Nothing happens.
LEMMA StutterKeeps ==
  ASSUME IInv, UNCHANGED vars
  PROVE  IInv'
BY DEF IInv, vars, Types, Behind, Stamped, NotAhead, Complete

\* Every step keeps the invariant.
LEMMA NextKeeps ==
  ASSUME IInv, [Next]_vars
  PROVE  IInv'
<1>1. CASE UNCHANGED vars
  BY <1>1, StutterKeeps
<1>2. ASSUME NEW p \in Procs, Open(p) \/ List(p) PROVE IInv'
  BY <1>2, OpenKeeps
<1>3. ASSUME NEW p \in Procs, RepairRun(p) PROVE IInv'
  BY <1>3, RepairRunKeeps
<1>4. ASSUME NEW p \in Procs, RepairCommit(p) PROVE IInv'
  BY <1>4, RepairCommitKeeps
<1>5. ASSUME NEW p \in Procs, RepairStamp(p) PROVE IInv'
  BY <1>5, RepairStampKeeps
<1>6. ASSUME NEW p \in Procs, Begin(p) PROVE IInv'
  BY <1>6, BeginKeeps
<1>7. ASSUME NEW p \in Procs, Commit(p) PROVE IInv'
  BY <1>7, CommitKeeps
<1>8. ASSUME NEW p \in Procs, Kill(p) PROVE IInv'
  BY <1>8, KillKeeps
<1> QED
  BY <1>1, <1>2, <1>3, <1>4, <1>5, <1>6, <1>7, <1>8 DEF Next, Step

\* The invariant holds throughout every behaviour of the openings.
THEOREM Invariance == Spec => []IInv
<1>1. Init => IInv
  BY InitInv
<1>2. IInv /\ [Next]_vars => IInv'
  BY NextKeeps
<1> QED
  BY <1>1, <1>2, PTL DEF Spec

-----------------------------------------------------------------------------
\* The version a file shows is covered by its schema, however many processes
\* repair and migrate it and wherever they are killed (Db::Db, Migrator::runAll).
THEOREM VersionTheorem == Spec => []VersionNotAhead
<1>1. IInv => VersionNotAhead
  BY Intervals DEF IInv, Types, NotAhead, VersionNotAhead
<1> QED
  BY <1>1, Invariance, PTL

\* The write lock is one process's or nobody's, and the kills stay in their bound.
Bounded == lock \in Procs \cup {None} /\ kills \in 0..MaxKills

\* Every variable keeps its type, the lock being taken and left by BEGIN, COMMIT
\* and the death of its holder (Db::Db, Migrator::apply).
THEOREM TypeCorrect == Spec => []TypeOK
<1>1. Init => Bounded
  BY SchemaOpenAssumption DEF Init, Bounded
<1>2. ASSUME Bounded, [Next]_vars PROVE Bounded'
  <2>1. CASE UNCHANGED vars
    BY <1>2, <2>1 DEF vars, Bounded
  <2>2. ASSUME NEW p \in Procs, Open(p) \/ List(p) \/ RepairStamp(p) PROVE Bounded'
    BY <1>2, <2>2 DEF Open, List, RepairStamp, Bounded
  <2>3. ASSUME NEW p \in Procs, RepairRun(p) \/ Begin(p) PROVE Bounded'
    BY <1>2, <2>3 DEF RepairRun, Begin, Bounded
  <2>4. ASSUME NEW p \in Procs, RepairCommit(p) \/ Commit(p) PROVE Bounded'
    BY <1>2, <2>4 DEF RepairCommit, Commit, Bounded
  <2>5. ASSUME NEW p \in Procs, Kill(p) PROVE Bounded'
    BY <1>2, <2>5, SchemaOpenAssumption DEF Kill, Bounded
  <2> QED
    BY <1>2, <2>1, <2>2, <2>3, <2>4, <2>5 DEF Next, Step
<1>3. IInv /\ Bounded => TypeOK
  BY DEF IInv, Types, Bounded, TypeOK
<1> QED
  BY <1>1, <1>2, <1>3, Invariance, PTL DEF Spec

\* A process whose ensureProjectDb has returned finds every migration its binary
\* knows in the schema, although others may have set user_version back.
THEOREM CompleteTheorem == Spec => []EnsuredIsComplete
<1>1. ASSUME NEW p \in Ensures PROVE Last[p] \in Nat
  BY SchemaOpenAssumption
<1>2. IInv /\ TypeOK => EnsuredIsComplete
  BY <1>1, Intervals DEF IInv, Complete, EnsuredIsComplete
<1> QED
  BY <1>2, Invariance, TypeCorrect, PTL

-----------------------------------------------------------------------------
(* The lock file.                                                          *)

\* Who still writes is about to; who is named will release.
Answered ==
  /\ \A q \in writers : at[q] = "write"
  /\ file = Empty => writers # {}
  /\ file \in Lockers => at[file] \in {"held", "release"}

Apart(p) == \A q \in Lockers \ {p} : at[q] = "idle"

\* A process that nobody else has met finds its way by the ghost's file alone.
Undisturbed ==
  \A p \in Lockers : Apart(p) =>
    /\ at[p] \in {"read", "remove"} => file = Ghost
    /\ at[p] # "wait"

LockInv == LockTypeOK /\ (deaths = 0 => Answered /\ Undisturbed)

-----------------------------------------------------------------------------
\* Initially there is no file, or the ghost's.
LEMMA LockInitInv == LockInit => LockInv
BY FileLockAssumption
   DEF LockInit, LockInv, LockTypeOK, LockPlaces, Answered, Undisturbed, Apart

\* What every step keeps of the types.
LEMMA LockTypeKept ==
  ASSUME LockTypeOK, [LockNext]_lockVars
  PROVE  LockTypeOK'
<1> USE FileLockAssumption DEF LockTypeOK, LockPlaces
<1>1. CASE UNCHANGED lockVars
  BY <1>1 DEF lockVars
<1>2. ASSUME NEW p \in Lockers, Construct(p) \/ Look(p) \/ Read(p) \/ Again(p) \/ Deadline(p)
      PROVE  LockTypeOK'
  BY <1>2 DEF Construct, Look, Read, Again, Deadline, Move, Alone
<1>3. ASSUME NEW p \in Lockers, Create(p) \/ WritePid(p) PROVE LockTypeOK'
  BY <1>3 DEF Create, WritePid, Move
<1>4. ASSUME NEW p \in Lockers, RemoveStale(p) \/ Release(p) PROVE LockTypeOK'
  BY <1>4 DEF RemoveStale, Release, Move, Unlink
<1>5. ASSUME NEW p \in Lockers, ReleaseRead(p) PROVE LockTypeOK'
  BY <1>5 DEF ReleaseRead, Move, Alone
<1>6. ASSUME NEW p \in Lockers, Die(p) PROVE LockTypeOK'
  BY <1>6 DEF Die, Move
<1> QED
  BY <1>1, <1>2, <1>3, <1>4, <1>5, <1>6 DEF LockNext, Attempt

\* A step is one process's: the others stay where they are, and it is not idle
\* after it, so that nobody else is alone any more.
LEMMA LockMoves ==
  ASSUME LockTypeOK, NEW p \in Lockers, NEW from \in LockPlaces, NEW to \in LockPlaces \ {"idle"},
         Move(p, from, to)
  PROVE  /\ at[p] = from /\ at'[p] = to
         /\ \A q \in Lockers \ {p} : at'[q] = at[q]
         /\ \A q \in Lockers \ {p} : ~Apart(q)'
         /\ Apart(p)' <=> Apart(p)
BY DEF LockTypeOK, Move, Apart

\* The steps that leave the file alone and end neither in a wait nor at a read
\* or removal, and are not taken by a process that writes or holds.
LEMMA LockQuietKeeps ==
  ASSUME LockInv, deaths = 0, NEW p \in Lockers, NEW from \in LockPlaces,
         NEW to \in LockPlaces \ {"idle"},
         Move(p, from, to), UNCHANGED <<file, writers, deaths>>,
         from \notin {"write", "release"},
         from = "held" => to = "release" \/ file # p,
         to \in {"read", "remove"} /\ Apart(p) => file = Ghost,
         to = "wait" => ~Apart(p)
  PROVE  Answered' /\ Undisturbed'
<1>1. /\ at[p] = from /\ at'[p] = to
      /\ \A q \in Lockers \ {p} : at'[q] = at[q]
      /\ \A q \in Lockers \ {p} : ~Apart(q)'
      /\ Apart(p)' <=> Apart(p)
  BY LockMoves DEF LockInv
<1>2. Answered'
  BY <1>1 DEF LockInv, Answered, LockTypeOK
<1>3. Undisturbed'
  BY <1>1 DEF Undisturbed
<1> QED
  BY <1>2, <1>3

\* Whoever is alone and does not hold the lock finds no file, or the ghost's.
LEMMA LockAloneSees ==
  ASSUME LockInv, deaths = 0, NEW p \in Lockers, Apart(p),
         at[p] \notin {"write", "held", "release"}
  PROVE  file \in {Absent, Ghost}
<1>1. writers = {}
  BY DEF LockInv, Answered, LockTypeOK, Apart
<1>2. file \notin Lockers
  BY DEF LockInv, Answered, Apart
<1> QED
  BY <1>1, <1>2 DEF LockInv, Answered, LockTypeOK

\* The steps of one process keep both, while nobody is killed.
LEMMA LockStepKeeps ==
  ASSUME LockInv, deaths = 0, NEW p \in Lockers, Construct(p) \/ Attempt(p)
  PROVE  Answered' /\ Undisturbed'
<1> USE FileLockAssumption
<1> DEFINE Moved(from, to) ==
  /\ at[p] = from /\ at'[p] = to
  /\ \A q \in Lockers \ {p} : at'[q] = at[q]
  /\ \A q \in Lockers \ {p} : ~Apart(q)'
  /\ Apart(p)' <=> Apart(p)
<1>0. LockTypeOK /\ Answered /\ Undisturbed
  BY DEF LockInv
<1>1. CASE Construct(p)
  BY <1>1, LockQuietKeeps DEF Construct, Alone, LockPlaces
<1>2. CASE Look(p)
  <2>1. at[p] = "look"
    BY <1>2 DEF Look, Move
  <2>2. Apart(p) /\ file # Absent => file = Ghost
    BY <2>1, LockAloneSees
  <2>3. CASE file = Absent
    BY <1>2, <2>3, LockQuietKeeps DEF Look, Alone, LockPlaces
  <2>4. CASE file # Absent
    BY <1>2, <2>2, <2>4, LockQuietKeeps DEF Look, Alone, LockPlaces
  <2> QED
    BY <2>3, <2>4
<1>3. CASE Create(p)
  <2>1. Moved("create", "write")
    BY <1>0, <1>3, LockMoves DEF Create, LockPlaces
  <2>2. file' = Empty /\ writers' = writers \cup {p}
    BY <1>3 DEF Create
  <2>3. Answered'
    BY <1>0, <2>1, <2>2 DEF Answered, LockTypeOK
  <2>4. Undisturbed'
    BY <2>1 DEF Undisturbed
  <2> QED
    BY <2>3, <2>4
<1>4. CASE WritePid(p)
  <2>1. Moved("write", "held")
    BY <1>0, <1>4, LockMoves DEF WritePid, LockPlaces
  <2>2. file' = (IF p \in writers THEN p ELSE file) /\ writers' = writers \ {p}
    BY <1>4 DEF WritePid
  <2>3. Answered'
    BY <1>0, <2>1, <2>2 DEF Answered, LockTypeOK
  <2>4. Undisturbed'
    BY <2>1 DEF Undisturbed
  <2> QED
    BY <2>3, <2>4
<1>5. CASE Read(p)
  <2>1. at[p] = "read" /\ (Apart(p) => file = Ghost)
    BY <1>0, <1>5 DEF Read, Move, Undisturbed
  <2>2. file \in Lockers => Alive(file) /\ file # p
    BY <1>0, <2>1 DEF Answered, Alive
  <2>3. CASE file = Ghost
    BY <1>5, <2>1, <2>3, LockQuietKeeps DEF Read, Alone, LockPlaces, Alive
  <2>4. CASE file # Ghost
    BY <1>5, <2>1, <2>2, <2>4, LockQuietKeeps DEF Read, Alone, LockPlaces
  <2> QED
    BY <2>3, <2>4
<1>6. CASE RemoveStale(p)
  <2>1. Moved("remove", "look")
    BY <1>0, <1>6, LockMoves DEF RemoveStale, LockPlaces
  <2>2. file' = Absent /\ writers' = {}
    BY <1>6 DEF RemoveStale, Unlink
  <2>3. Answered'
    BY <2>2 DEF Answered
  <2>4. Undisturbed'
    BY <2>1 DEF Undisturbed
  <2> QED
    BY <2>3, <2>4
<1>7. CASE Again(p)
  BY <1>7, LockQuietKeeps DEF Again, Alone, LockPlaces
<1>8. CASE Deadline(p)
  BY <1>8, LockQuietKeeps DEF Deadline, Alone, LockPlaces
<1>9. CASE ReleaseRead(p)
  <2>1. CASE file = p
    BY <1>9, <2>1, LockQuietKeeps DEF ReleaseRead, Alone, LockPlaces
  <2>2. CASE file # p
    BY <1>9, <2>2, LockQuietKeeps DEF ReleaseRead, Alone, LockPlaces
  <2> QED
    BY <2>1, <2>2
<1>10. CASE Release(p)
  <2>1. Moved("release", "gone")
    BY <1>0, <1>10, LockMoves DEF Release, LockPlaces
  <2>2. file' = Absent /\ writers' = {}
    BY <1>10 DEF Release, Unlink
  <2>3. Answered'
    BY <2>2 DEF Answered
  <2>4. Undisturbed'
    BY <2>1 DEF Undisturbed
  <2> QED
    BY <2>3, <2>4
<1> QED
  BY <1>1, <1>2, <1>3, <1>4, <1>5, <1>6, <1>7, <1>8, <1>9, <1>10 DEF Attempt

\* Kills only add up.
LEMMA LockNextKeeps ==
  ASSUME LockInv, [LockNext]_lockVars
  PROVE  LockInv'
<1>1. LockTypeOK'
  BY LockTypeKept DEF LockInv
<1>2. CASE UNCHANGED lockVars
  BY <1>2, <1>1 DEF LockInv, lockVars, Answered, Undisturbed, Apart
<1>3. ASSUME NEW p \in Lockers, Construct(p) \/ Attempt(p) PROVE LockInv'
  <2>1. UNCHANGED deaths
    BY <1>3 DEF Construct, Attempt, Look, Create, WritePid, Read, RemoveStale, Again,
                Deadline, ReleaseRead, Release, Unlink, Alone
  <2> QED
    BY <1>1, <1>3, <2>1, LockStepKeeps DEF LockInv
<1>4. ASSUME NEW p \in Lockers, Die(p) PROVE LockInv'
  <2>1. deaths' # 0
    BY <1>4 DEF Die, LockInv, LockTypeOK
  <2> QED
    BY <1>1, <2>1 DEF LockInv
<1> QED
  BY <1>2, <1>3, <1>4 DEF LockNext

\* The invariant holds throughout every use of the lock.
THEOREM LockInvariance == LockSpec => []LockInv
<1>1. LockInit => LockInv
  BY LockInitInv
<1>2. LockInv /\ [LockNext]_lockVars => LockInv'
  BY LockNextKeeps
<1> QED
  BY <1>1, <1>2, PTL DEF LockSpec

-----------------------------------------------------------------------------
\* Unless somebody was killed, the last to leave leaves no lock file, even if
\* two of them have shared it (FileLock's destructor).
THEOREM NothingIsLeft == LockSpec => []NothingLeft
<1>1. LockInv => NothingLeft
  BY DEF LockInv, LockTypeOK, Answered, NothingLeft
<1> QED
  BY <1>1, LockInvariance, PTL

\* The file of a dead process is cleaned up by those who want the lock: whoever
\* gives up at the deadline has met another live process (FileLock's constructor).
THEOREM StaleIsCleared == LockSpec => StaleCleared
<1>1. LockInv /\ [LockNext]_lockVars =>
        [\A p \in Lockers : Deadline(p) /\ deaths = 0 =>
           \E q \in Lockers \ {p} : at[q] # "idle"]_lockVars
  <2> SUFFICES ASSUME LockInv, NEW p \in Lockers, Deadline(p), deaths = 0
               PROVE  \E q \in Lockers \ {p} : at[q] # "idle"
    OBVIOUS
  <2>1. at[p] = "wait"
    BY DEF Deadline, Move
  <2>2. ~Apart(p)
    BY <2>1 DEF LockInv, Undisturbed
  <2> QED
    BY <2>2 DEF Apart
<1> QED
  BY <1>1, LockInvariance, PTL DEF LockSpec, StaleCleared
=============================================================================
