------------------------------ MODULE FileLock ----------------------------
(***************************************************************************)
(* The advisory lock file of core/file_lock, taken by `icmg sync push`:    *)
(* a constructor that polls until a deadline, and a destructor.  A process *)
(* may be killed anywhere, and leaves its file behind.                     *)
(*                                                                         *)
(* Process ids are not reused, and each process locks one resource once.   *)
(* POSIX: a file can be removed while another process has it open, which   *)
(* then writes to a file without a name.                                   *)
(*                                                                         *)
(* The names differ from SchemaOpen's, so that one module can extend both. *)
(***************************************************************************)
EXTENDS Naturals, FiniteSets

CONSTANTS
  Lockers,   \* processes that live
  Ghost,     \* a process that died before
  MaxDeaths, \* bound on the kills
  Absent,    \* there is no lock file
  Empty      \* the file was opened, and nothing is written yet

ASSUME FileLockAssumption ==
  /\ Ghost \notin Lockers
  /\ MaxDeaths \in Nat
  /\ {Absent, Empty} \cap (Lockers \cup {Ghost}) = {} /\ Absent # Empty

VARIABLES
  file,    \* what is at lock_path_
  writers, \* processes whose open stream still writes to that file
  at,      \* where each process is
  deaths   \* kills so far

lockVars == <<file, writers, at, deaths>>

LockPlaces == {"idle", "look", "create", "write", "read", "remove", "wait",
               "held", "release", "gone", "failed", "dead"}

LockTypeOK ==
  /\ file \in Lockers \cup {Ghost, Absent, Empty}
  /\ writers \subseteq Lockers
  /\ at \in [Lockers -> LockPlaces]
  /\ deaths \in 0..MaxDeaths

LockInit ==
  /\ file \in {Absent, Ghost}
  /\ writers = {}
  /\ at = [p \in Lockers |-> "idle"]
  /\ deaths = 0

-----------------------------------------------------------------------------
Move(p, from, to) == at[p] = from /\ at' = [at EXCEPT ![p] = to]

Alone == UNCHANGED <<file, writers, deaths>>

Alive(q) == q \in Lockers /\ at[q] # "dead"

Unlink == file' = Absent /\ writers' = {} /\ UNCHANGED deaths

(* The constructor.                                                        *)

Construct(p) == Move(p, "idle", "look") /\ Alone

Look(p) == Move(p, "look", IF file = Absent THEN "create" ELSE "read") /\ Alone

\* std::ofstream truncates what has come there in between.
Create(p) ==
  /\ Move(p, "create", "write")
  /\ file' = Empty /\ writers' = writers \cup {p}
  /\ UNCHANGED deaths

WritePid(p) ==
  /\ Move(p, "write", "held")
  /\ file' = IF p \in writers THEN p ELSE file
  /\ writers' = writers \ {p}
  /\ UNCHANGED deaths

\* A pid whose process is dead makes the file stale; no pid does not.
Read(p) ==
  /\ Move(p, "read", IF file \in Lockers \cup {Ghost} /\ ~Alive(file) THEN "remove"
                     ELSE IF file = p THEN "held" ELSE "wait")
  /\ Alone

WaitOn(p) == Move(p, "remove", "wait") /\ Alone \* mutant: nothing is removed

RemoveStale(p) == Move(p, "remove", "look") /\ Unlink

Again(p) == Move(p, "wait", "look") /\ Alone

Deadline(p) == Move(p, "wait", "failed") /\ Alone

(* The destructor.                                                         *)

ReleaseNothing(p) == Move(p, "held", "gone") /\ Alone \* mutant: the file stays

ReleaseRead(p) == Move(p, "held", IF file = p THEN "release" ELSE "gone") /\ Alone

Release(p) == Move(p, "release", "gone") /\ Unlink

\* The kernel closes its streams; what they had buffered is lost.
Die(p) ==
  /\ deaths < MaxDeaths
  /\ at[p] \notin {"idle", "gone", "failed", "dead"}
  /\ Move(p, at[p], "dead")
  /\ deaths' = deaths + 1
  /\ writers' = writers \ {p}
  /\ UNCHANGED file

Attempt(p) ==
  \/ Look(p) \/ Create(p) \/ WritePid(p) \/ Read(p) \/ RemoveStale(p)
  \/ Again(p) \/ Deadline(p) \/ ReleaseRead(p) \/ Release(p)

LockNext == \E p \in Lockers : Construct(p) \/ Attempt(p) \/ Die(p)

LockSpec == LockInit /\ [][LockNext]_lockVars

-----------------------------------------------------------------------------
(* Properties.                                                             *)

\* If nobody is killed, the last to leave leaves no lock file, even after two of
\* them have shared it.
NothingLeft ==
  /\ LockTypeOK
  /\ (deaths = 0 /\ \A p \in Lockers : at[p] \in {"idle", "gone", "failed"})
       => file \in {Absent, Ghost}

\* The lock of a process that died before is cleaned up while somebody tries to
\* get it, so that nobody fails for it alone: whoever gives up has met another
\* live process (file_lock.hpp: "Stale lock auto-cleanup").  A process killed
\* between its open and its pid leaves an empty file that is never cleaned up.
StaleCleared ==
  [][\A p \in Lockers : Deadline(p) /\ deaths = 0 =>
       \E q \in Lockers \ {p} : at[q] # "idle"]_lockVars

=============================================================================
