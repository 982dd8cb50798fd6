---------------------------- MODULE ReleaseSwap ----------------------------
(***************************************************************************)
(* `icmg update --apply | --rollback`, the swap every other command makes  *)
(* at its start when an upgrade is pending, and the detached helper that   *)
(* swaps once the update has gone: all of them rename the same four files  *)
(* next to the executable, one file operation a step.                      *)
(*                                                                         *)
(* A path is the sequence of the extensions put behind the installed       *)
(* executable: <<>> is icmg itself, <<"bak">> icmg.bak.  On POSIX a        *)
(* process asks /proc/self/exe where its own image is, which follows the   *)
(* file when it is renamed; on Windows it is told the path it was started  *)
(* by, and a running image can be renamed but not deleted or replaced.     *)
(***************************************************************************)
EXTENDS Integers, Sequences, FiniteSets

CONSTANTS
    Procs,      \* invocations of icmg
    Platforms,  \* the platforms checked, of {"posix", "windows"}
    Installed,  \* the release installed at first
    Releases,   \* releases the server may offer
    MaxKills,   \* bound: processes killed from outside, the helper included
    MaxJams     \* bound: file operations refused because another program has the file

ASSUME ReleaseAssumption ==
    /\ Platforms \subseteq {"posix", "windows"}
    /\ Installed \in Nat \ {0} /\ Releases \subseteq Nat \ {0}
    /\ MaxKills \in Nat /\ MaxJams \in Nat

Torn == 0               \* an empty or partly written file
Gone == <<"deleted">>   \* the path of a process whose image no longer has a name
Icmg == <<>>

VARIABLES
    platform,
    disk,   \* the files that exist, each with the release in it
    flags,  \* paths with a .pending-restart flag
    lock,   \* ~/.icmg/updating.lock exists
    at,     \* where each process is
    cmd,    \* what it was started for
    img,    \* the path of its running image, once it is started
    ver,    \* the release it was built as
    self,   \* the path it took for its own
    rel,    \* the release it installs
    helper, \* per process: the step its detached helper is at
    kills, jams,
    was,    \* history: what was installed when a process began its renames
    mixed   \* history: {"helper"} a pending upgrade was applied while a helper was
            \* armed, {"commands"} swaps overlapped in any other way

files == <<disk, img>>
mine == <<cmd, ver, self, rel>>
swapVars == <<platform, disk, flags, lock, at, cmd, img, ver, self, rel, helper, kills, jams, was, mixed>>

Windows == platform = "windows"
Ended == {"idle", "done"}
Runs(p) == at[p] \notin Ended
Ext(p, e) == Append(self[p], e)
Usable(f) == f \in DOMAIN disk /\ disk[f] # Torn

\* Steps at which a process stages or swaps; the dispatcher's swap among them.
Applying(p) == at[p] \in {"p_remove", "p_old", "p_new", "p_back", "p_flag"}
Swapping(p) == at[p] \notin Ended \cup {"pending", "gate"}
Armed(p) == helper[p] # "none"
Overlaps ==
    {o \in {"helper", "commands"} : \E p, q \in Procs : p # q /\ Swapping(q) /\
        IF o = "helper" THEN Armed(p) /\ Applying(q)
        ELSE Swapping(p) \/ (Armed(p) /\ ~Applying(q))}
Calm == \A p \in Procs : ~Swapping(p) /\ ~Armed(p)

SwapInit ==
    /\ platform \in Platforms
    /\ disk = [f \in {Icmg} |-> Installed] /\ flags = {} /\ lock = FALSE
    /\ at = [p \in Procs |-> "idle"] /\ cmd = [p \in Procs |-> "none"]
    /\ img = [p \in Procs |-> Icmg] /\ self = [p \in Procs |-> Icmg]
    /\ ver = [p \in Procs |-> 0] /\ rel = [p \in Procs |-> 0]
    /\ helper = [p \in Procs |-> "none"]
    /\ kills = 0 /\ jams = 0
    /\ was = [p \in Procs |-> 0] /\ mixed = {}

-----------------------------------------------------------------------------
\* File operations.

Busy(f) == \E q \in Procs : Runs(q) /\ img[q] = f
Without(f) == [g \in DOMAIN disk \ {f} |-> disk[g]]
With(d, f, v) == [g \in DOMAIN d \cup {f} |-> IF g = f THEN v ELSE d[g]]
Held(f) == Windows /\ Busy(f)

\* fs::remove(f, ec): nothing when there is no such file or it is a running image.
Delete(f) ==
    IF f \notin DOMAIN disk \/ Held(f) THEN UNCHANGED files
    ELSE /\ disk' = Without(f)
         /\ img' = [q \in Procs |-> IF img[q] = f THEN Gone ELSE img[q]]

CanRename(f, g) == f \in DOMAIN disk /\ ~Held(g)
Renamed(f, g) ==
    /\ disk' = With(Without(f), g, disk[f])
    /\ img' = [q \in Procs |-> CASE img[q] = f -> g [] img[q] = g -> Gone [] OTHER -> img[q]]

Write(f, v) == disk' = With(disk, f, v) /\ UNCHANGED img

At(p, l) == at[p] = l
Goto(p, l) == at' = [at EXCEPT ![p] = l]
Same == UNCHANGED <<flags, lock, helper, mine, kills>>

\* A rename by p: it goes on at `ok`, or at `failed` when there is no source,
\* the target is a running image or, on Windows, another program has the file.
Rename(p, f, g, ok, failed) ==
    \/ CanRename(f, g) /\ Renamed(f, g) /\ Goto(p, ok) /\ UNCHANGED jams
    \/ ~CanRename(f, g) /\ Goto(p, failed) /\ UNCHANGED <<files, jams>>
    \/ /\ Windows /\ jams < MaxJams /\ jams' = jams + 1
       /\ Goto(p, failed) /\ UNCHANGED files

Remove(p, f, next) == Delete(f) /\ Goto(p, next) /\ UNCHANGED jams

\* selfPath(), and its counterpart in the dispatcher.
SelfPath(p) == IF Windows THEN Icmg ELSE img[p]
Remember(p) == was' = [was EXCEPT ![p] = IF self[p] \in DOMAIN disk THEN disk[self[p]] ELSE 0]

-----------------------------------------------------------------------------
\* Every command: the shell starts what is installed, and the dispatcher first
\* applies a pending upgrade, whatever the updating lock says.

Launch(p) == \E c \in {"apply", "rollback", "other"} :
    /\ At(p, "idle") /\ Usable(Icmg)
    /\ Goto(p, "pending")
    /\ cmd' = [cmd EXCEPT ![p] = c]
    /\ ver' = [ver EXCEPT ![p] = disk[Icmg]]
    /\ img' = [img EXCEPT ![p] = Icmg]
    /\ UNCHANGED <<disk, flags, lock, self, rel, helper, kills, jams, was>>

Pending(p) ==
    /\ At(p, "pending")
    /\ self' = [self EXCEPT ![p] = SelfPath(p)]
    /\ LET me == SelfPath(p) IN
        /\ flags' = IF Append(me, "new") \in DOMAIN disk THEN flags ELSE flags \ {me}
        /\ Goto(p, IF me \in flags' THEN "p_remove" ELSE "gate")
    /\ UNCHANGED <<files, lock, cmd, ver, rel, helper, kills, jams, was>>

\* Mutant: the staged binary is renamed over the installed one.
PendingInPlace(p) ==
    /\ \/ At(p, "p_remove") /\ Remove(p, Ext(p, "bak"), "p_new") /\ UNCHANGED was
       \/ At(p, "p_new") /\ Rename(p, Ext(p, "new"), self[p], "p_flag", "gate") /\ Remember(p)
    /\ Same

PendingStep(p) ==
    /\ \/ At(p, "p_remove") /\ Remove(p, Ext(p, "bak"), "p_old") /\ UNCHANGED was
       \/ At(p, "p_old") /\ Rename(p, self[p], Ext(p, "bak"), "p_new", "gate") /\ Remember(p)
       \/ At(p, "p_new") /\ Rename(p, Ext(p, "new"), self[p], "p_flag", "p_back") /\ UNCHANGED was
       \/ At(p, "p_back") /\ Rename(p, Ext(p, "bak"), self[p], "gate", "gate") /\ UNCHANGED was
    /\ Same

PendingDone(p) ==
    /\ At(p, "p_flag") /\ Goto(p, "gate")
    /\ flags' = flags \ {self[p]}
    /\ UNCHANGED <<files, lock, helper, mine, kills, jams, was>>

\* Any command but `update` is refused while the lock is fresh; what it does
\* when it is not refused is no concern of the files here.
Gate(p) ==
    /\ At(p, "gate") /\ cmd[p] = "other" /\ Goto(p, "done")
    /\ Same /\ UNCHANGED <<files, jams, was>>

\* A lock is fresh for five minutes, longer than any update holds it.
LockExpires ==
    /\ lock /\ \A p \in Procs : ~Swapping(p)
    /\ lock' = FALSE
    /\ UNCHANGED <<files, flags, at, mine, helper, kills, jams, was>>

-----------------------------------------------------------------------------
\* update --apply

\* The server offers something newer than this binary, or the command ends.
Fetch(p) ==
    /\ At(p, "gate") /\ cmd[p] = "apply"
    /\ \/ Goto(p, "done") /\ UNCHANGED <<self, rel>>
       \/ \E r \in Releases :
            /\ r > ver[p] /\ SelfPath(p) # Gone
            /\ self' = [self EXCEPT ![p] = SelfPath(p)]
            /\ rel' = [rel EXCEPT ![p] = r]
            /\ Goto(p, "a_probe")
    /\ UNCHANGED <<files, flags, lock, cmd, ver, helper, kills, jams, was>>

\* Mutant: the archive is extracted straight over the executable.
StageInPlace(p) ==
    /\ \/ At(p, "a_probe") /\ Write(Ext(p, "new"), Torn) /\ Goto(p, "a_probed")
       \/ At(p, "a_probed") /\ Delete(Ext(p, "new")) /\ Goto(p, "a_download")
       \/ At(p, "a_download") /\ UNCHANGED files /\ Goto(p, "done")
       \/ At(p, "a_download") /\ Write(self[p], Torn) /\ Goto(p, "a_extract")
       \/ At(p, "a_extract") /\ Write(self[p], rel[p]) /\ Goto(p, "a_lock")
    /\ Same /\ UNCHANGED <<jams, was>>

\* The write test empties the staging file and removes it; then the download is
\* verified and extracted to it, which may fail and may be a copy.
Stage(p) ==
    /\ \/ At(p, "a_probe") /\ Write(Ext(p, "new"), Torn) /\ Goto(p, "a_probed")
       \/ At(p, "a_probed") /\ Delete(Ext(p, "new")) /\ Goto(p, "a_download")
       \/ At(p, "a_download") /\ UNCHANGED files /\ Goto(p, "done")
       \/ At(p, "a_download") /\ Write(Ext(p, "new"), Torn) /\ Goto(p, "a_extract")
       \/ At(p, "a_extract") /\ Write(Ext(p, "new"), rel[p]) /\ Goto(p, "a_lock")
    /\ Same /\ UNCHANGED <<jams, was>>

\* The updating lock, then, on Windows, every other icmg is terminated.
TakeOver(p) ==
    /\ At(p, "a_lock") /\ lock' = TRUE
    /\ at' = [q \in Procs |-> IF q = p THEN "a_remove"
                               ELSE IF Windows /\ Runs(q) THEN "done" ELSE at[q]]
    /\ UNCHANGED <<files, flags, mine, helper, kills, jams, was>>

\* Mutant: a failed installation does not put the old binary back.
InstallNoRestore(p) ==
    /\ \/ At(p, "a_remove") /\ Remove(p, Ext(p, "bak"), "a_old") /\ UNCHANGED was
       \/ At(p, "a_old") /\ Rename(p, self[p], Ext(p, "bak"), "a_new", "a_arm") /\ Remember(p)
       \/ At(p, "a_new") /\ Rename(p, Ext(p, "new"), self[p], "a_clear", "a_copy") /\ UNCHANGED was
       \/ At(p, "a_back") /\ Goto(p, "a_quit") /\ UNCHANGED <<files, jams, was>>
    /\ Same

Install(p) ==
    /\ \/ At(p, "a_remove") /\ Remove(p, Ext(p, "bak"), "a_old") /\ UNCHANGED was
       \/ At(p, "a_old") /\ Rename(p, self[p], Ext(p, "bak"), "a_new", "a_arm") /\ Remember(p)
       \/ At(p, "a_new") /\ Rename(p, Ext(p, "new"), self[p], "a_clear", "a_copy") /\ UNCHANGED was
       \/ At(p, "a_back") /\ Rename(p, Ext(p, "bak"), self[p], "a_quit", "a_quit") /\ UNCHANGED was
    /\ Same

\* The copy taken when the staged binary cannot be renamed.
Copy(p) ==
    /\ LET from == Ext(p, "new") to == self[p] IN
        \/ /\ At(p, "a_copy") /\ from \in DOMAIN disk /\ ~Busy(to)
           /\ Write(to, Torn) /\ rel' = [rel EXCEPT ![p] = disk[from]] /\ Goto(p, "a_copied")
        \/ /\ At(p, "a_copy") /\ (from \notin DOMAIN disk \/ Busy(to))
           /\ UNCHANGED <<files, rel>> /\ Goto(p, "a_back")
        \/ At(p, "a_copied") /\ Write(to, rel[p]) /\ UNCHANGED rel /\ Goto(p, "a_clear")
        \/ At(p, "a_copied") /\ UNCHANGED <<files, rel>> /\ Goto(p, "a_back")
    /\ UNCHANGED <<flags, lock, helper, cmd, ver, self, kills, jams, was>>

\* The old binary could not be moved away: a helper is spawned to do it once
\* this process has ended, and a flag tells the next command to.
Arm(p) ==
    /\ At(p, "a_arm") /\ Goto(p, "a_flag")
    /\ helper' = [helper EXCEPT ![p] = "wait"] \/ UNCHANGED helper
    /\ UNCHANGED <<files, flags, lock, mine, kills, jams, was>>

Flag(p) ==
    /\ At(p, "a_flag") /\ Goto(p, "a_quit")
    /\ \/ flags' = flags \cup {self[p]} /\ UNCHANGED files
       \/ UNCHANGED flags /\ IF Armed(p) THEN UNCHANGED files ELSE Delete(Ext(p, "new"))
    /\ UNCHANGED <<lock, mine, helper, kills, jams, was>>

Clear(p) ==
    /\ \/ At(p, "a_quit") /\ Goto(p, "done")
       \/ At(p, "a_clear") /\ Goto(p, "a_verify")
    /\ lock' = FALSE
    /\ UNCHANGED <<files, flags, mine, helper, kills, jams, was>>

\* The libraries or the self-test of the new binary fail: move .bak back.
Verify(p) ==
    /\ \/ At(p, "a_verify") /\ (Goto(p, "done") \/ Goto(p, "v_swap")) /\ UNCHANGED <<files, jams>>
       \/ At(p, "v_swap") /\ Rename(p, self[p], Ext(p, "swap"), "v_back", "v_back")
       \/ At(p, "v_back") /\ Rename(p, Ext(p, "bak"), self[p], "v_drop", "done")
       \/ At(p, "v_drop") /\ Remove(p, Ext(p, "swap"), "done")
    /\ Same /\ UNCHANGED was

-----------------------------------------------------------------------------
\* update --rollback

Rollback(p) ==
    /\ \/ /\ At(p, "gate") /\ cmd[p] = "rollback"
          /\ self' = [self EXCEPT ![p] = SelfPath(p)]
          /\ Goto(p, IF Append(SelfPath(p), "bak") \in DOMAIN disk THEN "r_swap" ELSE "done")
          /\ UNCHANGED <<files, jams, was>>
       \/ At(p, "r_swap") /\ Rename(p, self[p], Ext(p, "swap"), "r_back", "done") /\ Remember(p) /\ UNCHANGED self
       \/ At(p, "r_back") /\ Rename(p, Ext(p, "bak"), self[p], "r_keep", "r_undo") /\ UNCHANGED <<self, was>>
       \/ At(p, "r_undo") /\ Rename(p, Ext(p, "swap"), self[p], "done", "done") /\ UNCHANGED <<self, was>>
       \/ At(p, "r_keep") /\ Rename(p, Ext(p, "swap"), Ext(p, "bak"), "done", "done") /\ UNCHANGED <<self, was>>
    /\ UNCHANGED <<flags, lock, helper, cmd, ver, rel, kills>>

-----------------------------------------------------------------------------
\* The helper p spawned: a script that outlives it.  `ren` on Windows, unlike
\* `mv`, refuses a target that exists.

Shell(p, f, g, next) ==
    /\ IF CanRename(f, g) THEN Renamed(f, g) ELSE UNCHANGED files
    /\ helper' = [helper EXCEPT ![p] = next]

Helper(p) ==
    /\ \/ /\ helper[p] = "wait" /\ At(p, "done")
          /\ Delete(Ext(p, "bak"))
          /\ helper' = [helper EXCEPT ![p] = "old"] /\ UNCHANGED flags
       \/ /\ helper[p] = "old" /\ UNCHANGED flags
          /\ IF Windows /\ Ext(p, "bak") \in DOMAIN disk
             THEN helper' = [helper EXCEPT ![p] = "new"] /\ UNCHANGED files
             ELSE Shell(p, self[p], Ext(p, "bak"), "new")
       \/ helper[p] = "new" /\ Shell(p, Ext(p, "new"), self[p], "flag") /\ UNCHANGED flags
       \/ /\ helper[p] = "flag" /\ flags' = flags \ {self[p]}
          /\ helper' = [helper EXCEPT ![p] = "none"] /\ UNCHANGED files
    /\ UNCHANGED <<lock, at, mine, kills, jams, was>>

Kill(p) ==
    /\ kills < MaxKills /\ kills' = kills + 1
    /\ \/ Runs(p) /\ Goto(p, "done") /\ UNCHANGED helper
       \/ Armed(p) /\ helper' = [helper EXCEPT ![p] = "none"] /\ UNCHANGED at
    /\ UNCHANGED <<files, flags, lock, mine, jams, was>>

Finished ==
    /\ \A p \in Procs : at[p] = "done" \/ (at[p] = "idle" /\ ~Usable(Icmg))
    /\ \A p \in Procs : ~Armed(p)
    /\ UNCHANGED swapVars

Step(p) ==
    \/ Launch(p) \/ Pending(p) \/ PendingStep(p) \/ PendingDone(p) \/ Gate(p)
    \/ Fetch(p) \/ Stage(p) \/ TakeOver(p) \/ Install(p) \/ Copy(p) \/ Arm(p) \/ Flag(p)
    \/ Clear(p) \/ Verify(p) \/ Rollback(p) \/ Helper(p) \/ Kill(p)

SwapNext ==
    \/ ((\E p \in Procs : Step(p)) \/ LockExpires) /\ UNCHANGED platform /\ mixed' = mixed \cup Overlaps'
    \/ Finished

SwapSpec == SwapInit /\ [][SwapNext]_swapVars

-----------------------------------------------------------------------------
\* Properties

Versions == Releases \cup {Installed, Torn}

\* Types.
SwapTypeOK ==
    /\ \A f \in DOMAIN disk : disk[f] \in Versions
    /\ lock \in BOOLEAN /\ flags \subseteq {self[p] : p \in Procs} \cup {Icmg}
    /\ kills \in 0..MaxKills /\ jams \in 0..MaxJams
    /\ \A p \in Procs : helper[p] \in {"none", "wait", "old", "new", "flag"}

\* As long as swaps do not overlap, a complete binary is left in one of the
\* places a user is told of: on Windows whatever is killed and whatever file is
\* refused, because the image of the process that renames cannot be deleted; on
\* POSIX if at most one process is killed.  (Two kills can leave a rollback, and
\* then an update by a process whose image has become .bak, each half done.)
SomeBinarySurvives ==
    SwapTypeOK /\ (mixed = {} /\ (Windows \/ kills <= 1) =>
        \E f \in {Icmg, <<"bak">>, <<"new">>, <<"swap">>} : Usable(f))

\* When nothing was killed, no two swaps overlapped and at most one file operation
\* was refused, then between swaps `icmg` can be started and no update has left
\* the updating lock behind.  The one way to be left without it is the automatic
\* rollback whose second rename is refused: it leaves the new binary in .swap.
SettledInstall ==
    Calm /\ kills = 0 /\ jams <= 1 /\ mixed = {} =>
        /\ ~lock
        /\ Usable(Icmg) \/ (jams = 1 /\ Usable(<<"swap">>))

\* A swap that completes alone leaves in .bak what it replaced, for --rollback; a
\* rollback that completes has exchanged the two, and the automatic one brings the
\* old binary back.  What is kept is complete when nothing was killed and at most
\* one file operation was refused before it.
OldBinaryKept ==
    [][\A p \in Procs : mixed' = {} =>
        /\ (at[p] = "p_flag" /\ at'[p] = "gate") \/ (at[p] = "a_clear" /\ at'[p] = "a_verify") =>
             /\ Ext(p, "bak") \in DOMAIN disk /\ disk[Ext(p, "bak")] = was[p]
             /\ kills = 0 /\ jams <= 1 => Usable(Ext(p, "bak"))
        /\ at[p] = "r_keep" /\ at'[p] = "done" /\ Ext(p, "swap") \notin DOMAIN disk' =>
             /\ Ext(p, "bak") \in DOMAIN disk' /\ disk'[Ext(p, "bak")] = was[p]
             /\ kills = 0 /\ jams <= 1 => Usable(self[p])
        /\ at[p] = "v_drop" /\ at'[p] = "done" =>
             self[p] \in DOMAIN disk' /\ disk'[self[p]] = was[p]]_swapVars

\* "User gets automatic apply on the next invocation OR after current process
\* terminates (whichever first)" (update_cmd.cpp:667): after a helper and a
\* command that applied the flag there is an executable, if swaps overlapped in
\* no other way and no automatic rollback was refused.
WhicheverFirst ==
    Calm /\ kills = 0 /\ "commands" \notin mixed => Usable(Icmg) \/ <<"swap">> \in DOMAIN disk
=============================================================================
