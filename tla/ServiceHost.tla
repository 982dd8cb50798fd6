---------------------------- MODULE ServiceHost ---------------------------
(***************************************************************************)
(* icmg-service: one process whose main thread fires due cron chores       *)
(* (service_loop), whose exec server runs command lines sent by clients on *)
(* a thread each (exec_server), and whose embedded rule daemon has a       *)
(* maintenance thread that drains the same cron table.  They share the     *)
(* process's current directory.                                            *)
(*                                                                         *)
(* The hourly tasks of tickOnce, which run one after the other before the  *)
(* chores and touch none of this, are left out.                            *)
(***************************************************************************)
EXTENDS Naturals, FiniteSets

CONSTANTS
  Jobs,       \* rows of cron_jobs
  ProjectOf,  \* the project of each job
  Dirs,       \* directories that exist
  Closed,     \* those the process may not enter
  Home,       \* the directory the service was started in
  Rejected,   \* jobs whose chore has characters runMaintenance refuses
  Conns,      \* connections to the exec server, a worker thread each
  Asked,      \* directories clients ask for
  MaxWorkers, \* kMaxWorkers
  Every,      \* every_min, in ticks of the clock
  MaxTime,    \* bound on the clock
  MaxFails,   \* bound on the times markRan throws
  None

ASSUME ServiceHostAssumption ==
  /\ Home \in Dirs \ Closed
  /\ MaxFails \in Nat /\ MaxWorkers \in Nat
  /\ MaxTime \in Nat /\ Every \in 1..MaxTime
  /\ None \notin Jobs \cup Dirs \cup Asked \cup Conns

VARIABLES
  cwd,      \* the process's current directory
  now,      \* the clock
  rows,     \* cron_jobs: the jobs still there
  lastRun,  \* cron_jobs.last_run
  stop,     \* g_stop
  tick,     \* tickOnce: where it is, its `now`, `due`, job and saved_cwd
  maint,    \* runMaintenance: the same, without a saved directory; off if
            \* another process has the daemon's lock
  fails,    \* how often markRan has thrown
  listening, \* the accept loop has not seen g_stop
  pc,       \* where the worker of each connection is
  asked,    \* the request's cwd
  saved,    \* the worker's saved_cwd
  active,   \* g_active_workers
  mutex,    \* g_chdir_mu
  fired     \* history: how often a job was started by a given last_run, up to 2

cronVars == <<rows, lastRun, tick, maint, fails, fired>>
execVars == <<listening, pc, asked, saved, active, mutex>>
vars == <<cwd, now, stop, cronVars, execVars>>

Runner == [at : {"sleep", "pick", "enter", "run", "restore", "mark", "exited", "off"},
           now : 0..MaxTime, due : SUBSET (Jobs \X (0..MaxTime)),
           job : Jobs \cup {None}, saved : Dirs \cup {None}]

Asleep == [at |-> "sleep", now |-> 0, due |-> {}, job |-> None, saved |-> None]

\* The workers between their chdir and its undoing.
Inside == {c \in Conns : pc[c] \in {"chdir", "exec", "restore"}}

\* g_active_workers counts the workers: what leaked would be missing from the
\* pool for good.
TypeOK ==
  /\ cwd \in Dirs
  /\ now \in 0..MaxTime
  /\ rows \subseteq Jobs
  /\ lastRun \in [Jobs -> 0..MaxTime]
  /\ stop \in BOOLEAN
  /\ tick \in Runner /\ maint \in Runner
  /\ listening \in BOOLEAN
  /\ pc \in [Conns -> {"none", "started", "reading", "lock", "chdir", "exec",
                       "restore", "ending", "gone", "refused"}]
  /\ asked \in [Conns -> Asked \cup {None}]
  /\ saved \in [Conns -> Dirs \cup {None}]
  /\ active = Cardinality({c \in Conns : pc[c] \in {"reading", "lock", "ending"}} \cup Inside)
  /\ mutex \in Conns \cup {None}
  /\ fails \in 0..MaxFails
  /\ fired \in [Jobs \X (0..MaxTime) -> 0..2]

Init ==
  /\ cwd = Home
  /\ now = Every \* every job, never run, is due
  /\ rows \in SUBSET Jobs
  /\ lastRun = [j \in Jobs |-> 0]
  /\ stop = FALSE
  /\ tick = Asleep
  /\ maint \in {Asleep, [Asleep EXCEPT !.at = "off"]}
  /\ fails = 0
  /\ listening \in BOOLEAN \* bind may fail
  /\ pc = [c \in Conns |-> "none"]
  /\ asked = [c \in Conns |-> None]
  /\ saved = [c \in Conns |-> None]
  /\ active = 0
  /\ mutex = None
  /\ fired = [e \in Jobs \X (0..MaxTime) |-> 0]

-----------------------------------------------------------------------------
(* Cron: what tickOnce and runMaintenance share.                           *)

\* mutant: > for >=
LateDue == {<<j, lastRun[j]>> : j \in {j \in rows : now - lastRun[j] > Every}}

\* dueJobs.  Reading the rows does not claim them.
Due == {<<j, lastRun[j]>> : j \in {j \in rows : now - lastRun[j] >= Every}}

Woken(r) == [r EXCEPT !.at = "pick", !.now = now, !.due = Due]

Enterable(d) == d \in Dirs \ Closed

SkippingMark(r) == UNCHANGED lastRun \* mutant: a chore that ran is not marked

\* markRan, with the time the due jobs were read at.
MarkRan(r) == lastRun' = [lastRun EXCEPT ![r.job] = r.now]

\* A chore starts: e is the job and the last_run it was due by.
Start(e) == fired' = [fired EXCEPT ![e] = IF @ < 2 THEN @ + 1 ELSE @]

Current(r) == CHOOSE e \in r.due : e[1] = r.job

NextJob(r) == [r EXCEPT !.at = "pick", !.due = {e \in @ : e[1] # r.job},
                        !.job = None, !.saved = None]

(* tickOnce.                                                               *)

TickWake ==
  /\ tick.at = "sleep" /\ ~stop
  /\ tick' = Woken(tick)
  /\ UNCHANGED <<cwd, now, rows, lastRun, stop, maint, fails, fired>> /\ UNCHANGED execVars

TickDone ==
  /\ tick.at = "pick"
  /\ tick.due = {} \/ stop
  /\ tick' = Asleep
  /\ UNCHANGED <<cwd, now, rows, lastRun, stop, maint, fails, fired>> /\ UNCHANGED execVars

\* A project that is gone takes its rows with it.
TickPrune ==
  /\ tick.at = "pick" /\ ~stop
  /\ \E e \in tick.due :
       /\ ProjectOf[e[1]] \notin Dirs
       /\ rows' = {j \in rows : ProjectOf[j] # ProjectOf[e[1]]}
       /\ tick' = [tick EXCEPT !.due = @ \ {e}]
  /\ UNCHANGED <<cwd, now, lastRun, stop, maint, fails, fired>> /\ UNCHANGED execVars

TickPick ==
  /\ tick.at = "pick" /\ ~stop
  /\ \E e \in tick.due :
       /\ ProjectOf[e[1]] \in Dirs
       /\ tick' = [tick EXCEPT !.at = "enter", !.job = e[1], !.saved = cwd]
  /\ UNCHANGED <<cwd, now, rows, lastRun, stop, maint, fails, fired>> /\ UNCHANGED execVars

\* chdir, then the chore runs on this thread; a project that cannot be
\* entered is skipped and not marked.
TickEnter ==
  /\ tick.at = "enter"
  /\ IF Enterable(ProjectOf[tick.job])
     THEN /\ cwd' = ProjectOf[tick.job]
          /\ tick' = [tick EXCEPT !.at = "run"]
          /\ Start(Current(tick))
     ELSE /\ tick' = NextJob(tick)
          /\ UNCHANGED <<cwd, fired>>
  /\ UNCHANGED <<now, rows, lastRun, stop, maint, fails>> /\ UNCHANGED execVars

\* The chore returned or threw.
TickRan ==
  /\ tick.at = "run"
  /\ tick' = [tick EXCEPT !.at = "restore"]
  /\ UNCHANGED <<cwd, now, rows, lastRun, stop, maint, fails, fired>> /\ UNCHANGED execVars

TickRestore ==
  /\ tick.at = "restore"
  /\ cwd' = tick.saved
  /\ tick' = [tick EXCEPT !.at = "mark"]
  /\ UNCHANGED <<now, rows, lastRun, stop, maint, fails, fired>> /\ UNCHANGED execVars

TickMark ==
  /\ tick.at = "mark"
  /\ MarkRan(tick)
  /\ tick' = NextJob(tick)
  /\ UNCHANGED <<cwd, now, rows, stop, maint, fails, fired>> /\ UNCHANGED execVars

\* An exception of the store ends the whole pass.
TickMarkThrows ==
  /\ fails < MaxFails
  /\ tick.at = "mark"
  /\ tick' = Asleep
  /\ fails' = fails + 1
  /\ UNCHANGED <<cwd, now, rows, lastRun, stop, maint, fired>> /\ UNCHANGED execVars

\* run returns, and the process exits with it, whatever the detached threads do.
TickExit ==
  /\ tick.at = "sleep" /\ stop
  /\ tick' = [tick EXCEPT !.at = "exited"]
  /\ UNCHANGED <<cwd, now, rows, lastRun, stop, maint, fails, fired>> /\ UNCHANGED execVars

TickStep ==
  \/ TickWake \/ TickDone \/ TickPrune \/ TickPick \/ TickEnter \/ TickRan
  \/ TickRestore \/ TickMark \/ TickMarkThrows \/ TickExit

(* runMaintenance: the chore is a child process, started where we are.     *)

MaintWake ==
  /\ maint.at = "sleep"
  /\ maint' = Woken(maint)
  /\ UNCHANGED <<cwd, now, rows, lastRun, stop, tick, fails, fired>> /\ UNCHANGED execVars

MaintPick ==
  /\ maint.at = "pick"
  /\ \/ /\ maint.due = {}
        /\ maint' = Asleep
        /\ UNCHANGED fired
     \/ \E e \in maint.due :
          IF e[1] \in Rejected
          THEN /\ maint' = [maint EXCEPT !.due = @ \ {e}]
               /\ UNCHANGED fired
          ELSE /\ maint' = [maint EXCEPT !.at = "run", !.job = e[1]]
               /\ Start(e)
  /\ UNCHANGED <<cwd, now, rows, lastRun, stop, tick, fails>> /\ UNCHANGED execVars

MaintRan ==
  /\ maint.at = "run"
  /\ \/ /\ MarkRan(maint)
        /\ maint' = NextJob(maint)
        /\ UNCHANGED fails
     \/ /\ fails < MaxFails
        /\ fails' = fails + 1
        /\ maint' = Asleep
        /\ UNCHANGED lastRun
  /\ UNCHANGED <<cwd, now, rows, stop, tick, fired>> /\ UNCHANGED execVars

MaintStep == MaintWake \/ MaintPick \/ MaintRan

-----------------------------------------------------------------------------
(* The exec server.                                                        *)

To(c, place) == pc' = [pc EXCEPT ![c] = place]

\* The accept loop: a thread is spawned, or the connection is told to go.  It
\* sees g_stop only between two connections.
Accept(c) ==
  /\ listening
  /\ pc[c] = "none"
  /\ To(c, IF active >= MaxWorkers THEN "refused" ELSE "started")
  /\ listening' = ~stop
  /\ UNCHANGED <<cwd, now, stop, asked, saved, active, mutex>> /\ UNCHANGED cronVars

\* handleClient's first statement.
Count(c) ==
  /\ pc[c] = "started"
  /\ active' = active + 1
  /\ To(c, "reading")
  /\ UNCHANGED <<cwd, now, stop, listening, asked, saved, mutex>> /\ UNCHANGED cronVars

\* A short frame, a malformed request or one without argv is answered here.
Turn(c) ==
  /\ pc[c] = "reading"
  /\ To(c, "ending")
  /\ UNCHANGED <<cwd, now, stop, listening, asked, saved, active, mutex>> /\ UNCHANGED cronVars

Request(c) ==
  /\ pc[c] = "reading"
  /\ \E d \in Asked \cup {None} : asked' = [asked EXCEPT ![c] = d]
  /\ To(c, "lock")
  /\ UNCHANGED <<cwd, now, stop, listening, saved, active, mutex>> /\ UNCHANGED cronVars

EnterUnlocked(c) == \* mutant: the mutex is not taken
  /\ pc[c] = "lock"
  /\ saved' = [saved EXCEPT ![c] = cwd]
  /\ To(c, "chdir")
  /\ UNCHANGED <<cwd, now, stop, listening, asked, active, mutex>> /\ UNCHANGED cronVars

Lock(c) ==
  /\ pc[c] = "lock" /\ mutex = None
  /\ mutex' = c
  /\ saved' = [saved EXCEPT ![c] = cwd]
  /\ To(c, "chdir")
  /\ UNCHANGED <<cwd, now, stop, listening, asked, active>> /\ UNCHANGED cronVars

\* A directory that cannot be entered is ignored: the command runs all the same.
Chdir(c) ==
  /\ pc[c] = "chdir"
  /\ cwd' = IF Enterable(asked[c]) THEN asked[c] ELSE cwd
  /\ To(c, "exec")
  /\ UNCHANGED <<now, stop, listening, asked, saved, active, mutex>> /\ UNCHANGED cronVars

\* cmd->run returned or threw.
Ran(c) ==
  /\ pc[c] = "exec"
  /\ To(c, "restore")
  /\ UNCHANGED <<cwd, now, stop, listening, asked, saved, active, mutex>> /\ UNCHANGED cronVars

RestoreHeld(c) == \* mutant: the mutex is not given back
  /\ pc[c] = "restore"
  /\ cwd' = saved[c]
  /\ To(c, "ending")
  /\ UNCHANGED <<now, stop, listening, asked, saved, active, mutex>> /\ UNCHANGED cronVars

Restore(c) ==
  /\ pc[c] = "restore"
  /\ cwd' = saved[c]
  /\ mutex' = None
  /\ To(c, "ending")
  /\ UNCHANGED <<now, stop, listening, asked, saved, active>> /\ UNCHANGED cronVars

End(c) ==
  /\ pc[c] = "ending"
  /\ active' = active - 1
  /\ To(c, "gone")
  /\ UNCHANGED <<cwd, now, stop, listening, asked, saved, mutex>> /\ UNCHANGED cronVars

WorkerStep(c) ==
  \/ Count(c) \/ Turn(c) \/ Request(c) \/ Lock(c) \/ Chdir(c) \/ Ran(c)
  \/ Restore(c) \/ End(c)

-----------------------------------------------------------------------------
\* SIGTERM, SIGINT, or requestStop.
Stop ==
  /\ ~stop
  /\ stop' = TRUE
  /\ UNCHANGED <<cwd, now>> /\ UNCHANGED cronVars /\ UNCHANGED execVars

Clock ==
  /\ now < MaxTime
  /\ now' = now + 1
  /\ UNCHANGED <<cwd, stop>> /\ UNCHANGED cronVars /\ UNCHANGED execVars

Next ==
  /\ tick.at # "exited"
  /\ \/ TickStep \/ MaintStep \/ Stop \/ Clock
     \/ \E c \in Conns : Accept(c) \/ WorkerStep(c)

Running(A) == tick.at # "exited" /\ A

\* The threads are scheduled; chores and commands return, and clients read
\* their output.  Nothing is asked of the mutex.
Fairness ==
  /\ WF_vars(Running(TickStep)) /\ WF_vars(Running(MaintStep))
  /\ \A c \in Conns : WF_vars(Running(WorkerStep(c)))

Spec == Init /\ [][Next]_vars

FairSpec == Spec /\ Fairness

-----------------------------------------------------------------------------
(* Properties.                                                             *)

\* No command has run yet; no chore has.
NoCommand == \A c \in Conns : saved[c] = None
NoChore == \A e \in DOMAIN fired : fired[e] = 0

\* Commands do not disturb each other (g_chdir_mu): as long as the cron table
\* starts nothing, each runs in the directory its client asked for, if that can
\* be entered.  A chore of the main loop runs in its project, whatever the
\* maintenance thread does, as long as no command runs.  And with only one of
\* the two at work the service is back where it was started when nothing runs,
\* so that whoever comes next and asks for no directory starts there.
DirectoryKept ==
  /\ TypeOK
  /\ NoChore => \A c \in Conns : pc[c] = "exec" /\ Enterable(asked[c]) => cwd = asked[c]
  /\ NoCommand /\ tick.at = "run" => cwd = ProjectOf[tick.job]
  /\ (NoChore \/ NoCommand) /\ Inside = {} /\ tick.at \notin {"run", "restore"}
       => cwd = Home

\* With one thread on the cron table and the store well, a chore is started once
\* for each time it comes due (dueJobs, markRan).  Two threads start it twice:
\* neither claims the row it read.
EachDueOnce ==
  maint.at = "off" /\ fails = 0 => \A e \in DOMAIN fired : fired[e] <= 1

\* The whole of a due row's life: started and marked, or removed with a project
\* that is gone, unless the service is told to stop.  A store that fails now
\* and then delays it.
DueIsServed ==
  \A j \in Jobs : ProjectOf[j] \notin Closed =>
    (j \in rows /\ now - lastRun[j] >= Every)
      ~> (j \notin rows \/ now - lastRun[j] < Every \/ stop)

\* A connection that was accepted is served to its end, whatever the others
\* do, unless the service exits.
RequestsServed ==
  \A c \in Conns : pc[c] = "started" ~> (pc[c] = "gone" \/ tick.at = "exited")

=============================================================================
