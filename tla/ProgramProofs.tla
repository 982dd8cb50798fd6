--------------------------- MODULE ProgramProofs ---------------------------
(***************************************************************************)
(* Proofs about the two parts that act on the whole program: the process   *)
(* of the service (ServiceHost) and the executable's files (ReleaseSwap).  *)
(*                                                                         *)
(* The service, for any jobs, connections, directories and times, whatever *)
(* it meets: clients, a cron table, both.  What keeps the directory is on  *)
(* one side the mutex - whoever is between its chdir and its undoing holds *)
(* it, so it saved the directory the service was started in - and on the   *)
(* other that the main loop restores what it saved before it looks at the  *)
(* next chore.  Neither side knows of the other: the two arguments need    *)
(* that only one of them has acted.                                        *)
(*                                                                         *)
(* The executable, for any commands, releases, kills and refused file      *)
(* operations.  The disk is seen as `content`, a function of every path.   *)
(* While swaps do not overlap only one process at a time swaps or has a    *)
(* helper (Alone), so a step is either the swap's, and the files around    *)
(* one executable change as its place says, or another's, and they do not. *)
(* On POSIX nothing is refused and the image of a process moves with its   *)
(* file: between two renames the file that is missing is named by the      *)
(* place of the process that moves it, and one kill can leave one such gap *)
(* behind.  On Windows the running image itself is what survives: it is    *)
(* complete and in one of three places whatever is killed or refused.      *)
(* That `icmg` can be started again is a second invariant, of the runs     *)
(* without kills and with at most one refusal, place by place.             *)
(***************************************************************************)
EXTENDS ServiceHost, ReleaseSwap, FiniteSetTheorems, SequenceTheorems, TLAPS

-----------------------------------------------------------------------------
(* The service.                                                            *)

Times == 0..MaxTime
RunnerPlaces == {"sleep", "pick", "enter", "run", "restore", "mark", "exited", "off"}
WorkerPlaces == {"none", "started", "reading", "lock", "chdir", "exec", "restore",
                 "ending", "gone", "refused"}

\* Everything in TypeOK but the count of the workers.
Types ==
  /\ cwd \in Dirs /\ now \in Times /\ rows \subseteq Jobs
  /\ lastRun \in [Jobs -> Times] /\ stop \in BOOLEAN
  /\ tick \in Runner /\ maint \in Runner /\ listening \in BOOLEAN
  /\ pc \in [Conns -> WorkerPlaces]
  /\ asked \in [Conns -> Asked \cup {None}] /\ saved \in [Conns -> Dirs \cup {None}]
  /\ mutex \in Conns \cup {None} /\ fails \in 0..MaxFails
  /\ fired \in [Jobs \X Times -> 0..2]

AtWork == {"reading", "lock", "chdir", "exec", "restore", "ending"}
Counted == {c \in Conns : pc[c] \in AtWork}
WorkersCounted == IsFiniteSet(Counted) /\ active = Cardinality(Counted)

\* A runner past its choice has a job, and the row it was due by.
HasJob(r) == r.job \in Jobs /\ \E e \in r.due : e[1] = r.job
Chosen ==
  /\ tick.at \in {"enter", "run", "restore", "mark"} => HasJob(tick)
  /\ tick.at \in {"enter", "run", "restore"} => tick.saved \in Dirs
  /\ maint.at \in {"enter", "run", "restore", "mark"} => HasJob(maint)

\* g_chdir_mu is held by whoever has changed directory, and nobody else.
MutexHeld == \A c \in Conns : (c \in Inside <=> mutex = c)

\* What was started by a chore or a command shows in the histories.
Recorded ==
  /\ tick.at \in {"run", "restore", "mark"} => ~NoChore
  /\ \A c \in Inside : saved[c] \in Dirs

CommandsApart ==
  NoChore => /\ \A c \in Inside : saved[c] = Home
             /\ \A c \in Conns : pc[c] = "chdir" => cwd = Home
             /\ \A c \in Conns : pc[c] = "exec" /\ Enterable(asked[c]) => cwd = asked[c]
             /\ Inside = {} => cwd = Home

ChoresApart ==
  NoCommand => /\ tick.at \in {"enter", "run", "restore"} => tick.saved = Home
               /\ tick.at = "run" => cwd = ProjectOf[tick.job]
               /\ tick.at \notin {"run", "restore"} => cwd = Home

\* One thread on the cron table: the rows it read are still as it read them, and
\* a start is older than the row's last_run or the one going on.
OneThread ==
  maint.at = "off" /\ fails = 0 =>
    /\ \A e \in tick.due : e[2] = lastRun[e[1]] /\ e[2] < tick.now
    /\ \A j \in Jobs, v \in Times : fired[<<j, v>>] >= 1 =>
         /\ fired[<<j, v>>] = 1
         /\ \/ v < lastRun[j]
            \/ v = lastRun[j] /\ tick.job = j /\ tick.at \in {"run", "restore", "mark"}

IInv == /\ Types /\ WorkersCounted /\ Chosen /\ MutexHeld /\ Recorded
        /\ CommandsApart /\ ChoresApart /\ OneThread

-----------------------------------------------------------------------------
(* The runners.                                                            *)

LEMMA RunnerFields ==
  ASSUME NEW r \in Runner
  PROVE  /\ r.at \in RunnerPlaces /\ r.now \in Times /\ r.due \subseteq Jobs \X Times
         /\ r.job \in Jobs \cup {None} /\ r.saved \in Dirs \cup {None}
BY DEF Runner, RunnerPlaces, Times

LEMMA RunnerMoves ==
  ASSUME NEW r \in Runner, NEW s, NEW a \in RunnerPlaces, s = [r EXCEPT !.at = a]
  PROVE  /\ s \in Runner
         /\ s.at = a /\ s.now = r.now /\ s.due = r.due /\ s.job = r.job /\ s.saved = r.saved
BY DEF Runner, RunnerPlaces

LEMMA RunnerDrops ==
  ASSUME NEW r \in Runner, NEW s, NEW e, s = [r EXCEPT !.due = @ \ {e}]
  PROVE  /\ s \in Runner
         /\ s.at = r.at /\ s.now = r.now /\ s.due = r.due \ {e} /\ s.job = r.job
         /\ s.saved = r.saved
<1>1. r.due \ {e} \in SUBSET (Jobs \X (0..MaxTime))
  BY RunnerFields DEF Times
<1> QED
  BY <1>1 DEF Runner

LEMMA AsleepTyped ==
  Asleep \in Runner /\ Asleep.at = "sleep" /\ Asleep.due = {}
BY ServiceHostAssumption DEF Asleep, Runner

LEMMA NextJobTyped ==
  ASSUME NEW r \in Runner
  PROVE  /\ NextJob(r) \in Runner /\ NextJob(r).at = "pick" /\ NextJob(r).now = r.now
         /\ NextJob(r).due = {e \in r.due : e[1] # r.job}
<1>1. {e \in r.due : e[1] # r.job} \in SUBSET (Jobs \X (0..MaxTime))
  BY RunnerFields DEF Times
<1> QED
  BY <1>1 DEF Runner, NextJob

LEMMA DueTyped ==
  ASSUME Types
  PROVE  /\ Due \subseteq Jobs \X Times
         /\ \A e \in Due : e[1] \in rows /\ e[2] = lastRun[e[1]] /\ e[2] < now
<1>1. ASSUME NEW j \in rows PROVE j \in Jobs /\ lastRun[j] \in Times
  BY DEF Types
<1>2. \A n \in Times : n \in Nat
  BY ServiceHostAssumption DEF Times
<1>3. ASSUME NEW j \in rows, now - lastRun[j] >= Every PROVE lastRun[j] < now
  <2>1. now \in Nat /\ lastRun[j] \in Nat /\ Every \in Nat \ {0}
    BY <1>1, <1>2, ServiceHostAssumption DEF Types
  <2> QED
    BY <1>3, <2>1
<1> QED
  BY <1>1, <1>3 DEF Due

LEMMA WokenTyped ==
  ASSUME Types, NEW r \in Runner
  PROVE  /\ Woken(r) \in Runner /\ Woken(r).at = "pick" /\ Woken(r).now = now /\ Woken(r).due = Due
<1>1. Due \in SUBSET (Jobs \X (0..MaxTime)) /\ now \in 0..MaxTime
  BY DueTyped DEF Types, Times
<1> QED
  BY <1>1 DEF Runner, Woken

LEMMA CurrentIs ==
  ASSUME NEW r \in Runner, HasJob(r)
  PROVE  Current(r) \in r.due /\ Current(r)[1] = r.job /\ Current(r) \in Jobs \X Times
<1>1. PICK e \in r.due : e[1] = r.job
  BY DEF HasJob
<1>2. Current(r) \in r.due /\ Current(r)[1] = r.job
  BY <1>1 DEF Current
<1> QED
  BY <1>2, RunnerFields

\* A chore that starts is recorded for good.
LEMMA StartRecords ==
  ASSUME Types, NEW e \in Jobs \X Times, Start(e)
  PROVE  /\ fired' \in [Jobs \X Times -> 0..2] /\ ~NoChore'
         /\ \A f \in Jobs \X Times : f # e => fired'[f] = fired[f]
         /\ fired'[e] = IF fired[e] < 2 THEN fired[e] + 1 ELSE fired[e]
<1>1. fired \in [Jobs \X Times -> 0..2]
  BY DEF Types
<1> DEFINE n == IF fired[e] < 2 THEN fired[e] + 1 ELSE fired[e]
<1>2. n \in 0..2 /\ n # 0
  <2>1. fired[e] \in 0..2
    BY <1>1
  <2> QED
    BY <2>1
<1>3. fired' = [fired EXCEPT ![e] = n]
  BY DEF Start
<1> HIDE DEF n
<1>4. /\ fired' \in [Jobs \X Times -> 0..2] /\ fired'[e] = n
      /\ \A f \in Jobs \X Times : f # e => fired'[f] = fired[f]
  BY <1>1, <1>2, <1>3
<1>5. ~NoChore'
  BY <1>2, <1>4 DEF NoChore
<1> QED
  BY <1>4, <1>5 DEF n

-----------------------------------------------------------------------------
\* The service is started where it is, with nothing recorded.
LEMMA InitInv == Init => IInv
<1> SUFFICES ASSUME Init PROVE IInv
  OBVIOUS
<1>a. Asleep \in Runner /\ [Asleep EXCEPT !.at = "off"] \in Runner
      /\ [Asleep EXCEPT !.at = "off"].at = "off" /\ Asleep.at = "sleep" /\ Asleep.due = {}
  BY AsleepTyped DEF Runner
<1>b. pc = [c \in Conns |-> "none"] /\ saved = [c \in Conns |-> None] /\ mutex = None
  BY DEF Init
<1>c. Inside = {} /\ Counted = {}
  BY <1>b DEF Inside, Counted, AtWork
<1>d. tick = Asleep /\ maint.at \in {"sleep", "off"}
  BY <1>a DEF Init
<1>1. Types
  <2>1. now \in Times
    BY ServiceHostAssumption DEF Init, Times
  <2>2. lastRun \in [Jobs -> Times] /\ fired \in [Jobs \X Times -> 0..2]
    BY ServiceHostAssumption DEF Init, Times
  <2>3. pc \in [Conns -> WorkerPlaces]
    BY <1>b DEF WorkerPlaces
  <2>4. cwd \in Dirs /\ fails \in 0..MaxFails
    BY ServiceHostAssumption DEF Init
  <2>5. tick \in Runner /\ maint \in Runner
    BY <1>a DEF Init
  <2> QED
    BY <1>b, <2>1, <2>2, <2>3, <2>4, <2>5 DEF Init, Types
<1>2. WorkersCounted
  BY <1>c, FS_EmptySet DEF Init, WorkersCounted
<1>3. Chosen
  BY <1>a, <1>d DEF Chosen
<1>4. MutexHeld
  BY <1>b, <1>c, ServiceHostAssumption DEF MutexHeld
<1>5. Recorded
  BY <1>a, <1>c, <1>d DEF Recorded
<1>6. CommandsApart
  BY <1>b, <1>c DEF CommandsApart, Init
<1>7. ChoresApart
  BY <1>a, <1>d DEF ChoresApart, Init
<1>8. OneThread
  BY <1>a, <1>d DEF OneThread, Init, Times
<1> QED
  BY <1>1, <1>2, <1>3, <1>4, <1>5, <1>6, <1>7, <1>8 DEF IInv

-----------------------------------------------------------------------------
(* The main loop and the maintenance thread.                               *)

\* What has to be known of a step of either for the rest to follow: a chore that
\* has changed the directory shows in the history.
LEMMA CronKeeps ==
  ASSUME IInv, UNCHANGED execVars, Types', Chosen', ChoresApart', OneThread',
         NoChore' => NoChore /\ cwd' = cwd,
         tick'.at \in {"run", "restore", "mark"} => ~NoChore'
  PROVE  IInv'
<1>1. UNCHANGED <<pc, asked, saved, active, mutex>>
  BY DEF execVars
<1>2. WorkersCounted'
  BY <1>1 DEF IInv, WorkersCounted, Counted
<1>3. MutexHeld'
  BY <1>1 DEF IInv, MutexHeld, Inside
<1>4. Recorded'
  BY <1>1 DEF IInv, Recorded, Inside
<1>5. CommandsApart'
  BY <1>1 DEF IInv, CommandsApart, Inside
<1> QED
  BY <1>2, <1>3, <1>4, <1>5 DEF IInv

\* Of a step of the main loop that starts no chore.
LEMMA TickTyped ==
  ASSUME IInv, UNCHANGED execVars, UNCHANGED <<now, stop, maint, fired>>,
         tick' \in Runner, cwd' \in Dirs, rows' \subseteq rows,
         lastRun' \in [Jobs -> Times], fails' \in 0..MaxFails
  PROVE  Types'
BY DEF IInv, Types, execVars

\* Nobody starts a chore: the histories stay.
LEMMA NoneStarted ==
  ASSUME UNCHANGED fired
  PROVE  NoChore' <=> NoChore
BY DEF NoChore

LEMMA NoneAsked ==
  ASSUME UNCHANGED execVars
  PROVE  NoCommand' <=> NoCommand
BY DEF NoCommand, execVars

\* The main loop reads the due rows.
LEMMA TickWakeKeeps ==
  ASSUME IInv, TickWake
  PROVE  IInv'
<1>0. /\ tick.at = "sleep" /\ tick' = Woken(tick)
      /\ UNCHANGED <<cwd, now, rows, lastRun, stop, maint, fails, fired>> /\ UNCHANGED execVars
  BY DEF TickWake
<1>1. /\ tick' \in Runner /\ tick'.at = "pick" /\ tick'.now = now /\ tick'.due = Due
  BY <1>0, WokenTyped DEF IInv, Types
<1>2. NoCommand' => NoCommand
  BY <1>0, NoneAsked
<1>3. NoChore' => NoChore
  BY <1>0, NoneStarted
<1>4. Types'
  BY <1>0, <1>1, TickTyped DEF IInv, Types
<1>5. Chosen'
  BY <1>0, <1>1 DEF IInv, Chosen, HasJob
<1>6. ChoresApart'
  BY <1>0, <1>1, <1>2 DEF IInv, ChoresApart
<1>7. OneThread'
  <2> SUFFICES ASSUME maint.at = "off", fails = 0 PROVE OneThread'
    BY <1>0 DEF OneThread
  <2>1. \A e \in tick'.due : e[2] = lastRun'[e[1]] /\ e[2] < tick'.now
    BY <1>0, <1>1, DueTyped DEF IInv
  <2>2. \A j \in Jobs, v \in Times : fired[<<j, v>>] >= 1 =>
          fired[<<j, v>>] = 1 /\ v < lastRun[j]
    BY <1>0 DEF IInv, OneThread
  <2> QED
    BY <1>0, <2>1, <2>2 DEF OneThread
<1> QED
  BY <1>0, <1>1, <1>3, <1>4, <1>5, <1>6, <1>7, CronKeeps

\* The pass ends: all due rows are through, or the service is to stop.
LEMMA TickDoneKeeps ==
  ASSUME IInv, TickDone
  PROVE  IInv'
<1>0. /\ tick' = Asleep
      /\ UNCHANGED <<cwd, now, rows, lastRun, stop, maint, fails, fired>> /\ UNCHANGED execVars
      /\ tick.at = "pick"
  BY DEF TickDone
<1>1. tick' \in Runner /\ tick'.at = "sleep" /\ tick'.due = {}
  BY <1>0, AsleepTyped
<1>2. NoCommand' => NoCommand
  BY <1>0, NoneAsked
<1>3. NoChore' => NoChore
  BY <1>0, NoneStarted
<1>4. Types'
  BY <1>0, <1>1, TickTyped DEF IInv, Types
<1>5. Chosen'
  BY <1>0, <1>1 DEF IInv, Chosen, HasJob
<1>6. ChoresApart'
  BY <1>0, <1>1, <1>2 DEF IInv, ChoresApart
<1>7. OneThread'
  BY <1>0, <1>1 DEF IInv, OneThread
<1> QED
  BY <1>0, <1>1, <1>3, <1>4, <1>5, <1>6, <1>7, CronKeeps

\* A row whose project is gone is removed.
LEMMA TickPruneKeeps ==
  ASSUME IInv, TickPrune
  PROVE  IInv'
<1>0. /\ tick.at = "pick" /\ rows' \subseteq rows
      /\ UNCHANGED <<cwd, now, lastRun, stop, maint, fails, fired>> /\ UNCHANGED execVars
  BY DEF TickPrune
<1>a. PICK e \in tick.due : tick' = [tick EXCEPT !.due = @ \ {e}]
  BY DEF TickPrune
<1>1. /\ tick' \in Runner /\ tick'.at = "pick" /\ tick'.now = tick.now
      /\ tick'.due \subseteq tick.due
  <2>1. tick \in Runner
    BY DEF IInv, Types
  <2>2. /\ tick' \in Runner
        /\ tick'.at = tick.at /\ tick'.now = tick.now /\ tick'.due = tick.due \ {e}
    BY <1>a, <2>1, RunnerDrops, Zenon
  <2> QED
    BY <1>0, <2>2
<1>2. NoCommand' => NoCommand
  BY <1>0, NoneAsked
<1>3. NoChore' => NoChore
  BY <1>0, NoneStarted
<1>4. Types'
  BY <1>0, <1>1, TickTyped DEF IInv, Types
<1>5. Chosen'
  BY <1>0, <1>1 DEF IInv, Chosen, HasJob
<1>6. ChoresApart'
  BY <1>0, <1>1, <1>2 DEF IInv, ChoresApart
<1>7. OneThread'
  BY <1>0, <1>1 DEF IInv, OneThread
<1> QED
  BY <1>0, <1>1, <1>3, <1>4, <1>5, <1>6, <1>7, CronKeeps

\* The loop turns to a due row, and saves the directory it is in.
LEMMA TickPickKeeps ==
  ASSUME IInv, TickPick
  PROVE  IInv'
<1>0. /\ tick.at = "pick"
      /\ UNCHANGED <<cwd, now, rows, lastRun, stop, maint, fails, fired>> /\ UNCHANGED execVars
  BY DEF TickPick
<1>a. PICK e \in tick.due : tick' = [tick EXCEPT !.at = "enter", !.job = e[1], !.saved = cwd]
  BY DEF TickPick
<1>b. e[1] \in Jobs
  BY RunnerFields DEF IInv, Types
<1>1. /\ tick' \in Runner /\ tick'.at = "enter" /\ tick'.now = tick.now
      /\ tick'.due = tick.due /\ tick'.job = e[1] /\ tick'.saved = cwd
  <2>1. tick \in Runner /\ cwd \in Dirs
    BY DEF IInv, Types
  <2> QED
    BY <1>a, <1>b, <2>1 DEF Runner
<1>2. NoCommand' => NoCommand
  BY <1>0, NoneAsked
<1>3. NoChore' => NoChore
  BY <1>0, NoneStarted
<1>4. Types'
  BY <1>0, <1>1, TickTyped DEF IInv, Types
<1>5. Chosen'
  BY <1>0, <1>1, <1>b DEF IInv, Types, Chosen, HasJob
<1>6. ChoresApart'
  BY <1>0, <1>1, <1>2 DEF IInv, ChoresApart
<1>7. OneThread'
  BY <1>0, <1>1 DEF IInv, OneThread
<1> QED
  BY <1>0, <1>1, <1>3, <1>4, <1>5, <1>6, <1>7, CronKeeps

\* The row a runner is at, when nobody else touches the table: by its last_run.
LEMMA CurrentRow ==
  ASSUME IInv, maint.at = "off", fails = 0, tick.at \in {"enter", "run", "restore", "mark"}
  PROVE  /\ tick.job \in Jobs /\ Current(tick) = <<tick.job, lastRun[tick.job]>>
         /\ lastRun[tick.job] < tick.now /\ lastRun[tick.job] \in Times
<1>1. tick \in Runner /\ HasJob(tick) /\ tick.job \in Jobs /\ lastRun[tick.job] \in Times
  BY DEF IInv, Types, Chosen, HasJob
<1> DEFINE e == Current(tick)
<1>2. e \in tick.due /\ e[1] = tick.job /\ e \in Jobs \X Times
  BY <1>1, CurrentIs
<1> HIDE DEF e
<1>3. e[2] = lastRun[e[1]] /\ e[2] < tick.now
  BY <1>2 DEF IInv, OneThread
<1>4. e = <<e[1], e[2]>>
  BY <1>2
<1> QED
  BY <1>1, <1>2, <1>3, <1>4 DEF e

\* The loop enters the project, if it may, and starts the chore.
LEMMA TickEnterKeeps ==
  ASSUME IInv, TickEnter
  PROVE  IInv'
<1>0. /\ tick.at = "enter"
      /\ UNCHANGED <<now, rows, lastRun, stop, maint, fails>> /\ UNCHANGED execVars
  BY DEF TickEnter
<1>a. tick \in Runner /\ HasJob(tick) /\ tick.saved \in Dirs
  BY <1>0 DEF IInv, Types, Chosen
<1>b. NoCommand' => NoCommand
  BY <1>0, NoneAsked
<1>1. CASE Enterable(ProjectOf[tick.job])
  <2>0. cwd' = ProjectOf[tick.job] /\ tick' = [tick EXCEPT !.at = "run"] /\ Start(Current(tick))
    BY <1>1 DEF TickEnter
  <2>1. /\ tick' \in Runner /\ tick'.at = "run" /\ tick'.now = tick.now
        /\ tick'.due = tick.due /\ tick'.job = tick.job /\ tick'.saved = tick.saved
    BY <1>a, <2>0, RunnerMoves DEF RunnerPlaces
  <2> DEFINE e == Current(tick)
  <2>2. e \in Jobs \X Times
    BY <1>a, CurrentIs
  <2>a. Start(e)
    BY <2>0
  <2>e. maint.at = "off" /\ fails = 0 => e = <<tick.job, lastRun[tick.job]>>
    BY <1>0, CurrentRow
  <2> HIDE DEF e
  <2>3. /\ fired' \in [Jobs \X Times -> 0..2] /\ ~NoChore'
        /\ \A f \in Jobs \X Times : f # e => fired'[f] = fired[f]
        /\ fired'[e] = IF fired[e] < 2 THEN fired[e] + 1 ELSE fired[e]
    BY <2>a, <2>2, StartRecords DEF IInv
  <2>4. Types'
    BY <1>0, <1>1, <2>0, <2>1, <2>3 DEF IInv, Types, execVars, Enterable
  <2>5. Chosen'
    BY <1>0, <1>a, <2>1 DEF IInv, Chosen, HasJob
  <2>6. ChoresApart'
    BY <1>0, <1>b, <2>0, <2>1 DEF IInv, ChoresApart
  <2>7. OneThread'
    <3> SUFFICES ASSUME maint.at = "off", fails = 0 PROVE OneThread'
      BY <1>0 DEF OneThread
    <3>1. \A f \in tick'.due : f[2] = lastRun'[f[1]] /\ f[2] < tick'.now
      BY <1>0, <2>1 DEF IInv, OneThread
    <3>2. \A j \in Jobs, v \in Times : fired[<<j, v>>] >= 1 =>
            fired[<<j, v>>] = 1 /\ v < lastRun[j]
      BY <1>0 DEF IInv, OneThread
    <3>3. e = <<tick.job, lastRun[tick.job]>> /\ tick.job \in Jobs /\ lastRun[tick.job] \in Times
      BY <1>0, <2>e, CurrentRow
    <3>4. fired'[e] = 1
      <4>1. ~(fired[e] >= 1)
        BY <3>2, <3>3 DEF Times
      <4>2. fired[e] \in 0..2
        BY <2>2 DEF IInv, Types
      <4> QED
        BY <4>1, <4>2, <2>3
    <3>5. ASSUME NEW j \in Jobs, NEW v \in Times, fired'[<<j, v>>] >= 1
          PROVE  /\ fired'[<<j, v>>] = 1
                 /\ v < lastRun[j] \/ (v = lastRun[j] /\ tick.job = j)
      <4>1. CASE <<j, v>> = e
        BY <3>3, <3>4, <4>1
      <4>2. CASE <<j, v>> # e
        <5>1. fired'[<<j, v>>] = fired[<<j, v>>]
          BY <2>3, <4>2
        <5> QED
          BY <3>2, <3>5, <5>1
      <4> QED
        BY <4>1, <4>2
    <3> QED
      BY <1>0, <2>1, <3>1, <3>5 DEF OneThread
  <2> QED
    BY <1>0, <2>3, <2>4, <2>5, <2>6, <2>7, CronKeeps
<1>2. CASE ~Enterable(ProjectOf[tick.job])
  <2>0. tick' = NextJob(tick) /\ UNCHANGED <<cwd, fired>>
    BY <1>2 DEF TickEnter
  <2>1. /\ tick' \in Runner /\ tick'.at = "pick" /\ tick'.now = tick.now
        /\ tick'.due \subseteq tick.due
    BY <1>a, <2>0, NextJobTyped
  <2>3. NoChore' => NoChore
    BY <2>0, NoneStarted
  <2>4. Types'
    BY <1>0, <2>0, <2>1, TickTyped DEF IInv, Types
  <2>5. Chosen'
    BY <1>0, <2>1 DEF IInv, Chosen, HasJob
  <2>6. ChoresApart'
    BY <1>0, <1>b, <2>0, <2>1 DEF IInv, ChoresApart
  <2>7. OneThread'
    BY <1>0, <2>0, <2>1 DEF IInv, OneThread
  <2> QED
    BY <1>0, <2>0, <2>1, <2>3, <2>4, <2>5, <2>6, <2>7, CronKeeps
<1> QED
  BY <1>1, <1>2

\* The chore is over.
LEMMA TickRanKeeps ==
  ASSUME IInv, TickRan
  PROVE  IInv'
<1>0. /\ tick.at = "run" /\ tick' = [tick EXCEPT !.at = "restore"]
      /\ UNCHANGED <<cwd, now, rows, lastRun, stop, maint, fails, fired>> /\ UNCHANGED execVars
  BY DEF TickRan
<1>a. tick \in Runner
  BY DEF IInv, Types
<1>1. /\ tick' \in Runner /\ tick'.at = "restore" /\ tick'.now = tick.now
      /\ tick'.due = tick.due /\ tick'.job = tick.job /\ tick'.saved = tick.saved
  BY <1>0, <1>a, RunnerMoves DEF RunnerPlaces
<1>2. NoCommand' => NoCommand
  BY <1>0, NoneAsked
<1>3. ~NoChore'
  BY <1>0, NoneStarted DEF IInv, Recorded
<1>4. Types'
  BY <1>0, <1>1, TickTyped DEF IInv, Types
<1>5. Chosen'
  BY <1>0, <1>1 DEF IInv, Chosen, HasJob
<1>6. ChoresApart'
  BY <1>0, <1>1, <1>2 DEF IInv, ChoresApart
<1>7. OneThread'
  BY <1>0, <1>1 DEF IInv, OneThread
<1> QED
  BY <1>0, <1>3, <1>4, <1>5, <1>6, <1>7, CronKeeps

\* The directory that was saved is entered again.
LEMMA TickRestoreKeeps ==
  ASSUME IInv, TickRestore
  PROVE  IInv'
<1>0. /\ tick.at = "restore" /\ tick' = [tick EXCEPT !.at = "mark"] /\ cwd' = tick.saved
      /\ UNCHANGED <<now, rows, lastRun, stop, maint, fails, fired>> /\ UNCHANGED execVars
  BY DEF TickRestore
<1>a. tick \in Runner /\ tick.saved \in Dirs
  BY <1>0 DEF IInv, Types, Chosen
<1>1. /\ tick' \in Runner /\ tick'.at = "mark" /\ tick'.now = tick.now
      /\ tick'.due = tick.due /\ tick'.job = tick.job /\ tick'.saved = tick.saved
  BY <1>0, <1>a, RunnerMoves DEF RunnerPlaces
<1>2. NoCommand' => NoCommand
  BY <1>0, NoneAsked
<1>3. ~NoChore'
  BY <1>0, NoneStarted DEF IInv, Recorded
<1>4. Types'
  BY <1>0, <1>a, <1>1, TickTyped DEF IInv, Types
<1>5. Chosen'
  BY <1>0, <1>1 DEF IInv, Chosen, HasJob
<1>6. ChoresApart'
  BY <1>0, <1>1, <1>2 DEF IInv, ChoresApart
<1>7. OneThread'
  BY <1>0, <1>1 DEF IInv, OneThread
<1> QED
  BY <1>0, <1>3, <1>4, <1>5, <1>6, <1>7, CronKeeps

\* The chore is marked with the time the rows were read at, which is later than
\* the last_run it was due by.
LEMMA TickMarkKeeps ==
  ASSUME IInv, TickMark
  PROVE  IInv'
<1>0. /\ tick.at = "mark" /\ tick' = NextJob(tick)
      /\ lastRun' = [lastRun EXCEPT ![tick.job] = tick.now]
      /\ UNCHANGED <<cwd, now, rows, stop, maint, fails, fired>> /\ UNCHANGED execVars
  BY DEF TickMark, MarkRan
<1>a. tick \in Runner /\ tick.now \in Times /\ lastRun \in [Jobs -> Times]
  BY RunnerFields DEF IInv, Types
<1>1. /\ tick' \in Runner /\ tick'.at = "pick" /\ tick'.now = tick.now
      /\ tick'.due = {e \in tick.due : e[1] # tick.job}
  BY <1>0, <1>a, NextJobTyped
<1>2. NoCommand' => NoCommand
  BY <1>0, NoneAsked
<1>3. NoChore' => NoChore
  BY <1>0, NoneStarted
<1>b. lastRun' \in [Jobs -> Times]
  BY <1>0, <1>a
<1>4. Types'
  BY <1>0, <1>1, <1>b, TickTyped DEF IInv, Types
<1>5. Chosen'
  BY <1>0, <1>1 DEF IInv, Chosen, HasJob
<1>6. ChoresApart'
  BY <1>0, <1>1, <1>2 DEF IInv, ChoresApart
<1>7. OneThread'
  <2> SUFFICES ASSUME maint.at = "off", fails = 0 PROVE OneThread'
    BY <1>0 DEF OneThread
  <2>1. tick.job \in Jobs /\ lastRun[tick.job] < tick.now /\ lastRun[tick.job] \in Times
    BY <1>0, CurrentRow
  <2>2. \A j \in Jobs : lastRun'[j] = IF j = tick.job THEN tick.now ELSE lastRun[j]
    BY <1>0, <1>a
  <2>3. \A e \in tick.due : e \in Jobs \X Times
    BY <1>a, RunnerFields
  <2>4. \A e \in tick'.due : e[2] = lastRun'[e[1]] /\ e[2] < tick'.now
    BY <1>1, <2>2, <2>3 DEF IInv, OneThread
  <2>5. ASSUME NEW j \in Jobs, NEW v \in Times, fired[<<j, v>>] >= 1
        PROVE  fired[<<j, v>>] = 1 /\ v < lastRun'[j]
    <3>1. /\ fired[<<j, v>>] = 1
          /\ v < lastRun[j] \/ (v = lastRun[j] /\ tick.job = j)
      BY <2>5 DEF IInv, OneThread
    <3>2. CASE j = tick.job
      <4>1. v \in Nat /\ lastRun[j] \in Nat /\ tick.now \in Nat
        BY <1>a, <2>1, <3>2 DEF Times
      <4> QED
        BY <2>1, <2>2, <3>1, <3>2, <4>1
    <3>3. CASE j # tick.job
      BY <2>2, <3>1, <3>3
    <3> QED
      BY <3>2, <3>3
  <2> QED
    BY <1>0, <2>4, <2>5 DEF OneThread
<1> QED
  BY <1>0, <1>1, <1>3, <1>4, <1>5, <1>6, <1>7, CronKeeps

\* The store throws, and the pass is over.
LEMMA TickMarkThrowsKeeps ==
  ASSUME IInv, TickMarkThrows
  PROVE  IInv'
<1>0. /\ tick.at = "mark" /\ tick' = Asleep /\ fails < MaxFails /\ fails' = fails + 1
      /\ UNCHANGED <<cwd, now, rows, lastRun, stop, maint, fired>> /\ UNCHANGED execVars
  BY DEF TickMarkThrows
<1>1. tick' \in Runner /\ tick'.at = "sleep" /\ tick'.due = {}
  BY <1>0, AsleepTyped
<1>a. fails' \in 0..MaxFails /\ fails' # 0
  <2>1. fails \in 0..MaxFails
    BY DEF IInv, Types
  <2> QED
    BY <1>0, <2>1, ServiceHostAssumption
<1>2. NoCommand' => NoCommand
  BY <1>0, NoneAsked
<1>3. NoChore' => NoChore
  BY <1>0, NoneStarted
<1>4. Types'
  BY <1>0, <1>1, <1>a, TickTyped DEF IInv, Types
<1>5. Chosen'
  BY <1>0, <1>1 DEF IInv, Chosen, HasJob
<1>6. ChoresApart'
  BY <1>0, <1>1, <1>2 DEF IInv, ChoresApart
<1>7. OneThread'
  BY <1>a DEF OneThread
<1> QED
  BY <1>0, <1>1, <1>3, <1>4, <1>5, <1>6, <1>7, CronKeeps

\* The service exits.
LEMMA TickExitKeeps ==
  ASSUME IInv, TickExit
  PROVE  IInv'
<1>0. /\ tick.at = "sleep" /\ tick' = [tick EXCEPT !.at = "exited"]
      /\ UNCHANGED <<cwd, now, rows, lastRun, stop, maint, fails, fired>> /\ UNCHANGED execVars
  BY DEF TickExit
<1>a. tick \in Runner
  BY DEF IInv, Types
<1>1. /\ tick' \in Runner /\ tick'.at = "exited" /\ tick'.now = tick.now
      /\ tick'.due = tick.due
  BY <1>0, <1>a, RunnerMoves DEF RunnerPlaces
<1>2. NoCommand' => NoCommand
  BY <1>0, NoneAsked
<1>3. NoChore' => NoChore
  BY <1>0, NoneStarted
<1>4. Types'
  BY <1>0, <1>1, TickTyped DEF IInv, Types
<1>5. Chosen'
  BY <1>0, <1>1 DEF IInv, Chosen, HasJob
<1>6. ChoresApart'
  BY <1>0, <1>1, <1>2 DEF IInv, ChoresApart
<1>7. OneThread'
  BY <1>0, <1>1 DEF IInv, OneThread
<1> QED
  BY <1>0, <1>1, <1>3, <1>4, <1>5, <1>6, <1>7, CronKeeps

\* What a step of the maintenance thread has to show: it never touches the
\* directory or the main loop, and while it takes steps it is not off.
LEMMA MaintKeeps ==
  ASSUME IInv, UNCHANGED execVars, UNCHANGED <<cwd, now, rows, stop, tick>>,
         maint' \in Runner, maint'.at # "off", lastRun' \in [Jobs -> Times],
         fails' \in 0..MaxFails, fired' \in [Jobs \X Times -> 0..2], NoChore' => NoChore,
         maint'.at \in {"enter", "run", "restore", "mark"} => HasJob(maint)'
  PROVE  IInv'
<1>1. NoCommand' => NoCommand
  BY NoneAsked
<1>2. Types'
  BY DEF IInv, Types, execVars
<1>3. Chosen'
  BY DEF IInv, Chosen, HasJob
<1>4. ChoresApart'
  BY <1>1 DEF IInv, ChoresApart
<1>5. OneThread'
  BY DEF OneThread
<1>6. tick'.at \in {"run", "restore", "mark"} => ~NoChore'
  BY DEF IInv, Recorded
<1> QED
  BY <1>2, <1>3, <1>4, <1>5, <1>6, CronKeeps

LEMMA MaintWakeKeeps ==
  ASSUME IInv, MaintWake
  PROVE  IInv'
<1>0. /\ maint' = Woken(maint)
      /\ UNCHANGED <<cwd, now, rows, lastRun, stop, tick, fails, fired>> /\ UNCHANGED execVars
  BY DEF MaintWake
<1>a. Types /\ maint \in Runner
  BY DEF IInv, Types
<1>1. maint' \in Runner /\ maint'.at = "pick"
  BY <1>0, <1>a, WokenTyped
<1>2. NoChore' => NoChore
  BY <1>0, NoneStarted
<1> QED
  BY <1>0, <1>a, <1>1, <1>2, MaintKeeps DEF Types

\* The thread passes a chore by, or starts it.
LEMMA MaintPickKeeps ==
  ASSUME IInv, MaintPick
  PROVE  IInv'
<1>0. /\ maint.at = "pick"
      /\ UNCHANGED <<cwd, now, rows, lastRun, stop, tick, fails>> /\ UNCHANGED execVars
  BY DEF MaintPick
<1>a. /\ maint \in Runner /\ lastRun \in [Jobs -> Times] /\ fails \in 0..MaxFails
      /\ fired \in [Jobs \X Times -> 0..2]
  BY DEF IInv, Types
<1>1. CASE maint' = Asleep /\ UNCHANGED fired
  <2>1. maint' \in Runner /\ maint'.at = "sleep"
    BY <1>1, AsleepTyped
  <2>2. NoChore' => NoChore
    BY <1>1, NoneStarted
  <2> QED
    BY <1>0, <1>a, <1>1, <2>1, <2>2, MaintKeeps
<1>2. ASSUME NEW e \in maint.due, maint' = [maint EXCEPT !.due = @ \ {e}], UNCHANGED fired
      PROVE  IInv'
  <2>1. maint' \in Runner /\ maint'.at = maint.at
    BY <1>a, <1>2, RunnerDrops, Zenon
  <2>2. NoChore' => NoChore
    BY <1>2, NoneStarted
  <2> QED
    BY <1>0, <1>a, <1>2, <2>1, <2>2, MaintKeeps
<1>3. ASSUME NEW e \in maint.due, maint' = [maint EXCEPT !.at = "run", !.job = e[1]], Start(e)
      PROVE  IInv'
  <2>1. e \in Jobs \X Times
    BY <1>a, RunnerFields
  <2>2. e[1] \in Jobs
    BY <2>1
  <2>3. /\ maint' \in Runner /\ maint'.at = "run" /\ maint'.due = maint.due
        /\ maint'.job = e[1]
    BY <1>a, <1>3, <2>2 DEF Runner
  <2>4. fired' \in [Jobs \X Times -> 0..2] /\ ~NoChore'
    BY <1>3, <2>1, StartRecords DEF IInv
  <2>5. HasJob(maint)'
    BY <2>2, <2>3 DEF HasJob
  <2> QED
    BY <1>0, <1>a, <2>3, <2>4, <2>5, MaintKeeps
<1> QED
  BY <1>1, <1>2, <1>3 DEF MaintPick

LEMMA MaintRanKeeps ==
  ASSUME IInv, MaintRan
  PROVE  IInv'
<1>0. /\ maint.at = "run"
      /\ UNCHANGED <<cwd, now, rows, stop, tick, fired>> /\ UNCHANGED execVars
  BY DEF MaintRan
<1>a. /\ maint \in Runner /\ lastRun \in [Jobs -> Times] /\ fails \in 0..MaxFails
      /\ fired \in [Jobs \X Times -> 0..2]
  BY DEF IInv, Types
<1>b. NoChore' => NoChore
  BY <1>0, NoneStarted
<1>1. CASE MarkRan(maint) /\ maint' = NextJob(maint) /\ UNCHANGED fails
  <2>1. maint' \in Runner /\ maint'.at = "pick"
    BY <1>a, <1>1, NextJobTyped
  <2>2. maint.now \in Times
    BY <1>a, RunnerFields
  <2>3. lastRun' \in [Jobs -> Times]
    BY <1>a, <1>1, <2>2 DEF MarkRan
  <2> QED
    BY <1>0, <1>a, <1>b, <1>1, <2>1, <2>3, MaintKeeps
<1>2. CASE fails < MaxFails /\ fails' = fails + 1 /\ maint' = Asleep /\ UNCHANGED lastRun
  <2>1. maint' \in Runner /\ maint'.at = "sleep"
    BY <1>2, AsleepTyped
  <2>2. fails' \in 0..MaxFails
    BY <1>a, <1>2, ServiceHostAssumption
  <2> QED
    BY <1>0, <1>a, <1>b, <1>2, <2>1, <2>2, MaintKeeps
<1> QED
  BY <1>1, <1>2 DEF MaintRan

LEMMA CronStepKeeps ==
  ASSUME IInv, TickStep \/ MaintStep
  PROVE  IInv'
BY TickWakeKeeps, TickDoneKeeps, TickPruneKeeps, TickPickKeeps, TickEnterKeeps,
   TickRanKeeps, TickRestoreKeeps, TickMarkKeeps, TickMarkThrowsKeeps, TickExitKeeps,
   MaintWakeKeeps, MaintPickKeeps, MaintRanKeeps
   DEF TickStep, MaintStep

-----------------------------------------------------------------------------
(* The exec server, and what comes from outside.                           *)

\* What a step that leaves the cron table and its runners alone has to show.
LEMMA ExecKeeps ==
  ASSUME IInv, UNCHANGED cronVars,
         now' \in Times, stop' \in BOOLEAN, cwd' \in Dirs, listening' \in BOOLEAN,
         pc' \in [Conns -> WorkerPlaces], asked' \in [Conns -> Asked \cup {None}],
         saved' \in [Conns -> Dirs \cup {None}], mutex' \in Conns \cup {None},
         WorkersCounted', MutexHeld', CommandsApart',
         \A c \in Inside' : saved'[c] \in Dirs,
         NoCommand' => NoCommand /\ cwd' = cwd
  PROVE  IInv'
<1>0. UNCHANGED <<rows, lastRun, tick, maint, fails, fired>>
  BY DEF cronVars
<1>1. Types'
  BY <1>0 DEF IInv, Types
<1>2. Chosen'
  BY <1>0 DEF IInv, Chosen, HasJob
<1>3. Recorded'
  BY <1>0 DEF IInv, Recorded, NoChore
<1>4. ChoresApart'
  BY <1>0 DEF IInv, ChoresApart
<1>5. OneThread'
  BY <1>0 DEF IInv, OneThread
<1> QED
  BY <1>1, <1>2, <1>3, <1>4, <1>5 DEF IInv

\* SIGTERM, and the clock.
LEMMA OutsideKeeps ==
  ASSUME IInv, Stop \/ Clock
  PROVE  IInv'
<1>0. UNCHANGED <<cwd, listening, pc, asked, saved, active, mutex>> /\ UNCHANGED cronVars
  BY DEF Stop, Clock, execVars
<1>a. Types
  BY DEF IInv
<1>1. now' \in Times /\ stop' \in BOOLEAN
  <2>1. now \in Times /\ stop \in BOOLEAN
    BY <1>a DEF Types
  <2>2. CASE Stop
    BY <2>1, <2>2 DEF Stop
  <2>3. CASE Clock
    <3>1. now' = now + 1 /\ now < MaxTime /\ stop' = stop
      BY <2>3 DEF Clock
    <3> QED
      BY <2>1, <3>1, ServiceHostAssumption DEF Times
  <2> QED
    BY <2>2, <2>3
<1>2. WorkersCounted'
  BY <1>0 DEF IInv, WorkersCounted, Counted
<1>3. MutexHeld' /\ \A c \in Inside' : saved'[c] \in Dirs
  BY <1>0 DEF IInv, MutexHeld, Inside, Recorded
<1>4. CommandsApart'
  BY <1>0 DEF IInv, CommandsApart, Inside, NoChore, cronVars
<1>5. NoCommand' => NoCommand
  BY <1>0 DEF NoCommand
<1> QED
  BY <1>0, <1>a, <1>1, <1>2, <1>3, <1>4, <1>5, ExecKeeps DEF Types

\* A worker moves: who is between its chdir and its undoing, and who is counted.
LEMMA WorkerMoves ==
  ASSUME Types, NEW c \in Conns, NEW q \in WorkerPlaces, To(c, q)
  PROVE  /\ pc' \in [Conns -> WorkerPlaces]
         /\ \A d \in Conns : pc'[d] = IF d = c THEN q ELSE pc[d]
         /\ Inside' = IF q \in {"chdir", "exec", "restore"}
                      THEN Inside \cup {c} ELSE Inside \ {c}
         /\ Counted' = IF q \in AtWork THEN Counted \cup {c} ELSE Counted \ {c}
<1>1. pc \in [Conns -> WorkerPlaces] /\ pc' = [pc EXCEPT ![c] = q]
  BY DEF Types, To
<1>2. \A d \in Conns : pc'[d] = IF d = c THEN q ELSE pc[d]
  BY <1>1
<1>3. Inside' = IF q \in {"chdir", "exec", "restore"} THEN Inside \cup {c} ELSE Inside \ {c}
  BY <1>2 DEF Inside
<1>4. Counted' = IF q \in AtWork THEN Counted \cup {c} ELSE Counted \ {c}
  BY <1>2 DEF Counted
<1> QED
  BY <1>1, <1>2, <1>3, <1>4

\* The count stays while nobody begins or ends.
LEMMA CountStays ==
  ASSUME WorkersCounted, UNCHANGED active, Counted' = Counted
  PROVE  WorkersCounted'
BY DEF WorkersCounted

\* The steps of a worker that is on neither side of the mutex.
LEMMA OutKeeps ==
  ASSUME IInv, NEW c \in Conns, NEW q \in WorkerPlaces, To(c, q),
         UNCHANGED cronVars, UNCHANGED <<cwd, now, stop, saved, mutex>>,
         listening' \in BOOLEAN, asked' \in [Conns -> Asked \cup {None}],
         pc[c] \notin {"chdir", "exec", "restore"}, q \notin {"chdir", "exec", "restore"},
         \A d \in Conns \ {c} : asked'[d] = asked[d],
         WorkersCounted'
  PROVE  IInv'
<1>a. Types /\ "exec" \in {"chdir", "exec", "restore"} /\ "chdir" \in {"chdir", "exec", "restore"}
  BY DEF IInv
<1>1. /\ pc' \in [Conns -> WorkerPlaces]
      /\ \A d \in Conns : pc'[d] = IF d = c THEN q ELSE pc[d]
      /\ Inside' = Inside \ {c}
  BY <1>a, WorkerMoves
<1>2. Inside' = Inside
  BY <1>1 DEF Inside
<1>3. MutexHeld'
  BY <1>2 DEF IInv, MutexHeld
<1>4. \A d \in Inside' : saved'[d] \in Dirs
  BY <1>2 DEF IInv, Recorded
<1>5. CommandsApart'
  <2> SUFFICES ASSUME NoChore PROVE CommandsApart'
    BY DEF CommandsApart, NoChore, cronVars
  <2>1. /\ \A d \in Inside : saved[d] = Home
        /\ \A d \in Conns : pc[d] = "chdir" => cwd = Home
        /\ \A d \in Conns : pc[d] = "exec" /\ Enterable(asked[d]) => cwd = asked[d]
        /\ Inside = {} => cwd = Home
    BY DEF IInv, CommandsApart
  <2>2. \A d \in Conns : pc'[d] = "exec" => d # c /\ pc[d] = "exec" /\ asked'[d] = asked[d]
    BY <1>a, <1>1
  <2>3. \A d \in Conns : pc'[d] = "chdir" => pc[d] = "chdir"
    BY <1>a, <1>1
  <2> QED
    BY <1>2, <2>1, <2>2, <2>3 DEF CommandsApart
<1>6. NoCommand' => NoCommand
  BY DEF NoCommand
<1> QED
  BY <1>a, <1>1, <1>3, <1>4, <1>5, <1>6, ExecKeeps DEF Types

LEMMA AcceptKeeps ==
  ASSUME IInv, NEW c \in Conns, Accept(c)
  PROVE  IInv'
<1>0. /\ pc[c] = "none" /\ listening' = ~stop
      /\ UNCHANGED <<cwd, now, stop, asked, saved, active, mutex>> /\ UNCHANGED cronVars
  BY DEF Accept
<1>1. PICK q \in {"refused", "started"} : To(c, q)
  BY DEF Accept
<1>2. q \in WorkerPlaces /\ q \notin AtWork /\ q \notin {"chdir", "exec", "restore"}
  BY DEF WorkerPlaces, AtWork
<1>3. Types /\ WorkersCounted
  BY DEF IInv
<1>4. Counted' = Counted \ {c} /\ c \notin Counted
  BY <1>0, <1>1, <1>2, <1>3, WorkerMoves DEF Counted, AtWork
<1>5. Counted' = Counted
  BY <1>4
<1>6. WorkersCounted'
  BY <1>0, <1>3, <1>5, CountStays
<1>7. asked' \in [Conns -> Asked \cup {None}] /\ listening' \in BOOLEAN
  BY <1>0, <1>3 DEF Types
<1> QED
  BY <1>0, <1>1, <1>2, <1>6, <1>7, OutKeeps

\* The worker counts itself.
LEMMA CountKeeps ==
  ASSUME IInv, NEW c \in Conns, Count(c)
  PROVE  IInv'
<1>0. /\ pc[c] = "started" /\ active' = active + 1 /\ To(c, "reading")
      /\ UNCHANGED <<cwd, now, stop, listening, asked, saved, mutex>> /\ UNCHANGED cronVars
  BY DEF Count
<1>2. "reading" \in WorkerPlaces /\ "reading" \in AtWork
  BY DEF WorkerPlaces, AtWork
<1>3. Types /\ WorkersCounted
  BY DEF IInv
<1>4. Counted' = Counted \cup {c} /\ c \notin Counted
  BY <1>0, <1>2, <1>3, WorkerMoves DEF Counted, AtWork
<1>5. IsFiniteSet(Counted) /\ active = Cardinality(Counted)
  BY <1>3 DEF WorkersCounted
<1>a. IsFiniteSet(Counted \cup {c}) /\ Cardinality(Counted \cup {c}) = Cardinality(Counted) + 1
  BY <1>4, <1>5, FS_AddElement
<1>6. WorkersCounted'
  BY <1>0, <1>4, <1>5, <1>a DEF WorkersCounted
<1>7. asked' \in [Conns -> Asked \cup {None}] /\ listening' \in BOOLEAN
  BY <1>0, <1>3 DEF Types
<1> QED
  BY <1>0, <1>2, <1>6, <1>7, OutKeeps

\* A connection that asks for nothing, or for a directory.
LEMMA ReadKeeps ==
  ASSUME IInv, NEW c \in Conns, Turn(c) \/ Request(c)
  PROVE  IInv'
<1>0. /\ pc[c] = "reading"
      /\ UNCHANGED <<cwd, now, stop, listening, saved, active, mutex>> /\ UNCHANGED cronVars
  BY DEF Turn, Request
<1>1. PICK q \in {"ending", "lock"} : To(c, q)
  BY DEF Turn, Request
<1>2. q \in WorkerPlaces /\ q \in AtWork /\ q \notin {"chdir", "exec", "restore"}
  BY DEF WorkerPlaces, AtWork
<1>3. Types /\ WorkersCounted
  BY DEF IInv
<1>4. Counted' = Counted \cup {c} /\ c \in Counted
  BY <1>0, <1>1, <1>2, <1>3, WorkerMoves DEF Counted, AtWork
<1>5. Counted' = Counted
  BY <1>4
<1>6. WorkersCounted'
  BY <1>0, <1>3, <1>5, CountStays
<1>7. /\ asked' \in [Conns -> Asked \cup {None}] /\ listening' \in BOOLEAN
      /\ \A d \in Conns \ {c} : asked'[d] = asked[d]
  BY <1>0, <1>3 DEF Types, Turn, Request
<1> QED
  BY <1>0, <1>1, <1>2, <1>6, <1>7, OutKeeps

\* The worker is through.
LEMMA EndKeeps ==
  ASSUME IInv, NEW c \in Conns, End(c)
  PROVE  IInv'
<1>0. /\ pc[c] = "ending" /\ active' = active - 1 /\ To(c, "gone")
      /\ UNCHANGED <<cwd, now, stop, listening, asked, saved, mutex>> /\ UNCHANGED cronVars
  BY DEF End
<1>2. "gone" \in WorkerPlaces /\ "gone" \notin AtWork
  BY DEF WorkerPlaces, AtWork
<1>3. Types /\ WorkersCounted
  BY DEF IInv
<1>4. Counted' = Counted \ {c} /\ c \in Counted
  BY <1>0, <1>2, <1>3, WorkerMoves DEF Counted, AtWork
<1>5. IsFiniteSet(Counted) /\ active = Cardinality(Counted)
  BY <1>3 DEF WorkersCounted
<1>a. IsFiniteSet(Counted \ {c}) /\ Cardinality(Counted \ {c}) = Cardinality(Counted) - 1
  BY <1>4, <1>5, FS_RemoveElement
<1>6. WorkersCounted'
  BY <1>0, <1>4, <1>5, <1>a DEF WorkersCounted
<1>7. asked' \in [Conns -> Asked \cup {None}] /\ listening' \in BOOLEAN
  BY <1>0, <1>3 DEF Types
<1> QED
  BY <1>0, <1>2, <1>6, <1>7, OutKeeps

\* The mutex is free, so nobody has left the directory the service is in.
LEMMA LockKeeps ==
  ASSUME IInv, NEW c \in Conns, Lock(c)
  PROVE  IInv'
<1>0. /\ pc[c] = "lock" /\ mutex = None /\ mutex' = c /\ To(c, "chdir")
      /\ saved' = [saved EXCEPT ![c] = cwd]
      /\ UNCHANGED <<cwd, now, stop, listening, asked, active>> /\ UNCHANGED cronVars
  BY DEF Lock
<1>2. "chdir" \in WorkerPlaces /\ "chdir" \in AtWork
  BY DEF WorkerPlaces, AtWork
<1>3. Types /\ WorkersCounted /\ MutexHeld
  BY DEF IInv
<1>4. /\ Counted' = Counted \cup {c} /\ c \in Counted
      /\ pc' \in [Conns -> WorkerPlaces]
      /\ \A d \in Conns : pc'[d] = IF d = c THEN "chdir" ELSE pc[d]
      /\ Inside' = Inside \cup {c}
  BY <1>0, <1>2, <1>3, WorkerMoves DEF Counted, AtWork
<1>5. Inside = {} /\ Inside \subseteq Conns
  BY <1>0, <1>3, ServiceHostAssumption DEF MutexHeld, Inside
<1>6. WorkersCounted'
  <2>1. Counted' = Counted
    BY <1>4
  <2> QED
    BY <1>0, <1>3, <2>1, CountStays
<1>7. MutexHeld'
  BY <1>0, <1>4, <1>5 DEF MutexHeld
<1>8. /\ saved' \in [Conns -> Dirs \cup {None}] /\ saved'[c] = cwd /\ cwd \in Dirs
  BY <1>0, <1>3 DEF Types
<1>9. CommandsApart'
  <2> SUFFICES ASSUME NoChore PROVE CommandsApart'
    BY <1>0 DEF CommandsApart, NoChore, cronVars
  <2>1. cwd = Home /\ cwd' = Home
    BY <1>0, <1>5 DEF IInv, CommandsApart
  <2>2. \A d \in Conns : pc'[d] # "exec"
    BY <1>4, <1>5 DEF Inside
  <2>3. \A d \in Inside' : saved'[d] = Home
    BY <1>4, <1>5, <1>8, <2>1
  <2> QED
    BY <1>4, <2>1, <2>2, <2>3 DEF CommandsApart
<1>10. \A d \in Inside' : saved'[d] \in Dirs
  BY <1>4, <1>5, <1>8
<1>11. ~NoCommand'
  BY <1>8, ServiceHostAssumption DEF NoCommand
<1> QED
  BY <1>0, <1>3, <1>4, <1>6, <1>7, <1>8, <1>9, <1>10, <1>11, ExecKeeps DEF Types

\* Only the holder of the mutex is between its chdir and its undoing.
LEMMA InsideIsOne ==
  ASSUME IInv, NEW c \in Conns, pc[c] \in {"chdir", "exec", "restore"}
  PROVE  /\ Inside = {c} /\ mutex = c /\ saved[c] \in Dirs /\ ~NoCommand
         /\ NoChore => saved[c] = Home
<1>1. c \in Inside
  BY DEF Inside
<1>2. mutex = c
  BY <1>1 DEF IInv, MutexHeld
<1>3. Inside = {c}
  BY <1>1, <1>2 DEF IInv, MutexHeld, Inside
<1>4. saved[c] \in Dirs
  BY <1>1 DEF IInv, Recorded
<1>5. ~NoCommand
  BY <1>4, ServiceHostAssumption DEF NoCommand
<1>6. NoChore => saved[c] = Home
  BY <1>1 DEF IInv, CommandsApart
<1> QED
  BY <1>2, <1>3, <1>4, <1>5, <1>6

\* The worker changes directory, runs its command, and changes back.
LEMMA HolderKeeps ==
  ASSUME IInv, NEW c \in Conns, Chdir(c) \/ Ran(c) \/ Restore(c)
  PROVE  IInv'
<1>0. /\ pc[c] \in {"chdir", "exec", "restore"}
      /\ UNCHANGED <<now, stop, listening, asked, saved, active>> /\ UNCHANGED cronVars
  BY DEF Chdir, Ran, Restore
<1>1. PICK q \in {"exec", "restore", "ending"} : To(c, q)
  BY DEF Chdir, Ran, Restore
<1>2. q \in WorkerPlaces /\ q \in AtWork
  BY DEF WorkerPlaces, AtWork
<1>3. Types /\ WorkersCounted
  BY DEF IInv
<1>4. /\ Counted' = Counted \cup {c} /\ c \in Counted
      /\ pc' \in [Conns -> WorkerPlaces]
      /\ \A d \in Conns : pc'[d] = IF d = c THEN q ELSE pc[d]
      /\ Inside' = IF q = "ending" THEN Inside \ {c} ELSE Inside \cup {c}
  BY <1>0, <1>1, <1>2, <1>3, WorkerMoves DEF Counted, AtWork
<1>5. /\ Inside = {c} /\ mutex = c /\ saved[c] \in Dirs /\ ~NoCommand
      /\ NoChore => saved[c] = Home
  BY <1>0, InsideIsOne
<1>6. WorkersCounted'
  <2>1. Counted' = Counted
    BY <1>4
  <2> QED
    BY <1>0, <1>3, <2>1, CountStays
<1>7. ~NoCommand'
  BY <1>0, <1>5 DEF NoCommand
<1>8. \A d \in Conns \ {c} : pc'[d] \notin {"chdir", "exec", "restore"}
  BY <1>4, <1>5 DEF Inside
<1>9. NoChore' => NoChore
  BY <1>0 DEF NoChore, cronVars
<1>a. CASE q \in {"exec", "restore"}
  <2>1. Chdir(c) \/ Ran(c)
    <3>1. pc'[c] \in {"exec", "restore"}
      BY <1>4, <1>a
    <3>2. Restore(c) => pc'[c] = "ending"
      BY <1>3 DEF Restore, To, Types
    <3> QED
      BY <3>1, <3>2
  <2>2. mutex' = mutex /\ cwd' \in Dirs
    BY <1>3, <2>1 DEF Chdir, Ran, Enterable, Types
  <2>3. Inside' = {c}
    BY <1>4, <1>5, <1>a
  <2>4. MutexHeld'
    BY <1>5, <2>2, <2>3 DEF MutexHeld
  <2>5. pc'[c] = "exec" /\ Enterable(asked'[c]) => cwd' = asked'[c]
    <3>1. Ran(c) => pc'[c] = "restore"
      BY <1>3 DEF Ran, To, Types
    <3> QED
      BY <1>0, <2>1, <3>1 DEF Chdir
  <2>6. CommandsApart'
    BY <1>0, <1>4, <1>5, <1>8, <1>9, <1>a, <2>3, <2>5 DEF CommandsApart
  <2> QED
    BY <1>0, <1>3, <1>4, <1>5, <1>6, <1>7, <2>2, <2>3, <2>4, <2>6, ExecKeeps DEF Types
<1>b. CASE q = "ending"
  <2>1. Restore(c)
    <3>1. pc'[c] = "ending"
      BY <1>4, <1>b
    <3>2. (Chdir(c) => pc'[c] = "exec") /\ (Ran(c) => pc'[c] = "restore")
      BY <1>3 DEF Chdir, Ran, To, Types
    <3> QED
      BY <3>1, <3>2
  <2>2. mutex' = None /\ cwd' = saved[c]
    BY <2>1 DEF Restore
  <2>3. Inside' = {}
    BY <1>4, <1>5, <1>b
  <2>4. MutexHeld'
    BY <2>2, <2>3, ServiceHostAssumption DEF MutexHeld
  <2>5. \A d \in Conns : pc'[d] \notin {"chdir", "exec"}
    BY <1>4, <1>8, <1>b
  <2>6. CommandsApart'
    BY <1>5, <1>9, <2>2, <2>3, <2>5 DEF CommandsApart
  <2> QED
    BY <1>0, <1>3, <1>4, <1>5, <1>6, <1>7, <2>2, <2>3, <2>4, <2>6, ExecKeeps DEF Types
<1> QED
  BY <1>a, <1>b

LEMMA WorkerKeeps ==
  ASSUME IInv, NEW c \in Conns, Accept(c) \/ WorkerStep(c)
  PROVE  IInv'
BY AcceptKeeps, CountKeeps, ReadKeeps, LockKeeps, HolderKeeps, EndKeeps DEF WorkerStep

LEMMA StutterKeeps ==
  ASSUME IInv, UNCHANGED vars
  PROVE  IInv'
<1>1. UNCHANGED <<cwd, now, rows, lastRun, stop, tick, maint, fails, fired>>
      /\ UNCHANGED execVars /\ UNCHANGED cronVars
  BY DEF vars, cronVars
<1>2. Types' /\ Chosen' /\ ChoresApart' /\ OneThread' /\ (NoChore' => NoChore)
  BY <1>1, NoneAsked, NoneStarted
     DEF IInv, Types, Chosen, HasJob, ChoresApart, OneThread, execVars
<1>3. tick'.at \in {"run", "restore", "mark"} => ~NoChore'
  BY <1>1, NoneStarted DEF IInv, Recorded
<1> QED
  BY <1>1, <1>2, <1>3, CronKeeps

LEMMA NextKeeps ==
  ASSUME IInv, [Next]_vars
  PROVE  IInv'
BY CronStepKeeps, OutsideKeeps, WorkerKeeps, StutterKeeps DEF Next

\* The invariant holds throughout the life of the service.
THEOREM Invariance == Spec => []IInv
<1>1. Init => IInv
  BY InitInv
<1>2. IInv /\ [Next]_vars => IInv'
  BY NextKeeps
<1> QED
  BY <1>1, <1>2, PTL DEF Spec

-----------------------------------------------------------------------------
\* Commands do not disturb each other, nor chores each other, and the service is
\* back where it was started when nothing runs - as long as only one of the two
\* has been at work (handleClient under g_chdir_mu; tickOnce, which restores).
THEOREM DirectoryIsKept == Spec => []DirectoryKept
<1>1. IInv => TypeOK
  <2> SUFFICES ASSUME IInv PROVE TypeOK
    OBVIOUS
  <2>1. Types /\ active = Cardinality(Counted)
    BY DEF IInv, WorkersCounted
  <2>2. Counted = {c \in Conns : pc[c] \in {"reading", "lock", "ending"}} \cup Inside
    BY DEF Counted, AtWork, Inside
  <2>3. active = Cardinality({c \in Conns : pc[c] \in {"reading", "lock", "ending"}} \cup Inside)
    BY <2>1, <2>2
  <2> QED
    BY <2>1, <2>3 DEF Types, TypeOK, Times, WorkerPlaces
<1>2. IInv => DirectoryKept
  BY <1>1 DEF IInv, CommandsApart, ChoresApart, DirectoryKept
<1> QED
  BY <1>2, Invariance, PTL

\* With the maintenance thread off and a store that does not fail, no chore is
\* started twice for one time it comes due (dueJobs and markRan in tickOnce).
THEOREM DueOnce == Spec => []EachDueOnce
<1>1. IInv => EachDueOnce
  <2> SUFFICES ASSUME IInv, maint.at = "off", fails = 0, NEW e \in DOMAIN fired
               PROVE  fired[e] <= 1
    BY DEF EachDueOnce
  <2>1. fired \in [Jobs \X Times -> 0..2]
    BY DEF IInv, Types
  <2>2. e \in Jobs \X Times /\ fired[e] \in 0..2
    BY <2>1
  <2>3. e = <<e[1], e[2]>> /\ e[1] \in Jobs /\ e[2] \in Times
    BY <2>2
  <2>4. fired[e] >= 1 => fired[e] = 1
    BY <2>3 DEF IInv, OneThread
  <2> QED
    BY <2>2, <2>4
<1> QED
  BY <1>1, Invariance, PTL

-----------------------------------------------------------------------------
(* The executable's files.                                                 *)

Exts == {"bak", "new", "swap", "deleted"}
Paths == Seq(Exts)
BakOf(m) == Append(m, "bak")
NewOf(m) == Append(m, "new")
SwapOf(m) == Append(m, "swap")
NewFile(f) == \E m \in Paths : f = NewOf(m)

\* The disk as a function of every path.
Absent == -1
content == [f \in Paths |-> IF f \in DOMAIN disk THEN disk[f] ELSE Absent]

Pended == {"p_remove", "p_old", "p_new", "p_back", "p_flag"}
Staging == {"a_probe", "a_probed", "a_download", "a_extract"}
Locking == {"a_remove", "a_old", "a_new", "a_copy", "a_copied", "a_back",
            "a_arm", "a_flag", "a_quit", "a_clear"}
Ready == {"a_lock", "a_remove", "a_old", "a_new", "a_arm", "a_copy"}
Checking == {"a_verify", "v_swap", "v_back", "v_drop"}
Undoing == {"r_swap", "r_back", "r_undo", "r_keep"}
Quiet == Ended \cup {"pending", "gate"}
Places == Quiet \cup Pended \cup Staging \cup {"a_lock"} \cup Locking \cup Checking \cup Undoing

Active(p) == Swapping(p) \/ Armed(p)
Alone == \A p, q \in Procs : p # q /\ Active(p) => ~Active(q)

DiskTyped == DOMAIN disk \subseteq Paths /\ \A f \in DOMAIN disk : disk[f] \in Versions
\* Flags name the executables of processes that set them and will not run again.
FlagsTyped == flags \subseteq {Icmg} \cup {self[q] : q \in {r \in Procs : at[r] \in {"a_quit", "done"}}}
SwapTypes ==
  /\ platform \in {"posix", "windows"}
  /\ DiskTyped
  /\ lock \in BOOLEAN
  /\ FlagsTyped
  /\ kills \in 0..MaxKills /\ jams \in 0..MaxJams
  /\ at \in [Procs -> Places]
  /\ img \in [Procs -> Paths] /\ self \in [Procs -> Paths]
  /\ rel \in [Procs -> Versions] /\ was \in [Procs -> Versions]
  /\ helper \in [Procs -> {"none", "wait", "old", "new", "flag"}]
  /\ \A p \in Procs : at[p] \in Staging => rel[p] # Torn

\* What was installed when p began is where p put it.
KeptBy(p) ==
  LET m == self[p] IN
  /\ at[p] \in {"p_new", "p_back", "p_flag", "a_new", "a_copy", "a_copied", "a_back", "a_clear",
                "a_verify", "v_swap", "v_back"} => content[BakOf(m)] = was[p]
  /\ at[p] = "v_drop" => content[m] = was[p]
  /\ at[p] \in {"r_back", "r_undo", "r_keep"} => content[SwapOf(m)] = was[p]

\* A helper acts once the process that spawned it has ended.
HelpersOutlive == \A p \in Procs :
  /\ Armed(p) => at[p] \in {"a_flag", "a_quit", "done"}
  /\ helper[p] \in {"old", "new", "flag"} => at[p] = "done"

\* While nothing is killed the lock belongs to somebody.
LockHeld == kills = 0 /\ lock => \E p \in Procs : at[p] \in Locking

\* POSIX
PosixImages == \A p \in Procs : Runs(p) =>
    (img[p] = Gone \/ content[img[p]] # Absent) /\ img[p] # BakOf(Gone) /\ ~NewFile(img[p])

PosixFiles ==
  /\ flags = {} /\ jams = 0
  /\ content[Gone] = Absent /\ content[BakOf(Gone)] = Absent
  /\ \A f \in Paths : content[f] = Torn => NewFile(f)

PosixPlace(p) ==
  LET m == self[p] IN
  /\ helper[p] = "none"
  /\ at[p] \notin Pended \cup {"a_copy", "a_copied", "a_back", "a_arm", "a_flag", "a_quit", "r_undo"}
  /\ Swapping(p) => m # Gone /\ m # BakOf(Gone) /\ ~NewFile(m)
  /\ Swapping(p) /\ at[p] \notin {"a_new", "v_back", "r_back"} => content[m] # Absent
  /\ at[p] \in Ready => content[NewOf(m)] > Torn
  /\ at[p] \in {"a_new", "a_clear", "a_verify", "v_swap", "v_back", "r_swap", "r_back"} => content[BakOf(m)] # Absent
  /\ at[p] \in {"v_back", "r_back", "r_keep"} => content[SwapOf(m)] # Absent

Between(p, f) == at[p] \in {"a_new", "v_back", "r_back"} /\ self[p] = f
Here(f) == content[f] # Absent \/ \E p \in Procs : Between(p, f)
Lost == content[Icmg] = Absent /\ \A p \in Procs : Swapping(p) => self[p] # Icmg
PosixLeft ==
  /\ kills = 0 => Here(Icmg)
  /\ kills = 1 => Here(Icmg) \/ (Lost /\ (content[NewOf(Icmg)] > Torn \/ (Here(BakOf(Icmg)) /\ Here(SwapOf(Icmg)))))

PosixInv == PosixImages /\ PosixFiles /\ PosixLeft /\ \A p \in Procs : PosixPlace(p)

\* Windows
Images == {Icmg, BakOf(Icmg), SwapOf(Icmg)}
WinImages == \A p \in Procs : Runs(p) => img[p] \in Images /\ content[img[p]] > Torn
WinPlace(p) ==
  /\ self[p] = Icmg
  /\ helper[p] \in {"wait", "old", "new"} \/ at[p] \in Ready => content[NewOf(Icmg)] > Torn
  /\ at[p] = "a_copied" => rel[p] # Torn
WinLeft == \E f \in Images \cup {NewOf(Icmg)} : content[f] > Torn
WinInv == WinImages /\ WinLeft /\ \A p \in Procs : WinPlace(p)

SettledPlace(p) ==
  /\ at[p] \in {"p_remove", "p_old", "p_new"} => content[NewOf(Icmg)] > Torn
  /\ at[p] \in {"p_new", "p_back", "a_new", "a_copy", "r_back", "r_undo"} => content[Icmg] = Absent
  /\ at[p] \in {"p_new", "p_back", "p_flag", "a_new", "a_copy", "a_copied", "a_back", "a_clear", "a_verify",
            "v_swap", "v_back", "r_swap", "r_back"} => content[BakOf(Icmg)] > Torn
  /\ at[p] \in {"a_copied", "a_back"} => content[Icmg] <= Torn
  /\ at[p] \in {"p_back", "a_copy", "a_copied", "a_back", "r_undo"} => jams = 1
  /\ at[p] \in {"p_flag", "a_clear", "a_verify", "v_swap", "v_drop", "r_keep"} => content[Icmg] > Torn
  /\ at[p] = "v_back" => content[Icmg] > Torn \/ (content[Icmg] = Absent /\ content[SwapOf(Icmg)] > Torn)
  /\ at[p] \in {"r_back", "r_undo"} => content[SwapOf(Icmg)] > Torn
Exposed(p) == helper[p] = "new" \/
  at[p] \in {"p_new", "p_back", "a_new", "a_copy", "a_copied", "a_back", "v_back", "r_back", "r_undo"}
Fine == content[Icmg] > Torn \/ (jams = 1 /\ content[Icmg] = Absent /\ content[SwapOf(Icmg)] > Torn)
Complete ==
  /\ content[BakOf(Icmg)] # Torn /\ content[SwapOf(Icmg)] # Torn
  /\ content[NewOf(Icmg)] = Torn => \E p \in Procs : at[p] \in {"a_probed", "a_extract"}
  /\ content[Icmg] = Torn => \E p \in Procs : at[p] \in {"a_copied", "a_back"}
SettledInv == Complete /\ (Fine \/ \E p \in Procs : Exposed(p)) /\ \A p \in Procs : SettledPlace(p)

SwapInv ==
  /\ SwapTypes /\ HelpersOutlive
  /\ mixed = {} =>
       /\ Alone /\ LockHeld
       /\ \A p \in Procs : KeptBy(p)
       /\ platform = "posix" => PosixInv
       /\ Windows => WinInv
       /\ Windows /\ kills = 0 /\ jams <= 1 => SettledInv

-----------------------------------------------------------------------------
\* Paths.

\* What the proofs need of the files around an executable.
Apart(m) ==
  /\ m \in Paths /\ BakOf(m) \in Paths /\ NewOf(m) \in Paths /\ SwapOf(m) \in Paths
  /\ BakOf(m) # m /\ NewOf(m) # m /\ SwapOf(m) # m
  /\ BakOf(m) # NewOf(m) /\ BakOf(m) # SwapOf(m) /\ NewOf(m) # SwapOf(m)
  /\ BakOf(m) # Icmg /\ NewOf(m) # Icmg /\ SwapOf(m) # Icmg
  /\ BakOf(m) # Gone /\ NewOf(m) # Gone /\ SwapOf(m) # Gone
  /\ NewFile(NewOf(m)) /\ ~NewFile(BakOf(m)) /\ ~NewFile(SwapOf(m))

LEMMA Extended ==
  ASSUME NEW m \in Paths, NEW n \in Paths, NEW e \in Exts, NEW f \in Exts
  PROVE  /\ Append(m, e) \in Paths /\ Append(m, e) # m /\ Append(m, e) # <<>>
         /\ Append(m, e) = Append(n, f) <=> m = n /\ e = f
<1>1. Append(m, e) \in Paths /\ Len(Append(m, e)) = Len(m) + 1 /\ Append(m, e) # <<>>
  BY AppendProperties DEF Paths
<1>2. Len(m) \in Nat
  BY LenProperties DEF Paths
<1>3. Append(m, e) # m
  BY <1>1, <1>2
<1>4. Append(m, e) = Append(n, f) <=> m = n /\ e = f
  BY AppendInjective DEF Paths
<1> QED
  BY <1>1, <1>3, <1>4

LEMMA GoneIs == Gone \in Paths /\ Icmg \in Paths /\ Gone = Append(Icmg, "deleted")
<1>1. <<>> \in Seq(Exts) /\ "deleted" \in Exts
  BY DEF Exts
<1>2. Append(<<>>, "deleted") = <<"deleted">>
  OBVIOUS
<1> QED
  BY <1>1, <1>2, AppendProperties DEF Gone, Icmg, Paths

LEMMA PathsApart == \A m \in Paths : Apart(m)
<1> TAKE m \in Paths
<1>1. {"bak", "new", "swap", "deleted"} \subseteq Exts /\ Icmg \in Paths
  BY GoneIs DEF Exts
<1>2. \A e, f \in Exts, n \in Paths :
         /\ Append(m, e) \in Paths /\ Append(m, e) # m /\ Append(m, e) # Icmg
         /\ Append(m, e) = Append(n, f) <=> m = n /\ e = f
  BY Extended DEF Icmg
<1>3. /\ BakOf(m) \in Paths /\ NewOf(m) \in Paths /\ SwapOf(m) \in Paths
      /\ BakOf(m) # m /\ NewOf(m) # m /\ SwapOf(m) # m
      /\ BakOf(m) # Icmg /\ NewOf(m) # Icmg /\ SwapOf(m) # Icmg
  BY <1>1, <1>2 DEF BakOf, NewOf, SwapOf
<1>4. BakOf(m) # NewOf(m) /\ BakOf(m) # SwapOf(m) /\ NewOf(m) # SwapOf(m)
  BY <1>1, <1>2 DEF BakOf, NewOf, SwapOf
<1>5. BakOf(m) # Gone /\ NewOf(m) # Gone /\ SwapOf(m) # Gone
  BY <1>1, <1>2, GoneIs DEF BakOf, NewOf, SwapOf
<1>6. NewFile(NewOf(m)) /\ ~NewFile(BakOf(m)) /\ ~NewFile(SwapOf(m))
  BY <1>1, <1>2 DEF BakOf, NewOf, SwapOf, NewFile
<1> QED
  BY <1>3, <1>4, <1>5, <1>6 DEF Apart

\* The files around another executable are others.
LEMMA Elsewhere ==
  ASSUME NEW m \in Paths, NEW n \in Paths, m # n
  PROVE  /\ BakOf(m) \notin {BakOf(n), NewOf(n), SwapOf(n)}
         /\ NewOf(m) \notin {BakOf(n), NewOf(n), SwapOf(n)}
         /\ SwapOf(m) \notin {BakOf(n), NewOf(n), SwapOf(n)}
<1>1. {"bak", "new", "swap"} \subseteq Exts
  BY DEF Exts
<1>2. \A e, f \in Exts : Append(m, e) # Append(n, f)
  BY Extended
<1> QED
  BY <1>1, <1>2 DEF BakOf, NewOf, SwapOf

LEMMA NamesApart == Icmg # Gone /\ ~NewFile(Icmg) /\ ~NewFile(Gone) /\ Icmg # BakOf(Gone)
<1>1. {"bak", "new", "deleted"} \subseteq Exts /\ Icmg \in Paths /\ Gone \in Paths
  BY GoneIs DEF Exts
<1>2. \A e \in Exts, n \in Paths : Append(n, e) # Icmg
  BY Extended DEF Icmg
<1>3. \A n \in Paths : Append(n, "new") # Gone
  BY <1>1, GoneIs, Extended
<1> QED
  BY <1>1, <1>2, <1>3, GoneIs DEF NewFile, NewOf, BakOf

-----------------------------------------------------------------------------
\* File operations, as changes of `content`.

LEMMA ContentIs ==
  ASSUME SwapTypes
  PROVE  /\ content \in [Paths -> Int]
         /\ \A f \in Paths : /\ content[f] >= Absent
                             /\ f \in DOMAIN disk <=> content[f] # Absent
                             /\ f \in DOMAIN disk => content[f] = disk[f] /\ content[f] \in Versions
                             /\ Usable(f) <=> content[f] > Torn
<1>1. Versions \subseteq Nat
  BY ReleaseAssumption DEF Versions, Torn
<1>2. \A f \in DOMAIN disk : disk[f] \in Nat
  BY <1>1 DEF SwapTypes, DiskTyped
<1> QED
  BY <1>1, <1>2 DEF content, Absent, Usable, Torn, SwapTypes, DiskTyped

LEMMA RenameIs ==
  ASSUME SwapTypes, NEW f \in Paths, NEW g \in Paths, f # g, f \in DOMAIN disk, Renamed(f, g)
  PROVE  /\ content[f] # Absent
         /\ content' = [content EXCEPT ![f] = Absent, ![g] = content[f]]
         /\ DiskTyped'
<1>1. disk' = [h \in (DOMAIN disk \ {f}) \cup {g} |->
                 IF h = g THEN disk[f] ELSE [i \in DOMAIN disk \ {f} |-> disk[i]][h]]
  BY DEF Renamed, With, Without
<1>2. DOMAIN disk' = (DOMAIN disk \ {f}) \cup {g}
  BY <1>1
<1>3. disk'[g] = disk[f] /\ \A h \in DOMAIN disk \ {f, g} : disk'[h] = disk[h]
  BY <1>1
<1>4. DiskTyped'
  BY <1>2, <1>3 DEF SwapTypes, DiskTyped
<1>5. \A h \in Paths : content'[h] = IF h = f THEN Absent ELSE IF h = g THEN content[f] ELSE content[h]
  BY <1>2, <1>3 DEF content
<1>6. content' \in [Paths -> Int] /\ content \in [Paths -> Int] /\ content[f] # Absent
  <2>1. content \in [Paths -> Int] /\ content[f] # Absent
    BY ContentIs
  <2>2. content' = [h \in Paths |-> content'[h]]
    BY DEF content
  <2> QED
    BY <2>1, <2>2, <1>5 DEF Absent
<1> QED
  BY <1>4, <1>5, <1>6

LEMMA WriteIs ==
  ASSUME SwapTypes, NEW f \in Paths, NEW v \in Versions, Write(f, v)
  PROVE  content' = [content EXCEPT ![f] = v] /\ DiskTyped' /\ img' = img
<1>1. /\ DOMAIN disk' = DOMAIN disk \cup {f} /\ img' = img
      /\ disk'[f] = v /\ \A h \in DOMAIN disk \ {f} : disk'[h] = disk[h]
  BY DEF Write, With
<1>2. DiskTyped'
  BY <1>1 DEF SwapTypes, DiskTyped
<1>3. \A h \in Paths : content'[h] = IF h = f THEN v ELSE content[h]
  BY <1>1 DEF content
<1>4. content \in [Paths -> Int] /\ content' = [h \in Paths |-> content'[h]]
  BY ContentIs DEF content
<1> QED
  BY <1>1, <1>2, <1>3, <1>4

LEMMA DeleteIs ==
  ASSUME SwapTypes, NEW f \in Paths, Delete(f)
  PROVE  /\ \/ content' = content /\ img' = img /\ (content[f] = Absent \/ Held(f))
            \/ /\ content' = [content EXCEPT ![f] = Absent] /\ ~Held(f)
               /\ img' = [q \in Procs |-> IF img[q] = f THEN Gone ELSE img[q]]
         /\ DiskTyped'
<1>1. CASE f \notin DOMAIN disk \/ Held(f)
  <2>1. disk' = disk /\ img' = img
    BY <1>1 DEF Delete, files
  <2>2. content' = content /\ DiskTyped'
    BY <2>1 DEF content, DiskTyped, SwapTypes
  <2>3. content[f] = Absent \/ Held(f)
    BY <1>1, ContentIs
  <2> QED
    BY <2>1, <2>2, <2>3
<1>2. CASE f \in DOMAIN disk /\ ~Held(f)
  <2>1. /\ disk' = [h \in DOMAIN disk \ {f} |-> disk[h]]
        /\ img' = [q \in Procs |-> IF img[q] = f THEN Gone ELSE img[q]]
    BY <1>2 DEF Delete, Without
  <2>2. DOMAIN disk' = DOMAIN disk \ {f} /\ \A h \in DOMAIN disk \ {f} : disk'[h] = disk[h]
    BY <2>1
  <2>3. DiskTyped'
    BY <2>2 DEF SwapTypes, DiskTyped
  <2>4. \A h \in Paths : content'[h] = IF h = f THEN Absent ELSE content[h]
    BY <2>2 DEF content
  <2>5. content \in [Paths -> Int] /\ content' = [h \in Paths |-> content'[h]]
    BY ContentIs DEF content
  <2> QED
    BY <1>2, <2>1, <2>3, <2>4, <2>5
<1> QED
  BY <1>1, <1>2

LEMMA StayIs ==
  ASSUME SwapTypes, UNCHANGED files
  PROVE  content' = content /\ DiskTyped' /\ img' = img
BY DEF files, content, DiskTyped, SwapTypes

Moved(f, g) ==
  /\ content[f] # Absent /\ ~Held(g)
  /\ content' = [content EXCEPT ![f] = Absent, ![g] = content[f]]
  /\ img' = [q \in Procs |-> IF img[q] = f THEN g ELSE IF img[q] = g THEN Gone ELSE img[q]]
  /\ jams' = jams
Refused(f, g) ==
  /\ content' = content /\ img' = img
  /\ \/ jams' = jams /\ (content[f] = Absent \/ Held(g))
     \/ Windows /\ jams' = jams + 1
Dropped(f) ==
  \/ content' = content /\ img' = img /\ (content[f] = Absent \/ Held(f))
  \/ /\ content' = [content EXCEPT ![f] = Absent] /\ ~Held(f)
     /\ img' = [q \in Procs |-> IF img[q] = f THEN Gone ELSE img[q]]
Wrote(f, v) == content' = [content EXCEPT ![f] = v] /\ img' = img

LEMMA RenameCases ==
  ASSUME SwapTypes, NEW p, NEW f \in Paths, NEW g \in Paths, f # g, NEW ok, NEW failed,
         Rename(p, f, g, ok, failed)
  PROVE  /\ DiskTyped' /\ jams' \in 0..MaxJams
         /\ (Moved(f, g) /\ Goto(p, ok)) \/ (Refused(f, g) /\ Goto(p, failed))
<1>1. CASE CanRename(f, g) /\ Renamed(f, g) /\ Goto(p, ok) /\ UNCHANGED jams
  <2>1. f \in DOMAIN disk /\ ~Held(g)
    BY <1>1 DEF CanRename
  <2>2. /\ content[f] # Absent /\ DiskTyped'
        /\ content' = [content EXCEPT ![f] = Absent, ![g] = content[f]]
    BY <1>1, <2>1, RenameIs
  <2>3. img' = [q \in Procs |-> IF img[q] = f THEN g ELSE IF img[q] = g THEN Gone ELSE img[q]]
    BY <1>1 DEF Renamed
  <2> QED
    BY <1>1, <2>1, <2>2, <2>3 DEF Moved, SwapTypes
<1>2. CASE ~CanRename(f, g) /\ Goto(p, failed) /\ UNCHANGED <<files, jams>>
  <2>1. content' = content /\ img' = img /\ DiskTyped'
    BY <1>2, StayIs
  <2>2. content[f] = Absent \/ Held(g)
    BY <1>2, ContentIs DEF CanRename
  <2> QED
    BY <1>2, <2>1, <2>2 DEF Refused, SwapTypes
<1>3. CASE Windows /\ jams < MaxJams /\ jams' = jams + 1 /\ Goto(p, failed) /\ UNCHANGED files
  <2>1. content' = content /\ img' = img /\ DiskTyped'
    BY <1>3, StayIs
  <2>2. jams' \in 0..MaxJams
    BY <1>3, ReleaseAssumption DEF SwapTypes
  <2> QED
    BY <1>3, <2>1, <2>2 DEF Refused
<1> QED
  BY <1>1, <1>2, <1>3 DEF Rename

LEMMA DropCases ==
  ASSUME SwapTypes, NEW f \in Paths, Delete(f)
  PROVE  DiskTyped' /\ Dropped(f)
BY DeleteIs DEF Dropped

LEMMA WriteCases ==
  ASSUME SwapTypes, NEW f \in Paths, NEW v \in Versions, Write(f, v)
  PROVE  DiskTyped' /\ Wrote(f, v)
BY WriteIs DEF Wrote

LEMMA RememberIs ==
  ASSUME SwapTypes, NEW p \in Procs, Remember(p)
  PROVE  /\ was' \in [Procs -> Versions] /\ \A q \in Procs \ {p} : was'[q] = was[q]
         /\ content[self[p]] # Absent => was'[p] = content[self[p]]
<1>1. self[p] \in Paths /\ 0 \in Versions
  BY DEF SwapTypes, Versions, Torn
<1>2. /\ self[p] \in DOMAIN disk <=> content[self[p]] # Absent
      /\ self[p] \in DOMAIN disk => disk[self[p]] \in Versions /\ disk[self[p]] = content[self[p]]
  BY <1>1, ContentIs
<1> QED
  BY <1>1, <1>2 DEF Remember, SwapTypes

LEMMA ExtIs ==
  ASSUME NEW p
  PROVE  Ext(p, "bak") = BakOf(self[p]) /\ Ext(p, "new") = NewOf(self[p]) /\ Ext(p, "swap") = SwapOf(self[p])
BY DEF Ext, BakOf, NewOf, SwapOf

-----------------------------------------------------------------------------
\* Types.

LEMMA FlagsStay ==
  ASSUME SwapTypes, flags' \subseteq flags, self' \in [Procs -> Paths],
         \A q \in Procs : at[q] \in {"a_quit", "done"} =>
            self'[q] = self[q] /\ at'[q] \in {"a_quit", "done"}
  PROVE  FlagsTyped'
BY DEF SwapTypes, FlagsTyped

LEMMA NextPlace ==
  ASSUME SwapTypes, NEW p \in Procs, NEW l \in Places, Goto(p, l)
  PROVE  at' \in [Procs -> Places] /\ at'[p] = l /\ \A q \in Procs \ {p} : at'[q] = at[q]
BY DEF SwapTypes, Goto

LEMMA PlacesAre == {"idle", "done", "pending", "gate", "p_remove", "p_old", "p_new", "p_back", "p_flag",
   "a_probe", "a_probed", "a_download", "a_extract", "a_lock", "a_remove", "a_old", "a_new", "a_copy",
   "a_copied", "a_back", "a_arm", "a_flag", "a_quit", "a_clear", "a_verify", "v_swap", "v_back", "v_drop",
   "r_swap", "r_back", "r_undo", "r_keep"} = Places
BY DEF Places, Quiet, Ended, Pended, Staging, Locking, Checking, Undoing

LEMMA LaunchTyped ==
  ASSUME SwapTypes, NEW p \in Procs, Launch(p), UNCHANGED platform
  PROVE  SwapTypes'
<1>1. content' = content /\ DiskTyped'
  BY DEF Launch, content, SwapTypes, DiskTyped
<1>2. at' \in [Procs -> Places] /\ at'[p] = "pending" /\ \A q \in Procs \ {p} : at'[q] = at[q]
  BY NextPlace, PlacesAre DEF Launch
<1>3. img' \in [Procs -> Paths]
  BY GoneIs DEF Launch, SwapTypes
<1>4. FlagsTyped'
  BY <1>2, FlagsStay DEF Launch, SwapTypes, At
<1>5. \A q \in Procs : at'[q] \in Staging => rel'[q] # Torn
  BY <1>2 DEF Launch, SwapTypes, Staging
<1> QED
  BY <1>1, <1>2, <1>3, <1>4, <1>5 DEF Launch, SwapTypes

LEMMA ImagesTyped ==
  ASSUME SwapTypes, NEW f \in Paths, NEW g \in Paths,
         \/ Moved(f, g) \/ Refused(f, g) \/ Dropped(f) \/ img' = img
  PROVE  img' \in [Procs -> Paths]
BY GoneIs DEF Moved, Refused, Dropped, SwapTypes

LEMMA SameTyped ==
  ASSUME SwapTypes, NEW p \in Procs, NEW l \in Places, Goto(p, l), at[p] \notin {"a_quit", "done"},
         l \in Staging => at[p] \in Staging, Same, UNCHANGED platform,
         DiskTyped', jams' \in 0..MaxJams, img' \in [Procs -> Paths], was' \in [Procs -> Versions]
  PROVE  SwapTypes'
<1>1. at' \in [Procs -> Places] /\ at'[p] = l /\ \A q \in Procs \ {p} : at'[q] = at[q]
  BY NextPlace
<1>2. FlagsTyped'
  BY <1>1, FlagsStay DEF Same, mine, SwapTypes
<1>3. \A q \in Procs : at'[q] \in Staging => rel'[q] # Torn
  BY <1>1 DEF Same, mine, SwapTypes
<1> QED
  BY <1>1, <1>2, <1>3 DEF Same, mine, SwapTypes

LEMMA RenameTyped ==
  ASSUME SwapTypes, NEW p \in Procs, NEW f \in Paths, NEW g \in Paths, f # g,
         NEW ok \in Places \ Staging, NEW failed \in Places \ Staging, Rename(p, f, g, ok, failed),
         at[p] \notin {"a_quit", "done"}, Same, UNCHANGED platform, was' \in [Procs -> Versions]
  PROVE  SwapTypes'
<1>1. /\ DiskTyped' /\ jams' \in 0..MaxJams
      /\ (Moved(f, g) /\ Goto(p, ok)) \/ (Refused(f, g) /\ Goto(p, failed))
  BY RenameCases
<1>2. img' \in [Procs -> Paths]
  BY <1>1, ImagesTyped
<1> QED
  BY <1>1, <1>2, SameTyped

LEMMA RemoveTyped ==
  ASSUME SwapTypes, NEW p \in Procs, NEW f \in Paths, NEW l \in Places \ Staging, Remove(p, f, l),
         at[p] \notin {"a_quit", "done"}, Same, UNCHANGED platform, UNCHANGED was
  PROVE  SwapTypes'
<1>1. DiskTyped' /\ Dropped(f) /\ Goto(p, l) /\ jams' = jams
  BY DropCases DEF Remove
<1>2. img' \in [Procs -> Paths]
  BY <1>1, ImagesTyped
<1> QED
  BY <1>1, <1>2, SameTyped DEF SwapTypes

LEMMA MyPaths ==
  ASSUME SwapTypes, NEW p \in Procs
  PROVE  /\ Apart(self[p])
         /\ self[p] \in Paths /\ Ext(p, "bak") \in Paths /\ Ext(p, "new") \in Paths /\ Ext(p, "swap") \in Paths
         /\ Ext(p, "bak") # self[p] /\ Ext(p, "new") # self[p] /\ Ext(p, "swap") # self[p]
         /\ Ext(p, "swap") # Ext(p, "bak")
BY PathsApart, ExtIs DEF SwapTypes, Apart

LEMMA SwapsTyped ==
  ASSUME SwapTypes, NEW p \in Procs, UNCHANGED platform, PendingStep(p) \/ Install(p) \/ Verify(p)
  PROVE  SwapTypes'
<1>0. {"gate", "done", "p_old", "p_new", "p_back", "p_flag", "a_old", "a_new", "a_arm", "a_copy", "a_quit",
       "a_clear", "v_swap", "v_back", "v_drop"} \subseteq Places \ Staging
  BY PlacesAre DEF Staging
<1>1. was' \in [Procs -> Versions]
  BY RememberIs DEF PendingStep, Install, Verify, SwapTypes
<1>2. at[p] \notin {"a_quit", "done"} /\ Same
  BY DEF PendingStep, Install, Verify, At
<1>3. CASE PendingStep(p)
  BY <1>0, <1>1, <1>2, <1>3, MyPaths, RenameTyped, RemoveTyped DEF PendingStep
<1>4. CASE Install(p)
  BY <1>0, <1>1, <1>2, <1>4, MyPaths, RenameTyped, RemoveTyped DEF Install
<1>5. CASE Verify(p)
  <2>1. CASE (Goto(p, "done") \/ Goto(p, "v_swap")) /\ UNCHANGED <<files, jams>>
    <3>1. DiskTyped' /\ img' = img /\ jams' = jams
      BY <2>1, StayIs
    <3> QED
      BY <1>0, <1>1, <1>2, <2>1, <3>1, SameTyped DEF SwapTypes
  <2>2. CASE ~((Goto(p, "done") \/ Goto(p, "v_swap")) /\ UNCHANGED <<files, jams>>)
    <3>1. UNCHANGED was
      BY <1>5 DEF Verify
    <3> QED
      BY <1>0, <1>1, <1>2, <1>5, <2>2, <3>1, MyPaths, RenameTyped, RemoveTyped DEF Verify
  <2> QED
    BY <2>1, <2>2
<1> QED
  BY <1>3, <1>4, <1>5

LEMMA SelfPathTyped ==
  ASSUME SwapTypes, NEW p \in Procs
  PROVE  SelfPath(p) \in Paths
BY GoneIs DEF SelfPath, SwapTypes

\* The steps that touch no file.
LEMMA PendingTyped ==
  ASSUME SwapTypes, NEW p \in Procs, UNCHANGED platform, Pending(p)
  PROVE  SwapTypes'
<1>1. DiskTyped' /\ img' = img
  BY StayIs DEF Pending
<1>2. /\ at' \in [Procs -> Places] /\ at'[p] \in {"p_remove", "gate"}
      /\ \A q \in Procs \ {p} : at'[q] = at[q]
  BY NextPlace, PlacesAre DEF Pending
<1>3. self' \in [Procs -> Paths] /\ \A q \in Procs \ {p} : self'[q] = self[q]
  BY SelfPathTyped DEF Pending, SwapTypes
<1>4. FlagsTyped'
  <2>1. flags' \subseteq flags /\ at[p] = "pending"
    BY DEF Pending, At
  <2> QED
    BY <2>1, <1>2, <1>3, FlagsStay DEF SwapTypes
<1>5. \A q \in Procs : at'[q] \in Staging => rel'[q] # Torn
  BY <1>2 DEF Pending, SwapTypes, Staging
<1> QED
  BY <1>1, <1>2, <1>3, <1>4, <1>5 DEF Pending, SwapTypes

LEMMA FetchTyped ==
  ASSUME SwapTypes, NEW p \in Procs, UNCHANGED platform, Fetch(p)
  PROVE  SwapTypes'
<1>1. DiskTyped' /\ img' = img
  BY StayIs DEF Fetch
<1>2. /\ at' \in [Procs -> Places] /\ at'[p] \in {"done", "a_probe"}
      /\ \A q \in Procs \ {p} : at'[q] = at[q]
  BY NextPlace, PlacesAre DEF Fetch
<1>3. self' \in [Procs -> Paths] /\ \A q \in Procs \ {p} : self'[q] = self[q]
  BY SelfPathTyped DEF Fetch, SwapTypes
<1>4. FlagsTyped'
  <2>1. flags' = flags /\ at[p] = "gate"
    BY DEF Fetch, At
  <2> QED
    BY <2>1, <1>2, <1>3, FlagsStay DEF SwapTypes
<1>5. /\ rel' \in [Procs -> Versions] /\ \A q \in Procs \ {p} : rel'[q] = rel[q]
      /\ at'[p] = "done" \/ rel'[p] # Torn
  <2>1. Releases \subseteq Versions /\ Torn \notin Releases
    BY ReleaseAssumption DEF Versions, Torn
  <2>2. CASE Goto(p, "done") /\ UNCHANGED <<self, rel>>
    BY <2>2 DEF SwapTypes, Goto
  <2>3. CASE ~(Goto(p, "done") /\ UNCHANGED <<self, rel>>)
    <3>1. PICK r \in Releases : rel' = [rel EXCEPT ![p] = r]
      BY <2>3 DEF Fetch
    <3> QED
      BY <2>1, <3>1 DEF SwapTypes
  <2> QED
    BY <2>2, <2>3
<1>6. \A q \in Procs : at'[q] \in Staging => rel'[q] # Torn
  BY <1>2, <1>5 DEF SwapTypes, Staging
<1> QED
  BY <1>1, <1>2, <1>3, <1>4, <1>5, <1>6 DEF Fetch, SwapTypes

LEMMA StageTyped ==
  ASSUME SwapTypes, NEW p \in Procs, UNCHANGED platform, Stage(p)
  PROVE  SwapTypes'
<1>1. /\ Ext(p, "new") \in Paths /\ Torn \in Versions /\ rel[p] \in Versions
      /\ at[p] \in Staging /\ Same /\ jams' = jams /\ was' = was
  BY MyPaths DEF Stage, SwapTypes, Versions, At, Staging
<1>2. DiskTyped' /\ (Dropped(Ext(p, "new")) \/ img' = img)
  BY <1>1, DropCases, WriteCases, StayIs DEF Stage, Wrote
<1>3. \E l \in {"a_probed", "a_download", "done", "a_extract", "a_lock"} : Goto(p, l)
  BY DEF Stage
<1>4. img' \in [Procs -> Paths]
  BY <1>1, <1>2, ImagesTyped
<1> QED
  BY <1>1, <1>2, <1>3, <1>4, SameTyped, PlacesAre DEF Staging, SwapTypes

LEMMA TakeOverTyped ==
  ASSUME SwapTypes, NEW p \in Procs, UNCHANGED platform, TakeOver(p)
  PROVE  SwapTypes'
<1>1. DiskTyped' /\ img' = img
  BY StayIs DEF TakeOver
<1>2. /\ at' \in [Procs -> Places]
      /\ \A q \in Procs : at'[q] \in {"a_remove", "done", at[q]}
      /\ \A q \in Procs : at[q] \in {"a_quit", "done"} => at'[q] \in {"a_quit", "done"}
  BY PlacesAre DEF TakeOver, At, SwapTypes
<1>3. FlagsTyped'
  BY <1>2, FlagsStay DEF TakeOver, SwapTypes, mine
<1>4. \A q \in Procs : at'[q] \in Staging => rel'[q] # Torn
  BY <1>2 DEF TakeOver, mine, SwapTypes, Staging
<1> QED
  BY <1>1, <1>2, <1>3, <1>4 DEF TakeOver, mine, SwapTypes

LEMMA CopyTyped ==
  ASSUME SwapTypes, NEW p \in Procs, UNCHANGED platform, Copy(p)
  PROVE  SwapTypes'
<1>1. self[p] \in Paths /\ Torn \in Versions /\ rel[p] \in Versions /\ at[p] \in {"a_copy", "a_copied"}
  BY MyPaths DEF Copy, SwapTypes, Versions, At
<1>2. DiskTyped' /\ img' = img
  BY <1>1, WriteCases, StayIs DEF Copy, Wrote
<1>3. /\ at' \in [Procs -> Places] /\ at'[p] \in {"a_copied", "a_back", "a_clear"}
      /\ \A q \in Procs \ {p} : at'[q] = at[q]
  BY NextPlace, PlacesAre DEF Copy
<1>4. rel' \in [Procs -> Versions] /\ \A q \in Procs \ {p} : rel'[q] = rel[q]
  BY DEF Copy, SwapTypes, DiskTyped
<1>5. FlagsTyped'
  BY <1>1, <1>3, FlagsStay DEF Copy, SwapTypes
<1>6. \A q \in Procs : at'[q] \in Staging => rel'[q] # Torn
  BY <1>3, <1>4 DEF SwapTypes, Staging
<1> QED
  BY <1>2, <1>3, <1>4, <1>5, <1>6 DEF Copy, SwapTypes

LEMMA PlainTyped ==
  ASSUME SwapTypes, NEW p \in Procs, UNCHANGED platform, PendingDone(p) \/ Gate(p) \/ Clear(p)
  PROVE  SwapTypes'
<1>1. DiskTyped' /\ img' = img /\ UNCHANGED <<mine, helper, kills, jams, was>>
  BY StayIs DEF PendingDone, Gate, Clear, Same
<1>2. /\ at' \in [Procs -> Places] /\ at'[p] \in {"gate", "done", "a_verify"}
      /\ \A q \in Procs \ {p} : at'[q] = at[q]
  BY NextPlace, PlacesAre DEF PendingDone, Gate, Clear
<1>3. /\ flags' \subseteq flags /\ lock' \in BOOLEAN
      /\ at[p] \in {"p_flag", "gate", "a_clear"} \/ at'[p] = "done"
  BY <1>2 DEF PendingDone, Gate, Clear, Same, SwapTypes, At, Goto
<1>4. FlagsTyped'
  <2>1. self' = self /\ self' \in [Procs -> Paths]
    BY <1>1 DEF mine, SwapTypes
  <2>2. \A q \in Procs : at[q] \in {"a_quit", "done"} => at'[q] \in {"a_quit", "done"}
    BY <1>2, <1>3
  <2> QED
    BY <1>3, <2>1, <2>2, FlagsStay
<1>5. \A q \in Procs : at'[q] \in Staging => rel'[q] # Torn
  BY <1>1, <1>2 DEF mine, SwapTypes, Staging
<1> QED
  BY <1>1, <1>2, <1>3, <1>4, <1>5 DEF mine, SwapTypes

LEMMA ArmTyped ==
  ASSUME SwapTypes, NEW p \in Procs, UNCHANGED platform, Arm(p)
  PROVE  SwapTypes'
<1>1. DiskTyped' /\ img' = img
  BY StayIs DEF Arm
<1>2. at' \in [Procs -> Places] /\ at'[p] = "a_flag" /\ \A q \in Procs \ {p} : at'[q] = at[q]
  BY NextPlace, PlacesAre DEF Arm
<1>3. FlagsTyped'
  BY <1>2, FlagsStay DEF Arm, At, mine, SwapTypes
<1>4. \A q \in Procs : at'[q] \in Staging => rel'[q] # Torn
  BY <1>2 DEF Arm, mine, SwapTypes, Staging
<1> QED
  BY <1>1, <1>2, <1>3, <1>4 DEF Arm, mine, SwapTypes

LEMMA FlagTyped ==
  ASSUME SwapTypes, NEW p \in Procs, UNCHANGED platform, Flag(p)
  PROVE  SwapTypes'
<1>1. Ext(p, "new") \in Paths
  BY MyPaths
<1>2. DiskTyped' /\ (Dropped(Ext(p, "new")) \/ img' = img)
  BY <1>1, DropCases, StayIs DEF Flag
<1>3. img' \in [Procs -> Paths]
  BY <1>1, <1>2, ImagesTyped
<1>4. at' \in [Procs -> Places] /\ at'[p] = "a_quit" /\ \A q \in Procs \ {p} : at'[q] = at[q]
  BY NextPlace, PlacesAre DEF Flag
<1>5. self' = self /\ rel' = rel /\ flags' \subseteq flags \cup {self[p]} /\ at[p] = "a_flag"
  BY DEF Flag, mine, At
<1>6. FlagsTyped'
  BY <1>4, <1>5 DEF SwapTypes, FlagsTyped
<1>7. \A q \in Procs : at'[q] \in Staging => rel'[q] # Torn
  BY <1>4, <1>5 DEF SwapTypes, Staging
<1> QED
  BY <1>2, <1>3, <1>4, <1>5, <1>6, <1>7 DEF Flag, mine, SwapTypes

LEMMA RollbackTyped ==
  ASSUME SwapTypes, NEW p \in Procs, UNCHANGED platform, Rollback(p)
  PROVE  SwapTypes'
<1>1. CASE At(p, "gate")
  <2>1. DiskTyped' /\ img' = img /\ UNCHANGED <<flags, lock, helper, cmd, ver, rel, kills, jams, was>>
    BY <1>1, StayIs DEF Rollback, At
  <2>2. /\ at' \in [Procs -> Places] /\ at'[p] \in {"r_swap", "done"}
        /\ \A q \in Procs \ {p} : at'[q] = at[q]
    BY <1>1, NextPlace, PlacesAre DEF Rollback, At
  <2>3. self' \in [Procs -> Paths] /\ \A q \in Procs \ {p} : self'[q] = self[q]
    BY <1>1, SelfPathTyped DEF Rollback, SwapTypes, At
  <2>4. FlagsTyped'
    BY <1>1, <2>1, <2>2, <2>3, FlagsStay DEF At
  <2>5. \A q \in Procs : at'[q] \in Staging => rel'[q] # Torn
    BY <2>1, <2>2 DEF SwapTypes, Staging
  <2> QED
    BY <2>1, <2>2, <2>3, <2>4, <2>5 DEF SwapTypes
<1>2. CASE ~At(p, "gate")
  <2>0. {"done", "r_back", "r_keep", "r_undo"} \subseteq Places \ Staging
    BY PlacesAre DEF Staging
  <2>1. was' \in [Procs -> Versions]
    BY <1>2, RememberIs DEF Rollback, SwapTypes
  <2>2. at[p] \notin {"a_quit", "done"} /\ Same
    BY <1>2 DEF Rollback, At, Same, mine
  <2> QED
    BY <1>2, <2>0, <2>1, <2>2, MyPaths, RenameTyped DEF Rollback
<1> QED
  BY <1>1, <1>2

LEMMA ShellCases ==
  ASSUME SwapTypes, NEW p \in Procs, NEW f \in Paths, NEW g \in Paths, f # g, NEW l, Shell(p, f, g, l)
  PROVE  DiskTyped' /\ helper' = [helper EXCEPT ![p] = l]
         /\ \/ content[f] # Absent /\ ~Held(g)
               /\ content' = [content EXCEPT ![f] = Absent, ![g] = content[f]]
               /\ img' = [q \in Procs |-> IF img[q] = f THEN g ELSE IF img[q] = g THEN Gone ELSE img[q]]
            \/ content' = content /\ img' = img /\ (content[f] = Absent \/ Held(g))
<1>1. CASE CanRename(f, g)
  <2>1. f \in DOMAIN disk /\ ~Held(g) /\ Renamed(f, g)
    BY <1>1 DEF CanRename, Shell
  <2>2. /\ content[f] # Absent /\ DiskTyped'
        /\ content' = [content EXCEPT ![f] = Absent, ![g] = content[f]]
    BY <2>1, RenameIs
  <2> QED
    BY <2>1, <2>2 DEF Renamed, Shell
<1>2. CASE ~CanRename(f, g)
  <2>1. content' = content /\ img' = img /\ DiskTyped'
    BY <1>2, StayIs DEF Shell
  <2>2. content[f] = Absent \/ Held(g)
    BY <1>2, ContentIs DEF CanRename
  <2> QED
    BY <2>1, <2>2 DEF Shell
<1> QED
  BY <1>1, <1>2

LEMMA HelperTyped ==
  ASSUME SwapTypes, NEW p \in Procs, UNCHANGED platform, Helper(p)
  PROVE  SwapTypes'
<1>1. UNCHANGED <<lock, at, mine, kills, jams, was>>
  BY DEF Helper
<1>2. /\ Ext(p, "bak") \in Paths /\ Ext(p, "new") \in Paths /\ self[p] \in Paths
      /\ self[p] # Ext(p, "bak") /\ Ext(p, "new") # self[p]
  BY MyPaths
<1>3. DiskTyped' /\ img' \in [Procs -> Paths]
  <2>1. CASE Delete(Ext(p, "bak"))
    BY <1>2, <2>1, DropCases, ImagesTyped
  <2>2. CASE UNCHANGED files
    BY <2>2, <1>2, StayIs, ImagesTyped
  <2>3. CASE Shell(p, self[p], Ext(p, "bak"), "new") \/ Shell(p, Ext(p, "new"), self[p], "flag")
    <3>1. PICK f \in Paths, g \in Paths, l \in {"new", "flag"} : f # g /\ Shell(p, f, g, l)
      BY <1>2, <2>3
    <3>2. DiskTyped' /\ (img' = img \/ img' = [q \in Procs |-> IF img[q] = f THEN g ELSE IF img[q] = g THEN Gone ELSE img[q]])
      BY <3>1, ShellCases
    <3> QED
      BY <3>2, GoneIs DEF SwapTypes
  <2> QED
    BY <2>1, <2>2, <2>3 DEF Helper
<1>4. helper' \in [Procs -> {"none", "wait", "old", "new", "flag"}]
  BY DEF Helper, Shell, SwapTypes
<1>5. flags' \subseteq flags
  BY DEF Helper
<1>6. FlagsTyped'
  BY <1>1, <1>5, FlagsStay DEF mine, SwapTypes
<1> QED
  BY <1>1, <1>3, <1>4, <1>6 DEF mine, SwapTypes

LEMMA KillTyped ==
  ASSUME SwapTypes, NEW p \in Procs, UNCHANGED platform, Kill(p)
  PROVE  SwapTypes'
<1>1. DiskTyped' /\ img' = img /\ UNCHANGED <<flags, lock, mine, jams, was>>
  BY StayIs DEF Kill
<1>2. /\ at' \in [Procs -> Places] /\ at'[p] \in {"done", at[p]}
      /\ \A q \in Procs \ {p} : at'[q] = at[q]
  BY PlacesAre DEF Kill, Goto, SwapTypes
<1>3. helper' \in [Procs -> {"none", "wait", "old", "new", "flag"}]
  BY DEF Kill, SwapTypes
<1>4. kills' \in 0..MaxKills
  BY ReleaseAssumption DEF Kill, SwapTypes
<1>5. FlagsTyped'
  BY <1>1, <1>2, FlagsStay DEF mine, SwapTypes
<1>6. \A q \in Procs : at'[q] \in Staging => rel'[q] # Torn
  BY <1>1, <1>2 DEF mine, SwapTypes, Staging
<1> QED
  BY <1>1, <1>2, <1>3, <1>4, <1>5, <1>6 DEF mine, SwapTypes

LEMMA ExpiryTyped ==
  ASSUME SwapTypes, UNCHANGED platform, LockExpires
  PROVE  SwapTypes'
<1>1. DiskTyped' /\ img' = img /\ UNCHANGED <<flags, at, mine, helper, kills, jams, was>> /\ lock' = FALSE
  BY StayIs DEF LockExpires
<1> QED
  BY <1>1 DEF mine, SwapTypes, FlagsTyped

LEMMA StepTyped ==
  ASSUME SwapTypes, NEW p \in Procs, UNCHANGED platform, Step(p)
  PROVE  SwapTypes'
BY LaunchTyped, PendingTyped, SwapsTyped, PlainTyped, FetchTyped, StageTyped, TakeOverTyped, CopyTyped,
   ArmTyped, FlagTyped, RollbackTyped, HelperTyped, KillTyped DEF Step

-----------------------------------------------------------------------------
\* Whose step it is.

\* A step of p leaves the others where they are, unless it terminates them.
LEMMA OthersStay ==
  ASSUME SwapTypes, NEW p \in Procs, Step(p), NEW q \in Procs, q # p
  PROVE  /\ self'[q] = self[q] /\ was'[q] = was[q] /\ rel'[q] = rel[q] /\ helper'[q] = helper[q]
         /\ \/ at'[q] = at[q]
            \/ Windows /\ at[p] = "a_lock" /\ Runs(q) /\ at'[q] = "done"
<1>1. CASE Launch(p) \/ Pending(p) \/ Gate(p) \/ Fetch(p) \/ PendingDone(p)
  BY <1>1 DEF Launch, Pending, Gate, Fetch, PendingDone, Goto, Same, mine, SwapTypes
<1>2. CASE Stage(p) \/ Copy(p) \/ Arm(p) \/ Flag(p) \/ Clear(p)
  BY <1>2 DEF Stage, Copy, Arm, Flag, Clear, Goto, Same, mine, SwapTypes
<1>3. CASE PendingStep(p) \/ Install(p) \/ Verify(p)
  <2>1. Same /\ was'[q] = was[q]
    BY <1>3, RememberIs DEF PendingStep, Install, Verify
  <2>2. \E l \in Places : Goto(p, l)
    BY <1>3, PlacesAre DEF PendingStep, Install, Verify, Rename, Remove
  <2> QED
    BY <2>1, <2>2, NextPlace DEF Same, mine
<1>4. CASE Rollback(p)
  <2>1. UNCHANGED <<helper, rel>> /\ was'[q] = was[q] /\ self'[q] = self[q]
    BY <1>4, RememberIs DEF Rollback, SwapTypes
  <2>2. \E l \in Places : Goto(p, l)
    BY <1>4, PlacesAre DEF Rollback, Rename
  <2> QED
    BY <2>1, <2>2, NextPlace
<1>5. CASE TakeOver(p)
  BY <1>5 DEF TakeOver, At, mine, SwapTypes
<1>6. CASE Helper(p)
  BY <1>6 DEF Helper, Shell, mine, SwapTypes
<1>7. CASE Kill(p)
  BY <1>7 DEF Kill, Goto, mine, SwapTypes
<1> QED
  BY <1>1, <1>2, <1>3, <1>4, <1>5, <1>6, <1>7 DEF Step

LEMMA HelpersKept ==
  ASSUME SwapTypes, HelpersOutlive, NEW p \in Procs, Step(p)
  PROVE  HelpersOutlive'
<1>1. \A q \in Procs \ {p} :
         /\ helper'[q] = helper[q] 
         /\ at'[q] = at[q] \/ at'[q] = "done"
  BY OthersStay
<1>2. ASSUME helper'[p] # "none"
      PROVE  /\ at'[p] \in {"a_flag", "a_quit", "done"}
             /\ helper'[p] \in {"old", "new", "flag"} => at'[p] = "done"
  <2>1. CASE Launch(p) \/ Pending(p) \/ Gate(p) \/ Fetch(p) \/ PendingDone(p)
    BY <2>1, <1>2 DEF Launch, Pending, Gate, Fetch, PendingDone, Goto, Same, HelpersOutlive, Armed, At
  <2>2. CASE Stage(p) \/ Copy(p) \/ TakeOver(p)
    BY <2>2, <1>2 DEF Stage, Copy, TakeOver, Goto, Same, HelpersOutlive, Armed, At
  <2>3. CASE PendingStep(p) \/ Install(p) \/ Verify(p) \/ Rollback(p)
    BY <2>3, <1>2 DEF PendingStep, Install, Verify, Rollback, Same, HelpersOutlive, Armed, At
  <2>4. CASE Arm(p) \/ Flag(p) \/ Clear(p)
    BY <2>4, <1>2 DEF Arm, Flag, Clear, Goto, HelpersOutlive, Armed, At, SwapTypes
  <2>5. CASE Helper(p)
    BY <2>5, <1>2 DEF Helper, Shell, HelpersOutlive, Armed, At, SwapTypes
  <2>6. CASE Kill(p)
    BY <2>6, <1>2 DEF Kill, Goto, HelpersOutlive, Armed, SwapTypes
  <2> QED
    BY <2>1, <2>2, <2>3, <2>4, <2>5, <2>6 DEF Step
<1> QED
  BY <1>1, <1>2 DEF HelpersOutlive, Armed

\* A step of a process that is neither swapping nor armed.
LEMMA IdleStep ==
  ASSUME SwapTypes, NEW p \in Procs, Step(p), ~Active(p)
  PROVE  /\ content' = content /\ UNCHANGED <<disk, jams, lock, helper, was>> /\ flags' \subseteq flags
         /\ kills' = kills \/ (kills' = kills + 1 /\ at'[p] = "done")
         /\ at'[p] \in Quiet \cup {"p_remove", "a_probe", "r_swap"}
         /\ \A q \in Procs \ {p} : at'[q] = at[q]
<1>1. at[p] \in Quiet /\ helper[p] = "none"
  BY DEF Active, Swapping, Armed, Quiet
<1>2. Launch(p) \/ Pending(p) \/ Gate(p) \/ Fetch(p) \/ (Rollback(p) /\ At(p, "gate")) \/ Kill(p)
  BY <1>1 DEF Step, PendingStep, PendingDone, Stage, TakeOver, Install, Copy, Arm, Flag, Clear, Verify,
              Rollback, Helper, At, Quiet, Ended
<1>3. disk' = disk /\ UNCHANGED <<jams, lock, helper, was>> /\ flags' \subseteq flags
  BY <1>1, <1>2 DEF Launch, Pending, Gate, Fetch, Rollback, Kill, Same, files, At, Armed
<1>4. /\ at'[p] \in Quiet \cup {"p_remove", "a_probe", "r_swap"}
      /\ \A q \in Procs \ {p} : at'[q] = at[q]
  BY <1>1, <1>2 DEF Launch, Pending, Gate, Fetch, Rollback, Kill, Goto, At, Quiet, Ended, SwapTypes, Armed
<1>5. kills' = kills \/ (kills' = kills + 1 /\ at'[p] = "done")
  BY <1>1, <1>2 DEF Launch, Pending, Gate, Fetch, Rollback, Kill, Goto, Same, At, SwapTypes, Armed
<1> QED
  BY <1>3, <1>4, <1>5 DEF content

LEMMA AloneKept ==
  ASSUME SwapTypes, Alone, NEW p \in Procs, Step(p), Overlaps' = {}
  PROVE  Alone'
<1> SUFFICES ASSUME NEW a \in Procs, NEW b \in Procs, a # b, Active(a)', Active(b)'
             PROVE  FALSE
  BY DEF Alone
<1>1. \A x, y \in Procs : x # y /\ Swapping(y)' => ~Armed(x)' /\ ~Swapping(x)'
  BY DEF Overlaps
<1>2. Armed(a)' /\ Armed(b)' /\ ~Swapping(a)' /\ ~Swapping(b)'
  BY <1>1 DEF Active
<1>3. \A x \in Procs \ {p} : Armed(x)' => Armed(x)
  BY OthersStay DEF Armed
<1>4. Armed(p)' => Armed(p) \/ Swapping(p)'
  <2>1. CASE Arm(p)
    BY <2>1 DEF Arm, Goto, Swapping, Ended, SwapTypes
  <2>2. CASE Helper(p) \/ Kill(p)
    BY <2>2 DEF Helper, Kill, Armed, SwapTypes
  <2>3. CASE ~(Arm(p) \/ Helper(p) \/ Kill(p))
    <3>1. helper' = helper
      BY <2>3 DEF Step, Launch, Pending, PendingStep, PendingDone, Gate, Fetch, Stage, TakeOver, Install, Copy,
                  Flag, Clear, Verify, Rollback, Same
    <3> QED
      BY <3>1 DEF Armed
  <2> QED
    BY <2>1, <2>2, <2>3
<1>5. Armed(a) /\ Armed(b)
  BY <1>2, <1>3, <1>4
<1> QED
  BY <1>5 DEF Alone, Active

-----------------------------------------------------------------------------
\* What was installed is kept.

Exchanging == {"p_new", "p_back", "p_flag", "a_new", "a_copy", "a_copied", "a_back", "a_clear",
               "a_verify", "v_swap", "v_back", "v_drop", "r_back", "r_undo", "r_keep"}

LEMMA MineIs ==
  ASSUME SwapTypes, NEW p \in Procs
  PROVE  \E m \in Paths : /\ m = self[p] /\ Apart(m)
                          /\ Ext(p, "bak") = BakOf(m) /\ Ext(p, "new") = NewOf(m) /\ Ext(p, "swap") = SwapOf(m)
BY PathsApart, ExtIs DEF SwapTypes

LEMMA KeptElsewhere ==
  ASSUME NEW p \in Procs, at'[p] \notin Exchanging
  PROVE  KeptBy(p)'
BY DEF KeptBy, Exchanging

LEMMA PendingKept ==
  ASSUME SwapTypes, NEW p \in Procs, PendingStep(p), KeptBy(p)
  PROVE  KeptBy(p)'
<1>1. PICK m \in Paths : /\ m = self[p] /\ Apart(m)
                         /\ Ext(p, "bak") = BakOf(m) /\ Ext(p, "new") = NewOf(m) /\ Ext(p, "swap") = SwapOf(m)
  BY MineIs
<1>2. self'[p] = m /\ content \in [Paths -> Int] /\ at \in [Procs -> Places]
  BY <1>1, ContentIs DEF PendingStep, Same, mine, SwapTypes
<1>3. CASE At(p, "p_remove") /\ Remove(p, BakOf(m), "p_old")
  <2>1. at'[p] = "p_old"
    BY <1>2, <1>3 DEF Remove, Goto
  <2> QED
    BY <2>1, KeptElsewhere DEF Exchanging
<1>4. CASE At(p, "p_old") /\ Rename(p, m, BakOf(m), "p_new", "gate") /\ Remember(p)
  <2>1. \/ Moved(m, BakOf(m)) /\ Goto(p, "p_new")
        \/ Goto(p, "gate")
    BY <1>1, <1>4, RenameCases DEF Apart
  <2>2. content[m] # Absent => was'[p] = content[m]
    BY <1>1, <1>4, RememberIs
  <2> QED
    BY <1>1, <1>2, <2>1, <2>2 DEF KeptBy, Moved, Goto, Apart
<1>5. CASE At(p, "p_new") /\ Rename(p, NewOf(m), m, "p_flag", "p_back") /\ UNCHANGED was
  <2>1. \/ Moved(NewOf(m), m) /\ Goto(p, "p_flag")
        \/ Refused(NewOf(m), m) /\ Goto(p, "p_back")
    BY <1>1, <1>5, RenameCases DEF Apart
  <2> QED
    BY <1>1, <1>2, <1>5, <2>1 DEF KeptBy, Moved, Refused, Goto, At, Apart
<1>6. CASE At(p, "p_back") /\ Rename(p, BakOf(m), m, "gate", "gate")
  <2>1. at'[p] = "gate"
    BY <1>2, <1>6 DEF Rename, Goto
  <2> QED
    BY <2>1, KeptElsewhere DEF Exchanging
<1> QED
  BY <1>1, <1>3, <1>4, <1>5, <1>6 DEF PendingStep

LEMMA InstallKept ==
  ASSUME SwapTypes, NEW p \in Procs, Install(p), KeptBy(p)
  PROVE  KeptBy(p)'
<1>1. PICK m \in Paths : /\ m = self[p] /\ Apart(m)
                         /\ Ext(p, "bak") = BakOf(m) /\ Ext(p, "new") = NewOf(m) /\ Ext(p, "swap") = SwapOf(m)
  BY MineIs
<1>2. self'[p] = m /\ content \in [Paths -> Int] /\ at \in [Procs -> Places]
  BY <1>1, ContentIs DEF Install, Same, mine, SwapTypes
<1>3. CASE At(p, "a_remove") /\ Remove(p, BakOf(m), "a_old")
  <2>1. at'[p] = "a_old"
    BY <1>2, <1>3 DEF Remove, Goto
  <2> QED
    BY <2>1, KeptElsewhere DEF Exchanging
<1>4. CASE At(p, "a_old") /\ Rename(p, m, BakOf(m), "a_new", "a_arm") /\ Remember(p)
  <2>1. \/ Moved(m, BakOf(m)) /\ Goto(p, "a_new")
        \/ Goto(p, "a_arm")
    BY <1>1, <1>4, RenameCases DEF Apart
  <2>2. content[m] # Absent => was'[p] = content[m]
    BY <1>1, <1>4, RememberIs
  <2> QED
    BY <1>1, <1>2, <2>1, <2>2 DEF KeptBy, Moved, Goto, Apart
<1>5. CASE At(p, "a_new") /\ Rename(p, NewOf(m), m, "a_clear", "a_copy") /\ UNCHANGED was
  <2>1. \/ Moved(NewOf(m), m) /\ Goto(p, "a_clear")
        \/ Refused(NewOf(m), m) /\ Goto(p, "a_copy")
    BY <1>1, <1>5, RenameCases DEF Apart
  <2> QED
    BY <1>1, <1>2, <1>5, <2>1 DEF KeptBy, Moved, Refused, Goto, At, Apart
<1>6. CASE At(p, "a_back") /\ Rename(p, BakOf(m), m, "a_quit", "a_quit")
  <2>1. at'[p] = "a_quit"
    BY <1>2, <1>6 DEF Rename, Goto
  <2> QED
    BY <2>1, KeptElsewhere DEF Exchanging
<1> QED
  BY <1>1, <1>3, <1>4, <1>5, <1>6 DEF Install

LEMMA CopyKept ==
  ASSUME SwapTypes, NEW p \in Procs, Copy(p), KeptBy(p)
  PROVE  KeptBy(p)'
<1>1. PICK m \in Paths : m = self[p] /\ Apart(m)
  BY MineIs
<1>2. self'[p] = m /\ content \in [Paths -> Int] /\ at \in [Procs -> Places] /\ rel[p] \in Versions
      /\ Torn \in Versions /\ was' = was
  BY <1>1, ContentIs DEF Copy, SwapTypes, Versions
<1>3. at[p] \in {"a_copy", "a_copied"} /\ at'[p] \in {"a_copied", "a_back", "a_clear"}
  BY <1>2 DEF Copy, At, Goto
<1>4. content' = content \/ \E v \in Versions : content' = [content EXCEPT ![m] = v]
  BY <1>1, <1>2, StayIs, WriteCases DEF Copy, Wrote
<1>5. content'[BakOf(m)] = content[BakOf(m)]
  BY <1>1, <1>2, <1>4 DEF Apart
<1> QED
  BY <1>1, <1>2, <1>3, <1>5 DEF KeptBy

LEMMA VerifyKept ==
  ASSUME SwapTypes, NEW p \in Procs, Verify(p), KeptBy(p)
  PROVE  KeptBy(p)'
<1>1. PICK m \in Paths : /\ m = self[p] /\ Apart(m)
                         /\ Ext(p, "bak") = BakOf(m) /\ Ext(p, "new") = NewOf(m) /\ Ext(p, "swap") = SwapOf(m)
  BY MineIs
<1>2. self'[p] = m /\ content \in [Paths -> Int] /\ at \in [Procs -> Places] /\ was' = was
  BY <1>1, ContentIs DEF Verify, Same, mine, SwapTypes
<1>3. CASE At(p, "a_verify") /\ (Goto(p, "done") \/ Goto(p, "v_swap")) /\ UNCHANGED <<files, jams>>
  <2>1. content' = content
    BY <1>3, StayIs
  <2> QED
    BY <1>1, <1>2, <1>3, <2>1 DEF KeptBy, Goto, At
<1>4. CASE At(p, "v_swap") /\ Rename(p, m, SwapOf(m), "v_back", "v_back")
  <2>1. (Moved(m, SwapOf(m)) \/ Refused(m, SwapOf(m))) /\ Goto(p, "v_back")
    BY <1>1, <1>4, RenameCases DEF Apart
  <2> QED
    BY <1>1, <1>2, <1>4, <2>1 DEF KeptBy, Moved, Refused, Goto, At, Apart
<1>5. CASE At(p, "v_back") /\ Rename(p, BakOf(m), m, "v_drop", "done")
  <2>1. (Moved(BakOf(m), m) /\ Goto(p, "v_drop")) \/ Goto(p, "done")
    BY <1>1, <1>5, RenameCases DEF Apart
  <2> QED
    BY <1>1, <1>2, <1>5, <2>1 DEF KeptBy, Moved, Goto, At, Apart
<1>6. CASE At(p, "v_drop") /\ Remove(p, SwapOf(m), "done")
  <2>1. at'[p] = "done"
    BY <1>2, <1>6 DEF Remove, Goto
  <2> QED
    BY <2>1, KeptElsewhere DEF Exchanging
<1> QED
  BY <1>1, <1>3, <1>4, <1>5, <1>6 DEF Verify

LEMMA RollbackKept ==
  ASSUME SwapTypes, NEW p \in Procs, Rollback(p), KeptBy(p)
  PROVE  KeptBy(p)'
<1>1. PICK m \in Paths : /\ m = self[p] /\ Apart(m)
                         /\ Ext(p, "bak") = BakOf(m) /\ Ext(p, "new") = NewOf(m) /\ Ext(p, "swap") = SwapOf(m)
  BY MineIs
<1>2. content \in [Paths -> Int] /\ at \in [Procs -> Places]
  BY ContentIs DEF SwapTypes
<1>3. CASE At(p, "gate")
  <2>1. at'[p] \in {"r_swap", "done"}
    BY <1>2, <1>3 DEF Rollback, Goto, At
  <2> QED
    BY <2>1, KeptElsewhere DEF Exchanging
<1>4. CASE At(p, "r_swap") /\ Rename(p, m, SwapOf(m), "r_back", "done") /\ Remember(p) /\ UNCHANGED self
  <2>1. (Moved(m, SwapOf(m)) /\ Goto(p, "r_back")) \/ Goto(p, "done")
    BY <1>1, <1>4, RenameCases DEF Apart
  <2>2. content[m] # Absent => was'[p] = content[m]
    BY <1>1, <1>4, RememberIs
  <2> QED
    BY <1>1, <1>2, <1>4, <2>1, <2>2 DEF KeptBy, Moved, Goto, Apart
<1>5. CASE At(p, "r_back") /\ Rename(p, BakOf(m), m, "r_keep", "r_undo") /\ UNCHANGED <<self, was>>
  <2>1. \/ Moved(BakOf(m), m) /\ Goto(p, "r_keep")
        \/ Refused(BakOf(m), m) /\ Goto(p, "r_undo")
    BY <1>1, <1>5, RenameCases DEF Apart
  <2> QED
    BY <1>1, <1>2, <1>5, <2>1 DEF KeptBy, Moved, Refused, Goto, At, Apart
<1>6. CASE \/ At(p, "r_undo") /\ Rename(p, SwapOf(m), m, "done", "done")
           \/ At(p, "r_keep") /\ Rename(p, SwapOf(m), BakOf(m), "done", "done")
  <2>1. at'[p] = "done"
    BY <1>2, <1>6 DEF Rename, Goto
  <2> QED
    BY <2>1, KeptElsewhere DEF Exchanging
<1> QED
  BY <1>1, <1>3, <1>4, <1>5, <1>6 DEF Rollback

LEMMA MineKept ==
  ASSUME SwapTypes, HelpersOutlive, NEW p \in Procs, Step(p), KeptBy(p)
  PROVE  KeptBy(p)'
<1>1. CASE Clear(p)
  <2>1. content' = content /\ at'[p] \in {"done", "a_verify"} /\ UNCHANGED <<self, was>>
    BY <1>1, StayIs DEF Clear, Goto, mine, SwapTypes
  <2>2. at'[p] = "a_verify" => at[p] = "a_clear"
    BY <1>1 DEF Clear, Goto, At, SwapTypes
  <2> QED
    BY <2>1, <2>2 DEF KeptBy
<1>2. CASE Launch(p) \/ Pending(p) \/ Gate(p) \/ Fetch(p) \/ PendingDone(p) \/ Stage(p) \/ TakeOver(p)
           \/ Arm(p) \/ Flag(p)
  <2>1. at'[p] \notin Exchanging
    BY <1>2 DEF Launch, Pending, Gate, Fetch, PendingDone, Stage, TakeOver, Arm, Flag, Goto, At, Exchanging, SwapTypes
  <2> QED
    BY <2>1, KeptElsewhere
<1>3. CASE Kill(p)
  <2>1. content' = content /\ at'[p] \in {"done", at[p]} /\ UNCHANGED <<self, was>>
    BY <1>3, StayIs DEF Kill, Goto, mine, SwapTypes
  <2> QED
    BY <2>1 DEF KeptBy
<1>4. CASE PendingStep(p) \/ Install(p) \/ Copy(p) \/ Verify(p) \/ Rollback(p)
  BY <1>4, PendingKept, InstallKept, CopyKept, VerifyKept, RollbackKept
<1>5. CASE Helper(p)
  <2>1. at'[p] = "done"
    BY <1>5 DEF Helper, HelpersOutlive, At
  <2> QED
    BY <2>1, KeptElsewhere DEF Exchanging
<1> QED
  BY <1>1, <1>2, <1>3, <1>4, <1>5 DEF Step

\* While p swaps or is armed the others are quiet; when it is neither it leaves
\* the files alone.
LEMMA StepKept ==
  ASSUME SwapTypes, HelpersOutlive, Alone, NEW p \in Procs, Step(p), \A q \in Procs : KeptBy(q)
  PROVE  \A q \in Procs : KeptBy(q)'
<1> TAKE q \in Procs
<1>1. CASE q = p
  BY <1>1, MineKept
<1>2. CASE q # p /\ at[q] \in Exchanging
  <2>1. ~Active(p)
    BY <1>2 DEF Alone, Active, Swapping, Exchanging, Ended
  <2>2. content' = content /\ at'[q] = at[q] /\ self'[q] = self[q] /\ was'[q] = was[q]
    BY <1>2, <2>1, IdleStep, OthersStay
  <2>3. KeptBy(q)
    OBVIOUS
  <2> QED
    BY <2>2, <2>3 DEF KeptBy
<1>3. CASE q # p /\ at[q] \notin Exchanging
  <2>1. at'[q] = at[q] \/ at'[q] = "done"
    BY <1>3, OthersStay
  <2>2. at'[q] \notin Exchanging
    BY <1>3, <2>1 DEF Exchanging
  <2> QED
    BY <2>2, KeptElsewhere
<1> QED
  BY <1>1, <1>2, <1>3

\* The lock.
LEMMA StepLocks ==
  ASSUME SwapTypes, Alone, LockHeld, NEW p \in Procs, Step(p)
  PROVE  LockHeld'
<1> SUFFICES ASSUME kills' = 0, lock' PROVE \E q \in Procs : at'[q] \in Locking
  BY DEF LockHeld
<1>1. ~Kill(p) /\ kills = 0 /\ kills \in Nat
  <2>1. kills \in Nat
    BY ReleaseAssumption DEF SwapTypes
  <2>2. ~Kill(p)
    <3>1. Kill(p) => kills' = kills + 1
      BY DEF Kill
    <3> QED
      BY <2>1, <3>1
  <2>3. kills' = kills
    BY <2>2 DEF Step, Launch, Pending, PendingStep, PendingDone, Gate, Fetch, Stage, TakeOver, Install, Copy,
                Arm, Flag, Clear, Verify, Rollback, Helper, Same
  <2> QED
    BY <2>1, <2>2, <2>3
<1>2. CASE TakeOver(p)
  BY <1>2 DEF TakeOver, Locking, At, SwapTypes
<1>3. CASE Clear(p)
  BY <1>3 DEF Clear
<1>4. CASE ~TakeOver(p) /\ ~Clear(p)
  <2>1. lock' = lock
    BY <1>1, <1>4 DEF Step, Launch, Pending, PendingStep, PendingDone, Gate, Fetch, Stage, Install, Copy,
                Arm, Flag, Verify, Rollback, Helper, Same
  <2>2. PICK q \in Procs : at[q] \in Locking
    BY <1>1, <2>1 DEF LockHeld
  <2>3. CASE q # p
    <3>1. ~Active(p)
      BY <2>2, <2>3 DEF Alone, Active, Swapping, Ended, Locking
    <3> QED
      BY <2>2, <2>3, <3>1, IdleStep
  <2>4. CASE q = p
    <3>1. Install(p) \/ Copy(p) \/ Arm(p) \/ Flag(p) \/ Helper(p)
      BY <1>1, <1>4, <2>2, <2>4 DEF Step, Launch, Pending, PendingStep, PendingDone, Gate, Fetch, Stage,
           Verify, Rollback, At, Locking
    <3>2. at'[p] \in Locking
      <4>1. CASE Install(p)
        BY <4>1 DEF Install, Rename, Remove, Goto, Locking, SwapTypes
      <4>2. CASE Copy(p) \/ Arm(p) \/ Flag(p)
        BY <4>2 DEF Copy, Arm, Flag, Goto, Locking, SwapTypes
      <4>3. CASE Helper(p)
        BY <4>3, <2>2, <2>4 DEF Helper
      <4> QED
        BY <3>1, <4>1, <4>2, <4>3
    <3> QED
      BY <3>2
  <2> QED
    BY <2>3, <2>4
<1> QED
  BY <1>2, <1>3, <1>4

-----------------------------------------------------------------------------
\* POSIX.

Around(m) == {m, BakOf(m), NewOf(m), SwapOf(m)}

PosixOp(f, g) ==
  \/ Moved(f, g) /\ ~NewFile(g) /\ content[f] # Torn
  \/ content' = content /\ img' = img
  \/ Dropped(f)
  \/ \E v \in Versions : Wrote(f, v) /\ (v = Torn => NewFile(f))

LEMMA PosixImagesKept ==
  ASSUME SwapTypes, PosixImages, NEW f \in Paths, NEW g \in Paths, f # g, g # BakOf(Gone),
         PosixOp(f, g), \A q \in Procs : Runs(q)' => Runs(q)
  PROVE  PosixImages'
<1> SUFFICES ASSUME NEW q \in Procs, Runs(q)
             PROVE  (img'[q] = Gone \/ content'[img'[q]] # Absent) /\ img'[q] # BakOf(Gone) /\ ~NewFile(img'[q])
  BY DEF PosixImages
<1>1. /\ img[q] \in Paths /\ Gone \in Paths /\ content \in [Paths -> Int] /\ img \in [Procs -> Paths]
      /\ img[q] = Gone \/ content[img[q]] # Absent
      /\ img[q] # BakOf(Gone) /\ ~NewFile(img[q])
      /\ Gone # BakOf(Gone) /\ ~NewFile(Gone)
  BY ContentIs, GoneIs, NamesApart, PathsApart DEF PosixImages, SwapTypes, Apart
<1>2. CASE Moved(f, g) /\ ~NewFile(g)
  BY <1>1, <1>2 DEF Moved
<1>3. CASE content' = content /\ img' = img
  BY <1>1, <1>3
<1>4. CASE Dropped(f)
  BY <1>1, <1>4 DEF Dropped
<1>5. ASSUME NEW v \in Versions, Wrote(f, v)
      PROVE  (img'[q] = Gone \/ content'[img'[q]] # Absent) /\ img'[q] # BakOf(Gone) /\ ~NewFile(img'[q])
  <2>1. v # Absent
    BY ReleaseAssumption DEF Versions, Torn, Absent
  <2> QED
    BY <1>1, <1>5, <2>1 DEF Wrote
<1> QED
  BY <1>2, <1>3, <1>4, <1>5 DEF PosixOp

LEMMA PosixFilesKept ==
  ASSUME SwapTypes, PosixFiles, NEW f \in Paths, NEW g \in Paths, f # g,
         {f, g} \cap {Gone, BakOf(Gone)} = {}, PosixOp(f, g), flags' = {}, jams' = jams
  PROVE  PosixFiles'
<1>1. /\ Gone \in Paths /\ BakOf(Gone) \in Paths /\ content \in [Paths -> Int]
      /\ content[Gone] = Absent /\ content[BakOf(Gone)] = Absent /\ Absent # Torn
      /\ \A h \in Paths : content[h] = Torn => NewFile(h)
  BY ContentIs, GoneIs, PathsApart DEF PosixFiles, Apart, Absent, Torn
<1>2. /\ content'[Gone] = Absent /\ content'[BakOf(Gone)] = Absent
  BY <1>1 DEF PosixOp, Moved, Dropped, Wrote
<1>3. ASSUME NEW h \in Paths, content'[h] = Torn PROVE NewFile(h)
  BY <1>1, <1>3 DEF PosixOp, Moved, Dropped, Wrote
<1> QED
  BY <1>2, <1>3 DEF PosixFiles

\* What a step of a process that swaps m leaves.
PosixDone(p, m) ==
  /\ PosixImages' /\ PosixFiles' /\ PosixPlace(p)' /\ self'[p] = m
  /\ content'[m] # Absent \/ at'[p] \in {"a_new", "v_back", "r_back"}
  /\ \A f \in Paths \ Around(m) : content'[f] = content[f]

PosixSwapping(p, m) ==
  /\ SwapTypes /\ platform = "posix" /\ PosixImages /\ PosixFiles /\ PosixPlace(p)
  /\ p \in Procs /\ Swapping(p) /\ m \in Paths /\ m = self[p] /\ Apart(m)
  /\ Ext(p, "bak") = BakOf(m) /\ Ext(p, "new") = NewOf(m) /\ Ext(p, "swap") = SwapOf(m)

LEMMA PosixFacts ==
  ASSUME NEW p, NEW m, PosixSwapping(p, m)
  PROVE  /\ ~Windows /\ jams = 0 /\ flags = {} /\ helper[p] = "none" /\ Runs(p)
         /\ content \in [Paths -> Int] /\ \A f \in Paths : content[f] >= Absent
         /\ content[BakOf(Gone)] = Absent /\ content[m] # Torn /\ content[BakOf(m)] # Torn /\ content[SwapOf(m)] # Torn
         /\ Around(m) \subseteq Paths /\ Around(m) \cap {Gone, BakOf(Gone)} = {} /\ ~NewFile(m)
<1>1. /\ ~Windows /\ jams = 0 /\ flags = {} /\ helper[p] = "none" /\ Runs(p)
      /\ m # Gone /\ m # BakOf(Gone) /\ ~NewFile(m) /\ content[BakOf(Gone)] = Absent
  BY DEF PosixSwapping, Windows, PosixFiles, PosixPlace, Swapping, Runs
<1>2. content \in [Paths -> Int] /\ \A f \in Paths : content[f] >= Absent
  BY ContentIs DEF PosixSwapping
<1>3. content[m] # Torn /\ content[BakOf(m)] # Torn /\ content[SwapOf(m)] # Torn
  BY <1>1 DEF PosixSwapping, PosixFiles, Apart
<1>4. Around(m) \subseteq Paths /\ Around(m) \cap {Gone, BakOf(Gone)} = {}
  BY <1>1, Elsewhere, GoneIs DEF Around, Apart, PosixSwapping
<1> QED
  BY <1>1, <1>2, <1>3, <1>4

\* Only the place is left to show.
LEMMA PosixBy ==
  ASSUME NEW p, NEW m, PosixSwapping(p, m), NEW f \in Around(m), NEW g \in Around(m), f # g,
         PosixOp(f, g), \A q \in Procs : Runs(q)' => Runs(q), flags' = {}, jams' = jams,
         self'[p] = m, PosixPlace(p)', content'[m] # Absent \/ at'[p] \in {"a_new", "v_back", "r_back"}
  PROVE  PosixDone(p, m)
<1>1. f \in Paths /\ g \in Paths /\ {f, g} \cap {Gone, BakOf(Gone)} = {} /\ content \in [Paths -> Int]
  BY PosixFacts
<1>2. PosixImages' /\ PosixFiles'
  BY <1>1, PosixImagesKept, PosixFilesKept DEF PosixSwapping
<1>3. \A h \in Paths \ Around(m) : content'[h] = content[h]
  BY <1>1 DEF PosixOp, Moved, Dropped, Wrote
<1> QED
  BY <1>2, <1>3 DEF PosixDone

LEMMA PosixRename ==
  ASSUME NEW p, NEW m, PosixSwapping(p, m), NEW f \in Around(m), NEW g \in Around(m), f # g,
         NEW ok, NEW failed, Rename(p, f, g, ok, failed), content[f] # Absent
  PROVE  Moved(f, g) /\ Goto(p, ok) /\ jams' = jams
<1>1. f \in Paths /\ g \in Paths /\ ~Windows /\ SwapTypes
  BY PosixFacts DEF PosixSwapping
<1>2. (Moved(f, g) /\ Goto(p, ok)) \/ (Refused(f, g) /\ Goto(p, failed))
  BY <1>1, RenameCases
<1> QED
  BY <1>1, <1>2 DEF Refused, Held, Moved

LEMMA SameMine ==
  ASSUME SwapTypes, NEW p \in Procs, NEW l, Goto(p, l), l \notin Ended, Runs(p)
  PROVE  at'[p] = l /\ \A q \in Procs : Runs(q)' => Runs(q)
BY DEF SwapTypes, Goto, Runs

LEMMA EndMine ==
  ASSUME SwapTypes, NEW p \in Procs, Goto(p, "done")
  PROVE  at'[p] = "done" /\ \A q \in Procs : Runs(q)' => Runs(q)
BY DEF SwapTypes, Goto, Runs, Ended

LEMMA PosixStage ==
  ASSUME NEW p, NEW m, PosixSwapping(p, m), Stage(p)
  PROVE  PosixDone(p, m)
<1>1. /\ ~Windows /\ jams = 0 /\ flags = {} /\ helper[p] = "none" /\ Runs(p)
      /\ content \in [Paths -> Int] /\ content[m] # Torn
      /\ p \in Procs /\ SwapTypes /\ m = self[p] /\ Ext(p, "new") = NewOf(m) /\ PosixPlace(p) /\ Apart(m)
      /\ m \in Around(m) /\ NewOf(m) \in Around(m) /\ NewOf(m) # m
  BY PosixFacts DEF PosixSwapping, Around, Apart
<1>2. /\ self'[p] = m /\ flags' = {} /\ jams' = jams /\ helper'[p] = "none"
      /\ at[p] \in Staging /\ rel[p] # Torn /\ rel[p] \in Versions /\ Torn \in Versions /\ rel[p] \in Nat
  <2>1. at[p] \in Staging
    BY DEF Stage, At, Staging
  <2>2. Versions \subseteq Nat
    BY ReleaseAssumption DEF Versions, Torn
  <2> QED
    BY <1>1, <2>1, <2>2 DEF Stage, Same, mine, SwapTypes, Versions
<1>3. content[m] # Absent /\ m # Gone /\ m # BakOf(Gone) /\ ~NewFile(m) /\ NewFile(NewOf(m))
  BY <1>1, <1>2 DEF PosixPlace, Swapping, Ended, Staging, Apart
<1>4. \/ Wrote(NewOf(m), Torn) /\ Goto(p, "a_probed")
      \/ Dropped(NewOf(m)) /\ Goto(p, "a_download")
      \/ content' = content /\ img' = img /\ Goto(p, "done")
      \/ Wrote(NewOf(m), Torn) /\ Goto(p, "a_extract")
      \/ Wrote(NewOf(m), rel[p]) /\ Goto(p, "a_lock")
  BY <1>1, <1>2, WriteCases, DropCases, StayIs DEF Stage, Apart
<1>5. /\ PosixOp(NewOf(m), m)
      /\ content'[m] # Absent
      /\ at'[p] \in {"a_probed", "a_download", "done", "a_extract", "a_lock"}
      /\ at'[p] = "a_lock" => content'[NewOf(m)] > Torn
  <2>1. rel[p] > Torn
    BY <1>2 DEF Torn
  <2>2. PosixOp(NewOf(m), m)
    BY <1>2, <1>3, <1>4 DEF PosixOp
  <2> QED
    BY <1>1, <1>3, <1>4, <2>1, <2>2 DEF Wrote, Dropped, Goto, SwapTypes, Apart
<1>6. \A q \in Procs : Runs(q)' => Runs(q)
  BY <1>1, <1>4, SameMine, EndMine DEF Ended
<1>7. PosixPlace(p)'
  BY <1>2, <1>3, <1>5 DEF PosixPlace, Pended, Ready, Swapping, Ended
<1> QED
  BY <1>1, <1>2, <1>5, <1>6, <1>7, PosixBy

LEMMA PosixInstall ==
  ASSUME NEW p, NEW m, PosixSwapping(p, m), Install(p)
  PROVE  PosixDone(p, m)
<1>1. /\ ~Windows /\ jams = 0 /\ flags = {} /\ helper[p] = "none" /\ Runs(p)
      /\ content \in [Paths -> Int] /\ content[m] # Torn /\ content[BakOf(m)] # Torn
      /\ p \in Procs /\ SwapTypes /\ m = self[p] /\ Ext(p, "new") = NewOf(m) /\ Ext(p, "bak") = BakOf(m)
      /\ PosixPlace(p) /\ Apart(m)
      /\ m \in Around(m) /\ NewOf(m) \in Around(m) /\ BakOf(m) \in Around(m)
  BY PosixFacts DEF PosixSwapping, Around
<1>2. /\ self'[p] = m /\ flags' = {} /\ helper'[p] = "none"
      /\ at[p] \in {"a_remove", "a_old", "a_new", "a_back"}
  BY <1>1 DEF Install, Same, mine, At
<1>3. /\ m # Gone /\ m # BakOf(Gone) /\ ~NewFile(m)
      /\ content[NewOf(m)] > Torn /\ at[p] # "a_back"
      /\ at[p] # "a_new" => content[m] # Absent
      /\ at[p] = "a_new" => content[BakOf(m)] # Absent
  BY <1>1, <1>2 DEF PosixPlace, Swapping, Ended, Ready
<1>4. content[NewOf(m)] # Absent
  BY <1>1, <1>3 DEF Torn, Absent
<1>5. CASE At(p, "a_remove") /\ Remove(p, BakOf(m), "a_old")
  <2>1. Dropped(BakOf(m)) /\ Goto(p, "a_old") /\ jams' = jams
    BY <1>1, <1>5, DropCases DEF Remove, Apart
  <2>2. at'[p] = "a_old" /\ \A q \in Procs : Runs(q)' => Runs(q)
    BY <1>1, <2>1, SameMine DEF Ended
  <2>3. content'[m] = content[m] /\ content'[NewOf(m)] = content[NewOf(m)]
    BY <1>1, <2>1 DEF Dropped, Apart
  <2>4. PosixPlace(p)'
    BY <1>2, <1>3, <1>5, <2>2, <2>3 DEF PosixPlace, Pended, Ready, Swapping, Ended, At
  <2> QED
    BY <1>1, <1>2, <1>3, <1>5, <2>1, <2>2, <2>3, <2>4, PosixBy DEF PosixOp, Apart, At
<1>6. CASE At(p, "a_old") /\ Rename(p, m, BakOf(m), "a_new", "a_arm")
  <2>1. Moved(m, BakOf(m)) /\ Goto(p, "a_new") /\ jams' = jams
    BY <1>1, <1>3, <1>6, PosixRename DEF At, Apart
  <2>2. at'[p] = "a_new" /\ \A q \in Procs : Runs(q)' => Runs(q)
    BY <1>1, <2>1, SameMine DEF Ended
  <2>3. content'[BakOf(m)] # Absent /\ content'[NewOf(m)] = content[NewOf(m)]
    BY <1>1, <2>1 DEF Moved, Apart
  <2>4. PosixPlace(p)'
    BY <1>2, <1>3, <2>2, <2>3 DEF PosixPlace, Pended, Ready, Swapping, Ended
  <2> QED
    BY <1>1, <1>2, <2>1, <2>2, <2>4, PosixBy DEF PosixOp, Apart
<1>7. CASE At(p, "a_new") /\ Rename(p, NewOf(m), m, "a_clear", "a_copy")
  <2>1. Moved(NewOf(m), m) /\ Goto(p, "a_clear") /\ jams' = jams
    BY <1>1, <1>3, <1>4, <1>7, PosixRename DEF At, Apart
  <2>2. at'[p] = "a_clear" /\ \A q \in Procs : Runs(q)' => Runs(q)
    BY <1>1, <2>1, SameMine DEF Ended
  <2>3. content'[m] # Absent /\ content'[BakOf(m)] # Absent
    BY <1>1, <1>3, <1>7, <2>1 DEF Moved, Apart, At
  <2>4. PosixPlace(p)'
    BY <1>2, <1>3, <2>2, <2>3 DEF PosixPlace, Pended, Ready, Swapping, Ended
  <2> QED
    BY <1>1, <1>2, <1>3, <2>1, <2>2, <2>3, <2>4, PosixBy DEF PosixOp, Apart
<1> QED
  BY <1>1, <1>3, <1>5, <1>6, <1>7 DEF Install, At

LEMMA PosixVerify ==
  ASSUME NEW p, NEW m, PosixSwapping(p, m), Verify(p)
  PROVE  PosixDone(p, m)
<1>1. /\ ~Windows /\ jams = 0 /\ flags = {} /\ helper[p] = "none" /\ Runs(p)
      /\ content \in [Paths -> Int] /\ content[m] # Torn /\ content[BakOf(m)] # Torn
      /\ p \in Procs /\ SwapTypes /\ m = self[p] /\ Ext(p, "swap") = SwapOf(m) /\ Ext(p, "bak") = BakOf(m)
      /\ PosixPlace(p) /\ Apart(m)
      /\ m \in Around(m) /\ SwapOf(m) \in Around(m) /\ BakOf(m) \in Around(m)
  BY PosixFacts DEF PosixSwapping, Around
<1>2. /\ self'[p] = m /\ flags' = {} /\ helper'[p] = "none"
      /\ at[p] \in {"a_verify", "v_swap", "v_back", "v_drop"}
  BY <1>1 DEF Verify, Same, mine, At
<1>3. /\ m # Gone /\ m # BakOf(Gone) /\ ~NewFile(m)
      /\ at[p] # "v_back" => content[m] # Absent
      /\ at[p] # "v_drop" => content[BakOf(m)] # Absent
  BY <1>1, <1>2 DEF PosixPlace, Swapping, Ended
<1>4. CASE At(p, "a_verify") /\ (Goto(p, "done") \/ Goto(p, "v_swap")) /\ UNCHANGED <<files, jams>>
  <2>1. content' = content /\ img' = img /\ jams' = jams
    BY <1>1, <1>4, StayIs
  <2>2. at'[p] \in {"done", "v_swap"} /\ \A q \in Procs : Runs(q)' => Runs(q)
    BY <1>1, <1>4, SameMine, EndMine DEF Ended
  <2>3. PosixPlace(p)'
    BY <1>2, <1>3, <1>4, <2>1, <2>2 DEF PosixPlace, Pended, Ready, Swapping, Ended, At
  <2> QED
    BY <1>1, <1>2, <1>3, <1>4, <2>1, <2>2, <2>3, PosixBy DEF PosixOp, Apart, At
<1>5. CASE At(p, "v_swap") /\ Rename(p, m, SwapOf(m), "v_back", "v_back")
  <2>1. Moved(m, SwapOf(m)) /\ Goto(p, "v_back") /\ jams' = jams
    BY <1>1, <1>3, <1>5, PosixRename DEF At, Apart
  <2>2. at'[p] = "v_back" /\ \A q \in Procs : Runs(q)' => Runs(q)
    BY <1>1, <2>1, SameMine DEF Ended
  <2>3. content'[BakOf(m)] # Absent /\ content'[SwapOf(m)] # Absent
    BY <1>1, <1>3, <1>5, <2>1 DEF Moved, Apart, At
  <2>4. PosixPlace(p)'
    BY <1>2, <1>3, <2>2, <2>3 DEF PosixPlace, Pended, Ready, Swapping, Ended
  <2> QED
    BY <1>1, <1>2, <2>1, <2>2, <2>4, PosixBy DEF PosixOp, Apart
<1>6. CASE At(p, "v_back") /\ Rename(p, BakOf(m), m, "v_drop", "done")
  <2>1. Moved(BakOf(m), m) /\ Goto(p, "v_drop") /\ jams' = jams
    BY <1>1, <1>3, <1>6, PosixRename DEF At, Apart
  <2>2. at'[p] = "v_drop" /\ \A q \in Procs : Runs(q)' => Runs(q)
    BY <1>1, <2>1, SameMine DEF Ended
  <2>3. content'[m] # Absent
    BY <1>1, <1>3, <1>6, <2>1 DEF Moved, Apart, At
  <2>4. PosixPlace(p)'
    BY <1>2, <1>3, <2>2, <2>3 DEF PosixPlace, Pended, Ready, Swapping, Ended
  <2> QED
    BY <1>1, <1>2, <1>3, <2>1, <2>2, <2>3, <2>4, PosixBy DEF PosixOp, Apart
<1>7. CASE At(p, "v_drop") /\ Remove(p, SwapOf(m), "done")
  <2>1. Dropped(SwapOf(m)) /\ Goto(p, "done") /\ jams' = jams
    BY <1>1, <1>7, DropCases DEF Remove, Apart
  <2>2. at'[p] = "done" /\ \A q \in Procs : Runs(q)' => Runs(q)
    BY <1>1, <2>1, EndMine
  <2>3. content'[m] = content[m]
    BY <1>1, <2>1 DEF Dropped, Apart
  <2>4. PosixPlace(p)'
    BY <1>2, <2>2 DEF PosixPlace, Pended, Ready, Swapping, Runs, Ended
  <2> QED
    BY <1>1, <1>2, <1>3, <1>7, <2>1, <2>2, <2>3, <2>4, PosixBy DEF PosixOp, Apart, At
<1> QED
  BY <1>1, <1>4, <1>5, <1>6, <1>7 DEF Verify

LEMMA PosixRollback ==
  ASSUME NEW p, NEW m, PosixSwapping(p, m), Rollback(p)
  PROVE  PosixDone(p, m)
<1>1. /\ ~Windows /\ jams = 0 /\ flags = {} /\ helper[p] = "none" /\ Runs(p)
      /\ content \in [Paths -> Int] /\ content[m] # Torn /\ content[BakOf(m)] # Torn /\ content[SwapOf(m)] # Torn
      /\ p \in Procs /\ SwapTypes /\ m = self[p] /\ Ext(p, "swap") = SwapOf(m) /\ Ext(p, "bak") = BakOf(m)
      /\ PosixPlace(p) /\ Apart(m)
      /\ m \in Around(m) /\ SwapOf(m) \in Around(m) /\ BakOf(m) \in Around(m)
  BY PosixFacts DEF PosixSwapping, Around
<1>2. /\ at[p] # "gate" /\ self'[p] = m /\ flags' = {} /\ helper'[p] = "none"
      /\ at[p] \in {"r_swap", "r_back", "r_keep"}
  <2>1. at[p] # "gate" /\ at[p] # "r_undo"
    BY <1>1 DEF PosixSwapping, Swapping, PosixPlace
  <2> QED
    BY <1>1, <2>1 DEF Rollback, At
<1>3. /\ m # Gone /\ m # BakOf(Gone) /\ ~NewFile(m)
      /\ at[p] # "r_back" => content[m] # Absent
      /\ at[p] # "r_keep" => content[BakOf(m)] # Absent
      /\ at[p] # "r_swap" => content[SwapOf(m)] # Absent
  BY <1>1, <1>2 DEF PosixPlace, Swapping, Ended
<1>4. CASE At(p, "r_swap") /\ Rename(p, m, SwapOf(m), "r_back", "done")
  <2>1. Moved(m, SwapOf(m)) /\ Goto(p, "r_back") /\ jams' = jams
    BY <1>1, <1>3, <1>4, PosixRename DEF At, Apart
  <2>2. at'[p] = "r_back" /\ \A q \in Procs : Runs(q)' => Runs(q)
    BY <1>1, <2>1, SameMine DEF Ended
  <2>3. content'[BakOf(m)] # Absent /\ content'[SwapOf(m)] # Absent
    BY <1>1, <1>3, <1>4, <2>1 DEF Moved, Apart, At
  <2>4. PosixPlace(p)'
    BY <1>2, <1>3, <2>2, <2>3 DEF PosixPlace, Pended, Ready, Swapping, Ended
  <2> QED
    BY <1>1, <1>2, <2>1, <2>2, <2>4, PosixBy DEF PosixOp, Apart
<1>5. CASE At(p, "r_back") /\ Rename(p, BakOf(m), m, "r_keep", "r_undo")
  <2>1. Moved(BakOf(m), m) /\ Goto(p, "r_keep") /\ jams' = jams
    BY <1>1, <1>3, <1>5, PosixRename DEF At, Apart
  <2>2. at'[p] = "r_keep" /\ \A q \in Procs : Runs(q)' => Runs(q)
    BY <1>1, <2>1, SameMine DEF Ended
  <2>3. content'[m] # Absent /\ content'[SwapOf(m)] # Absent
    BY <1>1, <1>3, <1>5, <2>1 DEF Moved, Apart, At
  <2>4. PosixPlace(p)'
    BY <1>2, <1>3, <2>2, <2>3 DEF PosixPlace, Pended, Ready, Swapping, Ended
  <2> QED
    BY <1>1, <1>2, <1>3, <2>1, <2>2, <2>3, <2>4, PosixBy DEF PosixOp, Apart
<1>6. CASE At(p, "r_keep") /\ Rename(p, SwapOf(m), BakOf(m), "done", "done")
  <2>1. Moved(SwapOf(m), BakOf(m)) /\ Goto(p, "done") /\ jams' = jams
    BY <1>1, <1>3, <1>6, PosixRename DEF At, Apart
  <2>2. at'[p] = "done" /\ \A q \in Procs : Runs(q)' => Runs(q)
    BY <1>1, <2>1, EndMine
  <2>3. content'[m] # Absent
    BY <1>1, <1>3, <1>6, <2>1 DEF Moved, Apart, At
  <2>4. PosixPlace(p)'
    BY <1>2, <2>2 DEF PosixPlace, Pended, Ready, Swapping, Runs, Ended
  <2> QED
    BY <1>1, <1>2, <2>1, <2>2, <2>3, <2>4, PosixBy DEF PosixOp, Apart
<1> QED
  BY <1>1, <1>2, <1>4, <1>5, <1>6 DEF Rollback, At

LEMMA PosixTakeOver ==
  ASSUME NEW p, NEW m, PosixSwapping(p, m), TakeOver(p) \/ Clear(p)
  PROVE  PosixDone(p, m)
<1>1. /\ ~Windows /\ jams = 0 /\ flags = {} /\ helper[p] = "none" /\ Runs(p)
      /\ p \in Procs /\ SwapTypes /\ m = self[p] /\ PosixPlace(p) /\ Apart(m)
      /\ m \in Around(m) /\ NewOf(m) \in Around(m)
  BY PosixFacts DEF PosixSwapping, Around
<1>2. /\ content' = content /\ img' = img /\ jams' = jams /\ self'[p] = m /\ flags' = {} /\ helper'[p] = "none"
  BY <1>1, StayIs DEF TakeOver, Clear, mine
<1>3. at[p] # "a_quit"
  BY <1>1 DEF PosixPlace
<1>4. /\ at'[p] \in {"a_remove", "a_verify"} /\ at[p] \in {"a_lock", "a_clear"}
      /\ at'[p] = "a_remove" => at[p] = "a_lock"
      /\ at'[p] = "a_verify" => at[p] = "a_clear"
      /\ \A q \in Procs : Runs(q)' => Runs(q)
  <2>1. CASE TakeOver(p)
    BY <1>1, <2>1 DEF TakeOver, At, SwapTypes, Runs, Ended
  <2>2. CASE Clear(p)
    BY <1>1, <1>3, <2>2 DEF Clear, Goto, At, SwapTypes, Runs, Ended
  <2> QED
    BY <2>1, <2>2
<1>5. /\ m # Gone /\ m # BakOf(Gone) /\ ~NewFile(m) /\ content[m] # Absent
      /\ at[p] = "a_lock" => content[NewOf(m)] > Torn
      /\ at[p] = "a_clear" => content[BakOf(m)] # Absent
  BY <1>1, <1>4 DEF PosixPlace, Swapping, Ended, Ready
<1>6. PosixPlace(p)'
  BY <1>2, <1>4, <1>5 DEF PosixPlace, Pended, Ready, Swapping, Ended
<1> QED
  BY <1>1, <1>2, <1>4, <1>5, <1>6, PosixBy DEF PosixOp, Apart

LEMMA PosixStep ==
  ASSUME NEW p, NEW m, PosixSwapping(p, m), Step(p), ~Kill(p)
  PROVE  PosixDone(p, m)
<1>1. at[p] \notin Quiet \cup Pended \cup {"a_copy", "a_copied", "a_back", "a_arm", "a_flag", "a_quit", "r_undo"}
      /\ helper[p] = "none"
  BY DEF PosixSwapping, PosixPlace, Swapping, Quiet
<1>2. Stage(p) \/ Install(p) \/ Verify(p) \/ Rollback(p) \/ TakeOver(p) \/ Clear(p)
  BY <1>1 DEF Step, Launch, Pending, PendingStep, PendingDone, Gate, Fetch, Copy, Arm, Flag, Helper, At, Quiet,
              Ended, Pended
<1> QED
  BY <1>2, PosixStage, PosixInstall, PosixVerify, PosixRollback, PosixTakeOver

LEMMA PosixQuiet ==
  ASSUME NEW q \in Procs, at'[q] \in Quiet, helper'[q] = "none"
  PROVE  PosixPlace(q)'
BY DEF PosixPlace, Quiet, Swapping, Ended, Pended, Ready

LEMMA PosixIdle ==
  ASSUME SwapTypes, platform = "posix", PosixImages, PosixFiles, NEW p \in Procs, PosixPlace(p),
         Step(p), ~Active(p)
  PROVE  PosixImages' /\ PosixFiles' /\ PosixPlace(p)'
<1>1. /\ content' = content /\ jams' = jams /\ helper' = helper /\ flags' = {} /\ flags = {}
      /\ at'[p] \in Quiet \cup {"p_remove", "a_probe", "r_swap"}
      /\ \A q \in Procs \ {p} : at'[q] = at[q]
  BY IdleStep DEF PosixFiles
<1>2. /\ at[p] \in Quiet /\ helper[p] = "none" /\ ~Windows /\ content \in [Paths -> Int]
      /\ Gone \in Paths /\ Icmg \in Paths
      /\ Icmg # Gone /\ ~NewFile(Icmg) /\ Icmg # BakOf(Gone)
  BY ContentIs, GoneIs, NamesApart DEF Active, Swapping, Armed, Quiet, Windows
<1>3. Launch(p) \/ Pending(p) \/ Gate(p) \/ Fetch(p) \/ (Rollback(p) /\ At(p, "gate")) \/ Kill(p)
  BY <1>2 DEF Step, PendingStep, PendingDone, Stage, TakeOver, Install, Copy, Arm, Flag, Clear, Verify,
              Rollback, Helper, At, Quiet, Ended
<1>4. PosixFiles'
  BY <1>1 DEF PosixFiles
<1>5. PosixImages'
  <2>1. CASE Launch(p)
    <3>1. content[Icmg] # Absent
      BY <1>2, <2>1, ContentIs DEF Launch, Torn, Absent
    <3>2. img'[p] = Icmg /\ \A q \in Procs \ {p} : img'[q] = img[q] /\ at'[q] = at[q]
      BY <1>1, <2>1 DEF Launch, SwapTypes
    <3> QED
      BY <1>1, <1>2, <3>1, <3>2 DEF PosixImages, Runs
  <2>2. CASE ~Launch(p)
    <3>1. img' = img /\ (Runs(p)' => Runs(p))
      BY <1>2, <1>3, <2>2 DEF Pending, Gate, Fetch, Rollback, Kill, At, files, Runs, Ended, Armed, Quiet
    <3> QED
      BY <1>1, <3>1 DEF PosixImages, Runs
  <2> QED
    BY <2>1, <2>2
<1>6. PosixPlace(p)'
  <2>1. CASE at'[p] \in Quiet
    BY <1>1, <1>2, <2>1, PosixQuiet
  <2>2. at'[p] # "p_remove"
    BY <1>1, <1>2, <1>3 DEF Launch, Pending, Gate, Fetch, Rollback, Kill, Goto, At, Quiet, Ended, SwapTypes, Armed
  <2>3. CASE at'[p] \in {"a_probe", "r_swap"}
    <3>1. /\ self'[p] = img[p] /\ Runs(p)
          /\ \/ at'[p] = "a_probe" /\ img[p] # Gone
             \/ at'[p] = "r_swap" /\ BakOf(img[p]) \in DOMAIN disk
      <4>1. CASE Fetch(p)
        BY <1>2, <2>3, <4>1 DEF Fetch, SelfPath, Goto, At, SwapTypes, Runs, Ended
      <4>2. CASE Rollback(p) /\ At(p, "gate")
        BY <1>2, <2>3, <4>2 DEF Rollback, SelfPath, Goto, At, SwapTypes, Runs, Ended, BakOf
      <4> QED
        BY <1>2, <1>3, <2>3, <4>1, <4>2 DEF Launch, Pending, Gate, Kill, Goto, SwapTypes, Armed, Quiet, Ended
    <3>2. /\ img[p] \in Paths /\ Apart(img[p]) /\ (img[p] = Gone \/ content[img[p]] # Absent)
          /\ img[p] # BakOf(Gone) /\ ~NewFile(img[p])
      BY <3>1, PathsApart DEF PosixImages, SwapTypes
    <3>3. at'[p] = "r_swap" => content[BakOf(img[p])] # Absent /\ img[p] # Gone
      BY <3>1, <3>2, ContentIs DEF PosixFiles, Apart
    <3> QED
      BY <1>1, <1>2, <2>3, <3>1, <3>2, <3>3 DEF PosixPlace, Pended, Ready, Swapping, Ended
  <2> QED
    BY <1>1, <2>1, <2>2, <2>3
<1> QED
  BY <1>4, <1>5, <1>6

LEMMA PosixKill ==
  ASSUME SwapTypes, platform = "posix", PosixImages, PosixFiles, NEW p \in Procs, PosixPlace(p), Kill(p)
  PROVE  /\ PosixImages' /\ PosixFiles' /\ PosixPlace(p)'
         /\ content' = content /\ self' = self /\ at'[p] = "done" /\ kills' = kills + 1
         /\ \A q \in Procs \ {p} : at'[q] = at[q]
<1>1. /\ helper[p] = "none" /\ Goto(p, "done") /\ helper' = helper /\ kills' = kills + 1
      /\ img' = img /\ flags' = flags /\ jams' = jams /\ self' = self
  BY DEF PosixPlace, Kill, Armed, files, mine
<1>2. content' = content
  BY StayIs DEF Kill
<1>3. at'[p] = "done" /\ \A q \in Procs : (Runs(q)' => Runs(q)) /\ (q # p => at'[q] = at[q])
  BY <1>1 DEF Goto, SwapTypes, Runs, Ended
<1>4. PosixImages' /\ PosixFiles'
  BY <1>1, <1>2, <1>3 DEF PosixImages, PosixFiles
<1>5. PosixPlace(p)'
  BY <1>1, <1>3, PosixQuiet DEF Quiet, Ended
<1> QED
  BY <1>1, <1>2, <1>3, <1>4, <1>5

LEMMA PosixOthers ==
  ASSUME SwapTypes, Alone, NEW p \in Procs, Step(p), NEW q \in Procs, q # p, PosixPlace(q)
  PROVE  Active(p) => PosixPlace(q)' /\ at[q] \in Quiet /\ at'[q] \in Quiet
<1>1. /\ self'[q] = self[q] /\ helper'[q] = helper[q]
      /\ at'[q] = at[q] \/ at'[q] = "done"
  BY OthersStay
<1>2. ASSUME Active(p) PROVE PosixPlace(q)' /\ at[q] \in Quiet /\ at'[q] \in Quiet
  <2>1. at[q] \in Quiet
    BY <1>2 DEF Alone, Active, Swapping, Quiet
  <2>2. at'[q] \in Quiet /\ helper'[q] = "none"
    BY <1>1, <2>1 DEF PosixPlace, Quiet, Ended
  <2> QED
    BY <2>1, <2>2, PosixQuiet
<1> QED
  BY <1>2

LEMMA PosixPlacesKept ==
  ASSUME SwapTypes, Alone, platform = "posix", PosixImages, PosixFiles, \A q \in Procs : PosixPlace(q),
         NEW p \in Procs, Step(p)
  PROVE  PosixImages' /\ PosixFiles' /\ \A q \in Procs : PosixPlace(q)'
<1>1. helper[p] = "none" /\ (Active(p) <=> Swapping(p))
  BY DEF PosixPlace, Active, Armed
<1>2. PosixImages' /\ PosixFiles' /\ PosixPlace(p)'
  <2>1. CASE Kill(p)
    BY <2>1, PosixKill
  <2>2. CASE ~Kill(p) /\ Swapping(p)
    <3>1. PICK m \in Paths : PosixSwapping(p, m)
      BY <2>2, MineIs DEF PosixSwapping
    <3> QED
      BY <2>2, <3>1, PosixStep DEF PosixDone
  <2>3. CASE ~Swapping(p)
    BY <1>1, <2>3, PosixIdle
  <2> QED
    BY <2>1, <2>2, <2>3
<1>3. ASSUME NEW q \in Procs, q # p PROVE PosixPlace(q)'
  <2>1. CASE Active(p)
    BY <1>3, <2>1, PosixOthers
  <2>2. CASE ~Active(p)
    <3>1. content' = content /\ at'[q] = at[q] /\ self'[q] = self[q] /\ helper'[q] = helper[q]
      BY <1>3, <2>2, IdleStep, OthersStay
    <3>2. PosixPlace(q)
      OBVIOUS
    <3> QED
      BY <3>1, <3>2 DEF PosixPlace, Swapping
  <2> QED
    BY <2>1, <2>2
<1> QED
  BY <1>2, <1>3

\* What is left on the disk, step by step.  Betweens holds of the paths whose file
\* is on its way back.
LEMMA HereStays ==
  ASSUME NEW f \in Paths, content'[f] = content[f], \A q \in Procs : Between(q, f) => Between(q, f)', Here(f)
  PROVE  Here(f)'
BY DEF Here

LEMMA LostStays ==
  ASSUME SwapTypes, Lost, content'[Icmg] = content[Icmg], NEW p \in Procs, PosixPlace(p)',
         \A q \in Procs \ {p} : Swapping(q)' => Swapping(q) /\ self'[q] = self[q],
         at'[p] \in {"a_new", "v_back", "r_back"} => Swapping(p) /\ self'[p] = self[p]
  PROVE  Lost'
<1>1. content'[Icmg] = Absent
  BY DEF Lost
<1>2. Swapping(p)' => self'[p] # Icmg
  <2>1. CASE at'[p] \in {"a_new", "v_back", "r_back"}
    BY <2>1 DEF Lost
  <2>2. CASE at'[p] \notin {"a_new", "v_back", "r_back"}
    BY <1>1, <2>2 DEF PosixPlace
  <2> QED
    BY <2>1, <2>2
<1>3. \A q \in Procs \ {p} : Swapping(q)' => self'[q] # Icmg
  BY DEF Lost
<1> QED
  BY <1>1, <1>2, <1>3 DEF Lost

\* A path a quiet step, or a swap of another executable, does not touch.
Untouched(p, f) == content'[f] = content[f] /\ \A q \in Procs : Between(q, f) => Between(q, f)'

LEMMA LeftStays ==
  ASSUME SwapTypes, NEW p \in Procs, Step(p), PosixLeft, kills' = kills, PosixPlace(p)',
         Untouched(p, Icmg) \/ (Here(Icmg)' /\ ~Lost),
         ~Lost \/ (content'[NewOf(Icmg)] = content[NewOf(Icmg)]
                   /\ (Untouched(p, BakOf(Icmg)) \/ Here(BakOf(Icmg))')
                   /\ (Untouched(p, SwapOf(Icmg)) \/ Here(SwapOf(Icmg))')),
         \A q \in Procs \ {p} : Swapping(q)' => Swapping(q) /\ self'[q] = self[q],
         at'[p] \in {"a_new", "v_back", "r_back"} => Swapping(p) /\ self'[p] = self[p]
  PROVE  PosixLeft'
<1>1. Icmg \in Paths /\ BakOf(Icmg) \in Paths /\ SwapOf(Icmg) \in Paths
  BY GoneIs, PathsApart DEF Apart
<1>2. Here(Icmg) => Here(Icmg)'
  BY <1>1, HereStays DEF Untouched
<1>3. CASE Lost
  <2>1. Untouched(p, Icmg)
    BY <1>3
  <2>2. Lost'
    BY <1>3, <2>1, LostStays DEF Untouched
  <2>3. Here(BakOf(Icmg)) => Here(BakOf(Icmg))'
    BY <1>1, <1>3, HereStays DEF Untouched
  <2>4. Here(SwapOf(Icmg)) => Here(SwapOf(Icmg))'
    BY <1>1, <1>3, HereStays DEF Untouched
  <2> QED
    BY <1>2, <1>3, <2>2, <2>3, <2>4 DEF PosixLeft
<1>4. CASE ~Lost
  BY <1>2, <1>4 DEF PosixLeft
<1> QED
  BY <1>3, <1>4

LEMMA LeftAlone ==
  ASSUME SwapTypes, NEW p \in Procs, Step(p), PosixLeft, ~Active(p), kills' = kills, PosixPlace(p)'
  PROVE  PosixLeft'
<1>1. /\ content' = content /\ at'[p] \in Quiet \cup {"p_remove", "a_probe", "r_swap"}
      /\ \A q \in Procs \ {p} : at'[q] = at[q] /\ self'[q] = self[q]
      /\ at[p] \in Quiet
  BY IdleStep, OthersStay DEF Active, Swapping, Quiet
<1>2. \A f : Untouched(p, f)
  BY <1>1 DEF Untouched, Between, Quiet, Ended
<1>3. \A q \in Procs \ {p} : Swapping(q)' => Swapping(q) /\ self'[q] = self[q]
  BY <1>1 DEF Swapping
<1>4. at'[p] \notin {"a_new", "v_back", "r_back"}
  BY <1>1 DEF Quiet, Ended
<1> QED
  BY <1>1, <1>2, <1>3, <1>4, LeftStays

LEMMA LeftSwapping ==
  ASSUME Alone, NEW p, NEW m, PosixSwapping(p, m), Step(p), ~Kill(p), PosixLeft, kills' = kills
  PROVE  PosixLeft'
<1>1. /\ p \in Procs /\ SwapTypes /\ m \in Paths /\ m = self[p] /\ Swapping(p) /\ PosixPlace(p) /\ Apart(m)
  BY DEF PosixSwapping
<1>2. PosixDone(p, m)
  BY PosixStep
<1>3. PosixPlace(p)' /\ self'[p] = m /\ Here(m)' /\ \A f \in Paths \ Around(m) : content'[f] = content[f]
  BY <1>1, <1>2 DEF PosixDone, Here, Between
<1>4. \A q \in Procs \ {p} : ~Swapping(q) /\ ~Swapping(q)'
  <2>1. \A q \in Procs \ {p} : ~Swapping(q) /\ (at'[q] = at[q] \/ at'[q] = "done")
    BY <1>1, OthersStay DEF Alone, Active
  <2> QED
    BY <2>1 DEF Swapping, Ended
<1>5. \A f \in Paths \ Around(m) : Untouched(p, f)
  <2> TAKE f \in Paths \ Around(m)
  <2>1. \A q \in Procs : ~Between(q, f)
    BY <1>1, <1>4 DEF Between, Around, Swapping, Ended
  <2> QED
    BY <1>3, <2>1 DEF Untouched
<1>6. Icmg \in Paths /\ Apart(Icmg)
  BY GoneIs, PathsApart
<1>7. CASE m = Icmg
  BY <1>1, <1>3, <1>4, <1>7, LeftStays DEF Lost
<1>8. CASE m # Icmg
  <2>1. Icmg \notin Around(m) /\ NewOf(Icmg) \notin Around(m)
    BY <1>1, <1>6, <1>8, Elsewhere DEF Apart, Around, PosixPlace
  <2>2. BakOf(Icmg) \notin Around(m) \/ BakOf(Icmg) = m
    BY <1>1, <1>6, <1>8, Elsewhere DEF Around
  <2>3. SwapOf(Icmg) \notin Around(m) \/ SwapOf(Icmg) = m
    BY <1>1, <1>6, <1>8, Elsewhere DEF Around
  <2>4. Untouched(p, Icmg) /\ content'[NewOf(Icmg)] = content[NewOf(Icmg)]
    BY <1>3, <1>5, <1>6, <2>1 DEF Apart
  <2>5. Untouched(p, BakOf(Icmg)) \/ Here(BakOf(Icmg))'
    BY <1>3, <1>5, <1>6, <2>2 DEF Apart
  <2>6. Untouched(p, SwapOf(Icmg)) \/ Here(SwapOf(Icmg))'
    BY <1>3, <1>5, <1>6, <2>3 DEF Apart
  <2> QED
    BY <1>1, <1>3, <1>4, <2>4, <2>5, <2>6, LeftStays
<1> QED
  BY <1>7, <1>8

LEMMA LeftKilled ==
  ASSUME SwapTypes, Alone, platform = "posix", PosixInv, NEW p \in Procs, Kill(p)
  PROVE  PosixLeft'
<1>1. /\ content' = content /\ self' = self /\ at'[p] = "done" /\ kills' = kills + 1 /\ kills \in Nat
      /\ \A q \in Procs \ {p} : at'[q] = at[q]
  BY PosixKill, ReleaseAssumption DEF PosixInv, SwapTypes
<1>2. SUFFICES ASSUME kills' = 1 PROVE Here(Icmg)' \/ (Lost' /\ (content'[NewOf(Icmg)] > Torn
                                   \/ (Here(BakOf(Icmg))' /\ Here(SwapOf(Icmg))')))
  BY <1>1 DEF PosixLeft
<1>3. kills = 0
  BY <1>1, <1>2
<1>4. Here(Icmg)
  BY <1>3 DEF PosixInv, PosixLeft
<1>5. CASE content[Icmg] # Absent
  BY <1>1, <1>5 DEF Here
<1>6. CASE content[Icmg] = Absent
  <2>1. PICK q \in Procs : Between(q, Icmg)
    BY <1>4, <1>6 DEF Here
  <2>2. CASE q # p
    BY <1>1, <2>1, <2>2 DEF Here, Between
  <2>3. CASE q = p
    <3>1. at[p] \in {"a_new", "v_back", "r_back"} /\ self[p] = Icmg /\ PosixPlace(p)
      BY <2>1, <2>3 DEF Between, PosixInv
    <3>2. \A r \in Procs : ~Swapping(r)'
      <4>1. \A r \in Procs \ {p} : ~Swapping(r)
        BY <3>1 DEF Alone, Active, Swapping, Ended
      <4> QED
        BY <1>1, <4>1 DEF Swapping, Ended
    <3>3. Lost'
      BY <1>1, <1>6, <3>2 DEF Lost
    <3>4. \/ content[NewOf(Icmg)] > Torn
          \/ content[BakOf(Icmg)] # Absent /\ content[SwapOf(Icmg)] # Absent
      BY <3>1 DEF PosixPlace, Ready
    <3> QED
      BY <1>1, <3>3, <3>4 DEF Here
  <2> QED
    BY <2>2, <2>3
<1> QED
  BY <1>5, <1>6

LEMMA StepKills ==
  ASSUME NEW p \in Procs, Step(p), ~Kill(p)
  PROVE  kills' = kills
BY DEF Step, Launch, Pending, PendingStep, PendingDone, Gate, Fetch, Stage, TakeOver, Install, Copy,
       Arm, Flag, Clear, Verify, Rollback, Helper, Same

LEMMA PosixKept ==
  ASSUME SwapTypes, Alone, platform = "posix", PosixInv, NEW p \in Procs, Step(p)
  PROVE  PosixInv'
<1>1. /\ PosixImages' /\ PosixFiles' /\ \A q \in Procs : PosixPlace(q)'
  BY PosixPlacesKept DEF PosixInv
<1>2. PosixLeft'
  <2>1. CASE Kill(p)
    BY <2>1, LeftKilled
  <2>2. CASE ~Kill(p) /\ ~Active(p)
    BY <1>1, <2>2, StepKills, LeftAlone DEF PosixInv
  <2>3. CASE ~Kill(p) /\ Active(p)
    <3>1. Swapping(p) /\ PosixPlace(p)
      BY <2>3 DEF PosixInv, PosixPlace, Active, Armed
    <3>2. PICK m \in Paths : PosixSwapping(p, m)
      BY <3>1, MineIs DEF PosixSwapping, PosixInv
    <3> QED
      BY <2>3, <3>2, StepKills, LeftSwapping DEF PosixInv
  <2> QED
    BY <2>1, <2>2, <2>3
<1> QED
  BY <1>1, <1>2 DEF PosixInv

-----------------------------------------------------------------------------
\* Windows.

WinOp(f, g) ==
  \/ Moved(f, g) /\ g \in Images
  \/ content' = content /\ img' = img
  \/ Dropped(f)
  \/ \E v \in Versions : Wrote(f, v) /\ (v > Torn \/ f \notin Images \/ content[f] <= Torn)

LEMMA HeldIs ==
  ASSUME WinImages, NEW f, Held(f)
  PROVE  f \in Images /\ content[f] > Torn
BY DEF WinImages, Held, Busy

\* A running image stays, and stays complete.
LEMMA WinImageStays ==
  ASSUME SwapTypes, Windows, WinImages, NEW f \in Paths, NEW g \in Paths, f # g, WinOp(f, g),
         NEW q \in Procs, Runs(q)
  PROVE  img'[q] \in Images /\ content'[img'[q]] > Torn
<1>1. /\ content \in [Paths -> Int] /\ img \in [Procs -> Paths] /\ img[q] \in Images /\ content[img[q]] > Torn
      /\ img[q] \in Paths
  BY ContentIs DEF WinImages, SwapTypes
<1>2. CASE Moved(f, g) /\ g \in Images
  <2>1. img[q] # g
    BY <1>2 DEF Moved, Held, Busy
  <2> QED
    BY <1>1, <1>2, <2>1 DEF Moved
<1>3. CASE content' = content /\ img' = img
  BY <1>1, <1>3
<1>4. CASE Dropped(f)
  BY <1>1, <1>4 DEF Dropped, Held, Busy
<1>5. ASSUME NEW v \in Versions, Wrote(f, v), v > Torn \/ f \notin Images \/ content[f] <= Torn
      PROVE  img'[q] \in Images /\ content'[img'[q]] > Torn
  <2>1. img[q] # f \/ v > Torn
    BY <1>1, <1>5 DEF Torn
  <2> QED
    BY <1>1, <1>5, <2>1 DEF Wrote
<1> QED
  BY <1>2, <1>3, <1>4, <1>5 DEF WinOp

WinActing(p) ==
  /\ SwapTypes /\ HelpersOutlive /\ Windows /\ WinImages /\ WinPlace(p) /\ p \in Procs

LEMMA WinFacts ==
  ASSUME NEW p, WinActing(p)
  PROVE  /\ p \in Procs /\ SwapTypes /\ WinImages /\ content \in [Paths -> Int] /\ self[p] = Icmg
         /\ \A f \in Paths : content[f] >= Absent
         /\ Icmg \in Paths /\ BakOf(Icmg) \in Paths /\ NewOf(Icmg) \in Paths /\ SwapOf(Icmg) \in Paths
         /\ Apart(Icmg)
         /\ Ext(p, "bak") = BakOf(Icmg) /\ Ext(p, "new") = NewOf(Icmg) /\ Ext(p, "swap") = SwapOf(Icmg)
<1>1. Icmg \in Paths /\ Apart(Icmg)
  BY GoneIs, PathsApart
<1>2. self[p] = Icmg /\ SwapTypes /\ p \in Procs /\ WinImages
  BY DEF WinActing, WinPlace
<1> QED
  BY <1>1, <1>2, ExtIs, ContentIs DEF Apart

\* The files as they are while p swaps or is armed, nothing was killed and at
\* most one operation refused.
SettledMine(p) ==
  /\ content[BakOf(Icmg)] # Torn /\ content[SwapOf(Icmg)] # Torn
  /\ content[NewOf(Icmg)] = Torn => at[p] \in {"a_probed", "a_extract"}
  /\ content[Icmg] = Torn => at[p] \in {"a_copied", "a_back"}
  /\ Fine \/ Exposed(p)
  /\ SettledPlace(p)

WinDone(p) ==
  /\ \A q \in Procs : Runs(q) => img'[q] \in Images /\ content'[img'[q]] > Torn
  /\ helper'[p] \in {"wait", "old", "new"} \/ at'[p] \in Ready => content'[NewOf(Icmg)] > Torn
  /\ at'[p] = "a_copied" => rel'[p] # Torn
  /\ SettledMine(p) /\ jams <= 1 /\ jams' <= 1 => SettledMine(p)'

LEMMA WinRename ==
  ASSUME NEW p, WinActing(p), NEW f \in Paths, NEW g \in Images, f # g, NEW ok, NEW failed,
         Rename(p, f, g, ok, failed)
  PROVE  /\ \/ Moved(f, g) /\ Goto(p, ok)
            \/ /\ content' = content /\ Goto(p, failed)
               /\ \/ jams' = jams /\ (content[f] = Absent \/ content[g] > Torn)
                  \/ jams' = jams + 1
         /\ \A q \in Procs : Runs(q) => img'[q] \in Images /\ content'[img'[q]] > Torn
         /\ jams \in Nat /\ jams' \in Nat
<1>1. g \in Paths /\ SwapTypes /\ WinImages /\ Windows /\ jams \in Nat
  BY WinFacts, ReleaseAssumption DEF Images, WinActing, SwapTypes
<1>2. jams' \in 0..MaxJams /\ ((Moved(f, g) /\ Goto(p, ok)) \/ (Refused(f, g) /\ Goto(p, failed)))
  BY <1>1, RenameCases
<1>3. jams' \in Nat
  BY <1>2, ReleaseAssumption
<1>4. WinOp(f, g)
  BY <1>2 DEF WinOp, Refused
<1>5. \A q \in Procs : Runs(q) => img'[q] \in Images /\ content'[img'[q]] > Torn
  BY <1>1, <1>4, WinImageStays
<1>6. ASSUME Refused(f, g) 
      PROVE content' = content /\ (\/ jams' = jams /\ (content[f] = Absent \/ content[g] > Torn)
                                   \/ jams' = jams + 1)
  BY <1>1, <1>6, HeldIs DEF Refused
<1> QED
  BY <1>1, <1>2, <1>3, <1>5, <1>6

LEMMA WinPending ==
  ASSUME NEW p, WinActing(p), PendingStep(p)
  PROVE  WinDone(p)
<1>1. /\ p \in Procs /\ SwapTypes /\ WinImages /\ Windows /\ content \in [Paths -> Int] /\ self[p] = Icmg
      /\ \A f \in Paths : content[f] >= Absent
      /\ Icmg \in Paths /\ Apart(Icmg) /\ at \in [Procs -> Places] /\ Icmg \in Images /\ BakOf(Icmg) \in Images
      /\ Ext(p, "bak") = BakOf(Icmg) /\ Ext(p, "new") = NewOf(Icmg)
  BY WinFacts DEF WinActing, SwapTypes, Images
<1>2. /\ helper' = helper /\ rel' = rel /\ BakOf(Icmg) \in Paths /\ NewOf(Icmg) \in Paths /\ SwapOf(Icmg) \in Paths
      /\ at[p] \in {"p_remove", "p_old", "p_new", "p_back"}
      /\ helper'[p] = "none"
  BY <1>1 DEF PendingStep, Same, mine, At, WinActing, HelpersOutlive, Armed, Apart
<1>3. CASE At(p, "p_remove") /\ Remove(p, BakOf(Icmg), "p_old")
  <2>1. Dropped(BakOf(Icmg)) /\ jams' = jams /\ at'[p] = "p_old"
    BY <1>1, <1>2, <1>3, DropCases DEF Remove, Goto
  <2>2. \A q \in Procs : Runs(q) => img'[q] \in Images /\ content'[img'[q]] > Torn
    BY <1>1, <1>2, <2>1, WinImageStays DEF WinOp, Apart
  <2>3. /\ content'[NewOf(Icmg)] = content[NewOf(Icmg)] /\ content'[SwapOf(Icmg)] = content[SwapOf(Icmg)]
        /\ content'[Icmg] = content[Icmg] /\ content'[BakOf(Icmg)] \in {Absent, content[BakOf(Icmg)]}
    BY <1>1, <1>2, <2>1 DEF Dropped, Apart
  <2>4. SettledMine(p) => SettledMine(p)'
    BY <1>2, <1>3, <2>1, <2>3 DEF SettledMine, SettledPlace, Fine, Exposed, At, Torn, Absent
  <2> QED
    BY <1>2, <2>1, <2>2, <2>3, <2>4 DEF WinDone, Ready
<1>4. CASE At(p, "p_old") /\ Rename(p, Icmg, BakOf(Icmg), "p_new", "gate")
  <2>1. /\ \/ Moved(Icmg, BakOf(Icmg)) /\ Goto(p, "p_new")
           \/ content' = content /\ Goto(p, "gate") /\ jams' \in {jams, jams + 1}
        /\ \A q \in Procs : Runs(q) => img'[q] \in Images /\ content'[img'[q]] > Torn
        /\ jams \in Nat /\ jams' \in Nat
    BY <1>1, <1>4, WinRename DEF Apart
  <2>2. \/ /\ content'[Icmg] = Absent /\ content'[BakOf(Icmg)] = content[Icmg] /\ content[Icmg] # Absent
           /\ content'[NewOf(Icmg)] = content[NewOf(Icmg)] /\ content'[SwapOf(Icmg)] = content[SwapOf(Icmg)]
           /\ at'[p] = "p_new" /\ jams' = jams
        \/ content' = content /\ at'[p] = "gate" /\ jams' \in {jams, jams + 1}
    BY <1>1, <1>2, <2>1 DEF Moved, Goto, Apart
  <2>3. SettledMine(p) /\ jams <= 1 /\ jams' <= 1 => SettledMine(p)'
    BY <1>1, <1>2, <1>4, <2>1, <2>2 DEF SettledMine, SettledPlace, Fine, Exposed, At, Torn, Absent
  <2> QED
    BY <1>2, <2>1, <2>2, <2>3 DEF WinDone, Ready
<1>5. CASE At(p, "p_new") /\ Rename(p, NewOf(Icmg), Icmg, "p_flag", "p_back")
  <2>1. /\ \/ Moved(NewOf(Icmg), Icmg) /\ Goto(p, "p_flag")
           \/ /\ content' = content /\ Goto(p, "p_back")
              /\ \/ jams' = jams /\ (content[NewOf(Icmg)] = Absent \/ content[Icmg] > Torn)
                 \/ jams' = jams + 1
        /\ \A q \in Procs : Runs(q) => img'[q] \in Images /\ content'[img'[q]] > Torn
        /\ jams \in Nat /\ jams' \in Nat
    BY <1>1, <1>2, <1>5, WinRename DEF Apart
  <2>2. \/ /\ content'[Icmg] = content[NewOf(Icmg)] /\ content'[BakOf(Icmg)] = content[BakOf(Icmg)]
           /\ content'[NewOf(Icmg)] = Absent /\ content'[SwapOf(Icmg)] = content[SwapOf(Icmg)]
           /\ at'[p] = "p_flag" /\ jams' = jams
        \/ /\ content' = content /\ at'[p] = "p_back"
           /\ \/ jams' = jams /\ (content[NewOf(Icmg)] = Absent \/ content[Icmg] > Torn)
              \/ jams' = jams + 1
    BY <1>1, <1>2, <2>1 DEF Moved, Goto, Apart
  <2>3. SettledMine(p) /\ jams <= 1 /\ jams' <= 1 => SettledMine(p)'
    BY <1>1, <1>2, <1>5, <2>1, <2>2 DEF SettledMine, SettledPlace, Fine, Exposed, At, Torn, Absent
  <2> QED
    BY <1>2, <2>1, <2>2, <2>3 DEF WinDone, Ready
<1>6. CASE At(p, "p_back") /\ Rename(p, BakOf(Icmg), Icmg, "gate", "gate")
  <2>1. /\ \/ Moved(BakOf(Icmg), Icmg) /\ Goto(p, "gate")
           \/ /\ content' = content /\ Goto(p, "gate")
              /\ \/ jams' = jams /\ (content[BakOf(Icmg)] = Absent \/ content[Icmg] > Torn)
                 \/ jams' = jams + 1
        /\ \A q \in Procs : Runs(q) => img'[q] \in Images /\ content'[img'[q]] > Torn
        /\ jams \in Nat /\ jams' \in Nat
    BY <1>1, <1>2, <1>6, WinRename DEF Apart
  <2>2. /\ at'[p] = "gate"
        /\ \/ /\ content'[Icmg] = content[BakOf(Icmg)] /\ content'[BakOf(Icmg)] = Absent /\ jams' = jams
              /\ content'[NewOf(Icmg)] = content[NewOf(Icmg)] /\ content'[SwapOf(Icmg)] = content[SwapOf(Icmg)]
           \/ /\ content' = content
              /\ \/ jams' = jams /\ (content[BakOf(Icmg)] = Absent \/ content[Icmg] > Torn)
                 \/ jams' = jams + 1
    BY <1>1, <1>2, <2>1 DEF Moved, Goto, Apart
  <2>3. SettledMine(p) /\ jams <= 1 /\ jams' <= 1 => SettledMine(p)'
    BY <1>1, <1>2, <1>6, <2>1, <2>2 DEF SettledMine, SettledPlace, Fine, Exposed, At, Torn, Absent
  <2> QED
    BY <1>2, <2>1, <2>2, <2>3 DEF WinDone, Ready
<1> QED
  BY <1>1, <1>3, <1>4, <1>5, <1>6 DEF PendingStep

LEMMA WinInstall ==
  ASSUME NEW p, WinActing(p), Install(p)
  PROVE  WinDone(p)
<1>1. /\ p \in Procs /\ SwapTypes /\ WinImages /\ Windows /\ content \in [Paths -> Int] /\ self[p] = Icmg
      /\ \A f \in Paths : content[f] >= Absent
      /\ Icmg \in Paths /\ Apart(Icmg) /\ at \in [Procs -> Places] /\ Icmg \in Images /\ BakOf(Icmg) \in Images
      /\ Ext(p, "bak") = BakOf(Icmg) /\ Ext(p, "new") = NewOf(Icmg)
  BY WinFacts DEF WinActing, SwapTypes, Images
<1>2. /\ helper' = helper /\ rel' = rel /\ BakOf(Icmg) \in Paths /\ NewOf(Icmg) \in Paths /\ SwapOf(Icmg) \in Paths
      /\ at[p] \in {"a_remove", "a_old", "a_new", "a_back"}
      /\ helper'[p] = "none" /\ helper[p] = "none"
      /\ at[p] # "a_back" => content[NewOf(Icmg)] > Torn
  BY <1>1 DEF Install, Same, mine, At, WinActing, WinPlace, HelpersOutlive, Armed, Apart, Ready
<1>3. CASE At(p, "a_remove") /\ Remove(p, BakOf(Icmg), "a_old")
  <2>1. Dropped(BakOf(Icmg)) /\ jams' = jams /\ at'[p] = "a_old"
    BY <1>1, <1>2, <1>3, DropCases DEF Remove, Goto
  <2>2. \A q \in Procs : Runs(q) => img'[q] \in Images /\ content'[img'[q]] > Torn
    BY <1>1, <1>2, <2>1, WinImageStays DEF WinOp, Apart
  <2>3. /\ content'[NewOf(Icmg)] = content[NewOf(Icmg)] /\ content'[SwapOf(Icmg)] = content[SwapOf(Icmg)]
        /\ content'[Icmg] = content[Icmg] /\ content'[BakOf(Icmg)] \in {Absent, content[BakOf(Icmg)]}
    BY <1>1, <1>2, <2>1 DEF Dropped, Apart
  <2>4. SettledMine(p) => SettledMine(p)'
    BY <1>2, <1>3, <2>1, <2>3 DEF SettledMine, SettledPlace, Fine, Exposed, At, Torn, Absent
  <2> QED
    BY <1>2, <1>3, <2>1, <2>2, <2>3, <2>4 DEF WinDone, Ready, At
<1>4. CASE At(p, "a_old") /\ Rename(p, Icmg, BakOf(Icmg), "a_new", "a_arm")
  <2>1. /\ \/ Moved(Icmg, BakOf(Icmg)) /\ Goto(p, "a_new")
           \/ content' = content /\ Goto(p, "a_arm") /\ jams' \in {jams, jams + 1}
        /\ \A q \in Procs : Runs(q) => img'[q] \in Images /\ content'[img'[q]] > Torn
        /\ jams \in Nat /\ jams' \in Nat
    BY <1>1, <1>4, WinRename DEF Apart
  <2>2. \/ /\ content'[Icmg] = Absent /\ content'[BakOf(Icmg)] = content[Icmg] /\ content[Icmg] # Absent
           /\ content'[NewOf(Icmg)] = content[NewOf(Icmg)] /\ content'[SwapOf(Icmg)] = content[SwapOf(Icmg)]
           /\ at'[p] = "a_new" /\ jams' = jams
        \/ content' = content /\ at'[p] = "a_arm" /\ jams' \in {jams, jams + 1}
    BY <1>1, <1>2, <2>1 DEF Moved, Goto, Apart
  <2>3. SettledMine(p) /\ jams <= 1 /\ jams' <= 1 => SettledMine(p)'
    BY <1>1, <1>2, <1>4, <2>1, <2>2 DEF SettledMine, SettledPlace, Fine, Exposed, At, Torn, Absent
  <2> QED
    BY <1>2, <1>4, <2>1, <2>2, <2>3 DEF WinDone, Ready, At
<1>5. CASE At(p, "a_new") /\ Rename(p, NewOf(Icmg), Icmg, "a_clear", "a_copy")
  <2>1. /\ \/ Moved(NewOf(Icmg), Icmg) /\ Goto(p, "a_clear")
           \/ /\ content' = content /\ Goto(p, "a_copy")
              /\ \/ jams' = jams /\ (content[NewOf(Icmg)] = Absent \/ content[Icmg] > Torn)
                 \/ jams' = jams + 1
        /\ \A q \in Procs : Runs(q) => img'[q] \in Images /\ content'[img'[q]] > Torn
        /\ jams \in Nat /\ jams' \in Nat
    BY <1>1, <1>2, <1>5, WinRename DEF Apart
  <2>2. \/ /\ content'[Icmg] = content[NewOf(Icmg)] /\ content'[BakOf(Icmg)] = content[BakOf(Icmg)]
           /\ content'[NewOf(Icmg)] = Absent /\ content'[SwapOf(Icmg)] = content[SwapOf(Icmg)]
           /\ at'[p] = "a_clear" /\ jams' = jams
        \/ /\ content' = content /\ at'[p] = "a_copy"
           /\ \/ jams' = jams /\ (content[NewOf(Icmg)] = Absent \/ content[Icmg] > Torn)
              \/ jams' = jams + 1
    BY <1>1, <1>2, <2>1 DEF Moved, Goto, Apart
  <2>3. SettledMine(p) /\ jams <= 1 /\ jams' <= 1 => SettledMine(p)'
    BY <1>1, <1>2, <1>5, <2>1, <2>2 DEF SettledMine, SettledPlace, Fine, Exposed, At, Torn, Absent
  <2> QED
    BY <1>2, <1>5, <2>1, <2>2, <2>3 DEF WinDone, Ready, At
<1>6. CASE At(p, "a_back") /\ Rename(p, BakOf(Icmg), Icmg, "a_quit", "a_quit")
  <2>1. /\ \/ Moved(BakOf(Icmg), Icmg) /\ Goto(p, "a_quit")
           \/ /\ content' = content /\ Goto(p, "a_quit")
              /\ \/ jams' = jams /\ (content[BakOf(Icmg)] = Absent \/ content[Icmg] > Torn)
                 \/ jams' = jams + 1
        /\ \A q \in Procs : Runs(q) => img'[q] \in Images /\ content'[img'[q]] > Torn
        /\ jams \in Nat /\ jams' \in Nat
    BY <1>1, <1>2, <1>6, WinRename DEF Apart
  <2>2. /\ at'[p] = "a_quit"
        /\ \/ /\ content'[Icmg] = content[BakOf(Icmg)] /\ content'[BakOf(Icmg)] = Absent /\ jams' = jams
              /\ content'[NewOf(Icmg)] = content[NewOf(Icmg)] /\ content'[SwapOf(Icmg)] = content[SwapOf(Icmg)]
           \/ /\ content' = content
              /\ \/ jams' = jams /\ (content[BakOf(Icmg)] = Absent \/ content[Icmg] > Torn)
                 \/ jams' = jams + 1
    BY <1>1, <1>2, <2>1 DEF Moved, Goto, Apart
  <2>3. SettledMine(p) /\ jams <= 1 /\ jams' <= 1 => SettledMine(p)'
    BY <1>1, <1>2, <1>6, <2>1, <2>2 DEF SettledMine, SettledPlace, Fine, Exposed, At, Torn, Absent
  <2> QED
    BY <1>2, <2>1, <2>2, <2>3 DEF WinDone, Ready
<1> QED
  BY <1>1, <1>3, <1>4, <1>5, <1>6 DEF Install

LEMMA WinCopy ==
  ASSUME NEW p, WinActing(p), Copy(p)
  PROVE  WinDone(p)
<1>1. /\ p \in Procs /\ SwapTypes /\ WinImages /\ Windows /\ content \in [Paths -> Int] /\ self[p] = Icmg
      /\ \A f \in Paths : content[f] >= Absent
      /\ Icmg \in Paths /\ Apart(Icmg) /\ at \in [Procs -> Places] /\ Icmg \in Images
      /\ Ext(p, "new") = NewOf(Icmg)
  BY WinFacts DEF WinActing, SwapTypes, Images
<1>2. /\ helper' = helper /\ jams' = jams
      /\ BakOf(Icmg) \in Paths /\ NewOf(Icmg) \in Paths /\ SwapOf(Icmg) \in Paths
      /\ at[p] \in {"a_copy", "a_copied"}
      /\ helper'[p] = "none" /\ helper[p] = "none"
      /\ at[p] = "a_copy" => content[NewOf(Icmg)] > Torn
      /\ at[p] = "a_copied" => rel[p] # Torn
      /\ rel \in [Procs -> Versions] /\ rel[p] \in Versions /\ Torn \in Versions /\ Versions \subseteq Nat
  <2>1. /\ helper' = helper /\ jams' = jams /\ at[p] \in {"a_copy", "a_copied"}
    BY DEF Copy, At
  <2>2. helper[p] = "none"
    BY <1>1, <2>1 DEF WinActing, HelpersOutlive, Armed
  <2>3. /\ BakOf(Icmg) \in Paths /\ NewOf(Icmg) \in Paths /\ SwapOf(Icmg) \in Paths
    BY <1>1 DEF Apart
  <2>4. /\ at[p] = "a_copy" => content[NewOf(Icmg)] > Torn
        /\ at[p] = "a_copied" => rel[p] # Torn
    BY DEF WinActing, WinPlace, Ready
  <2>5. /\ rel \in [Procs -> Versions] /\ rel[p] \in Versions
        /\ Torn \in Versions /\ Versions \subseteq Nat
    BY <1>1, ReleaseAssumption DEF SwapTypes, Versions, Torn
  <2> QED
    BY <2>1, <2>2, <2>3, <2>4, <2>5
<1>0. rel[p] \in Nat /\ (at[p] = "a_copied" => rel[p] > Torn)
  <2>1. rel[p] \in Nat
    BY <1>2
  <2>2. at[p] = "a_copied" => rel[p] # Torn
    BY <1>2
  <2> QED
    BY <2>1, <2>2 DEF Torn
<1>3. \/ /\ at[p] = "a_copy" /\ at'[p] = "a_copied" /\ Wrote(Icmg, Torn) /\ ~Busy(Icmg)
         /\ rel'[p] = content[NewOf(Icmg)]
      \/ /\ at[p] = "a_copy" /\ content' = content /\ img' = img /\ at'[p] = "a_back"
         /\ content[Icmg] > Torn \/ content[NewOf(Icmg)] = Absent
      \/ at[p] = "a_copied" /\ Wrote(Icmg, rel[p]) /\ at'[p] = "a_clear"
      \/ at[p] = "a_copied" /\ content' = content /\ img' = img /\ at'[p] = "a_back"
  <2>1. CASE At(p, "a_copy") /\ NewOf(Icmg) \in DOMAIN disk /\ ~Busy(Icmg)
    <3>1. Write(Icmg, Torn) /\ rel' = [rel EXCEPT ![p] = disk[NewOf(Icmg)]] /\ Goto(p, "a_copied")
      BY <1>1, <2>1 DEF Copy, At
    <3>2. disk[NewOf(Icmg)] = content[NewOf(Icmg)]
      BY <1>1, <1>2, <2>1, ContentIs
    <3> QED
      BY <1>1, <1>2, <2>1, <3>1, <3>2, WriteCases DEF Goto, At
  <2>2. CASE At(p, "a_copy") /\ (NewOf(Icmg) \notin DOMAIN disk \/ Busy(Icmg))
    <3>1. UNCHANGED files /\ Goto(p, "a_back")
      BY <1>1, <2>2 DEF Copy, At
    <3>2. content[Icmg] > Torn \/ content[NewOf(Icmg)] = Absent
      BY <1>1, <1>2, <2>2, ContentIs, HeldIs DEF Held
    <3> QED
      BY <1>1, <2>2, <3>1, <3>2, StayIs DEF Goto, At
  <2>3. CASE At(p, "a_copied")
    BY <1>1, <1>2, <2>3, WriteCases, StayIs DEF Copy, Goto, At
  <2> QED
    BY <1>2, <2>1, <2>2, <2>3 DEF At
<1>4. \A q \in Procs : Runs(q) => img'[q] \in Images /\ content'[img'[q]] > Torn
  <2>1. CASE Wrote(Icmg, Torn) /\ ~Busy(Icmg)
    BY <1>1, <1>2, <2>1 DEF WinImages, Wrote, Busy, Images, Apart
  <2>2. CASE ~(Wrote(Icmg, Torn) /\ ~Busy(Icmg))
    <3>1. WinOp(Icmg, BakOf(Icmg))
      BY <1>0, <1>2, <1>3, <2>2 DEF WinOp
    <3> QED
      BY <1>1, <1>2, <3>1, WinImageStays DEF Apart
  <2> QED
    BY <2>1, <2>2
<1>5. /\ content'[NewOf(Icmg)] = content[NewOf(Icmg)] /\ content'[SwapOf(Icmg)] = content[SwapOf(Icmg)]
      /\ content'[BakOf(Icmg)] = content[BakOf(Icmg)]
      /\ \/ at[p] = "a_copy" /\ at'[p] = "a_copied" /\ content'[Icmg] = Torn /\ rel'[p] # Torn
         \/ /\ at[p] = "a_copy" /\ content'[Icmg] = content[Icmg] /\ at'[p] = "a_back"
            /\ content[Icmg] > Torn \/ content[NewOf(Icmg)] = Absent
         \/ at[p] = "a_copied" /\ content'[Icmg] > Torn /\ at'[p] = "a_clear"
         \/ at[p] = "a_copied" /\ content'[Icmg] = content[Icmg] /\ at'[p] = "a_back"
  BY <1>0, <1>1, <1>2, <1>3 DEF Wrote, Apart, Torn
<1>6. SettledMine(p) => SettledMine(p)'
  BY <1>1, <1>2, <1>5 DEF SettledMine, SettledPlace, Fine, Exposed, Torn, Absent
<1> QED
  BY <1>2, <1>4, <1>5, <1>6 DEF WinDone, Ready

LEMMA WinStage ==
  ASSUME NEW p, WinActing(p), Stage(p)
  PROVE  WinDone(p)
<1>1. /\ p \in Procs /\ SwapTypes /\ WinImages /\ Windows /\ content \in [Paths -> Int] /\ self[p] = Icmg
      /\ Icmg \in Paths /\ Apart(Icmg) /\ at \in [Procs -> Places]
      /\ BakOf(Icmg) \in Paths /\ NewOf(Icmg) \in Paths /\ SwapOf(Icmg) \in Paths
      /\ Ext(p, "new") = NewOf(Icmg)
  BY WinFacts DEF WinActing, SwapTypes
<1>2. /\ helper' = helper /\ rel' = rel /\ jams' = jams /\ helper[p] = "none" /\ at[p] \in Staging
  BY <1>1 DEF Stage, Same, mine, At, WinActing, HelpersOutlive, Armed, Staging
<1>3. rel[p] \in Nat /\ rel[p] # Torn /\ rel[p] \in Versions /\ Torn \in Versions
  <2>1. Versions \subseteq Nat
    BY ReleaseAssumption DEF Versions, Torn
  <2> QED
    BY <1>1, <1>2, <2>1 DEF SwapTypes, Versions
<1>4. \/ Wrote(NewOf(Icmg), Torn) /\ at'[p] = "a_probed"
      \/ Dropped(NewOf(Icmg)) /\ at'[p] = "a_download"
      \/ content' = content /\ img' = img /\ at[p] = "a_download" /\ at'[p] = "done"
      \/ Wrote(NewOf(Icmg), Torn) /\ at'[p] = "a_extract"
      \/ Wrote(NewOf(Icmg), rel[p]) /\ at'[p] = "a_lock"
  BY <1>1, <1>3, WriteCases, DropCases, StayIs DEF Stage, Goto, At
<1>5. NewOf(Icmg) \notin Images
  BY <1>1 DEF Apart, Images
<1>6. \A q \in Procs : Runs(q) => img'[q] \in Images /\ content'[img'[q]] > Torn
  <2>1. WinOp(NewOf(Icmg), Icmg)
    BY <1>3, <1>4, <1>5 DEF WinOp
  <2> QED
    BY <1>1, <2>1, WinImageStays DEF Apart
<1>7. ~Held(NewOf(Icmg))
  BY <1>1, <1>5, HeldIs
<1>8. /\ content'[Icmg] = content[Icmg] /\ content'[SwapOf(Icmg)] = content[SwapOf(Icmg)]
      /\ content'[BakOf(Icmg)] = content[BakOf(Icmg)]
      /\ \/ content'[NewOf(Icmg)] = Torn /\ at'[p] \in {"a_probed", "a_extract"}
         \/ content'[NewOf(Icmg)] = Absent /\ at'[p] = "a_download"
         \/ content'[NewOf(Icmg)] = content[NewOf(Icmg)] /\ at[p] = "a_download" /\ at'[p] = "done"
         \/ content'[NewOf(Icmg)] > Torn /\ at'[p] = "a_lock"
  BY <1>1, <1>3, <1>4, <1>7 DEF Wrote, Dropped, Apart, Torn
<1>9. SettledMine(p) => SettledMine(p)'
  BY <1>2, <1>8 DEF SettledMine, SettledPlace, Fine, Exposed, Torn, Absent, Staging
<1> QED
  BY <1>2, <1>6, <1>8, <1>9 DEF WinDone, Ready

\* Steps that leave the files as they are.
LEMMA WinPlain ==
  ASSUME NEW p, WinActing(p), PendingDone(p) \/ TakeOver(p) \/ Arm(p) \/ Clear(p)
  PROVE  WinDone(p)
<1>1. p \in Procs /\ SwapTypes /\ WinImages /\ Windows /\ at \in [Procs -> Places]
  BY WinFacts DEF WinActing, SwapTypes
<1>2. content' = content /\ img' = img /\ jams' = jams
  BY <1>1, StayIs DEF PendingDone, TakeOver, Arm, Clear
<1>3. \/ at[p] = "p_flag" /\ at'[p] = "gate" /\ helper'[p] = helper[p]
      \/ at[p] = "a_lock" /\ at'[p] = "a_remove" /\ helper'[p] = helper[p]
      \/ at[p] = "a_arm" /\ at'[p] = "a_flag" /\ helper'[p] \in {helper[p], "wait"}
      \/ at[p] = "a_quit" /\ at'[p] = "done" /\ helper'[p] = helper[p]
      \/ at[p] = "a_clear" /\ at'[p] = "a_verify" /\ helper'[p] = helper[p]
  BY <1>1 DEF PendingDone, TakeOver, Arm, Clear, Goto, At, SwapTypes
<1>9. helper[p] # "new" /\ helper'[p] # "new"
  BY <1>1, <1>3 DEF WinActing, HelpersOutlive, Armed
<1>4. \A q \in Procs : Runs(q) => img'[q] \in Images /\ content'[img'[q]] > Torn
  BY <1>1, <1>2 DEF WinImages
<1>5. helper[p] \in {"wait", "old", "new"} \/ at[p] \in Ready => content[NewOf(Icmg)] > Torn
  BY DEF WinActing, WinPlace
<1>6. helper'[p] \in {"wait", "old", "new"} \/ at'[p] \in Ready => content'[NewOf(Icmg)] > Torn
  BY <1>2, <1>3, <1>5 DEF Ready
<1>7. SettledMine(p) => SettledMine(p)'
  BY <1>2, <1>3, <1>9 DEF SettledMine, SettledPlace, Fine, Exposed, Torn, Absent
<1> QED
  BY <1>3, <1>4, <1>6, <1>7 DEF WinDone

LEMMA WinFlag ==
  ASSUME NEW p, WinActing(p), Flag(p)
  PROVE  WinDone(p)
<1>1. /\ p \in Procs /\ SwapTypes /\ WinImages /\ Windows /\ content \in [Paths -> Int]
      /\ Icmg \in Paths /\ Apart(Icmg) /\ at \in [Procs -> Places]
      /\ BakOf(Icmg) \in Paths /\ NewOf(Icmg) \in Paths /\ SwapOf(Icmg) \in Paths
      /\ Ext(p, "new") = NewOf(Icmg)
  BY WinFacts DEF WinActing, SwapTypes
<1>2. jams' = jams /\ helper' = helper /\ at[p] = "a_flag" /\ at'[p] = "a_quit"
  BY <1>1 DEF Flag, Goto, At
<1>3. \/ content' = content /\ img' = img
      \/ Dropped(NewOf(Icmg)) /\ ~Armed(p)
  BY <1>1, DropCases, StayIs DEF Flag
<1>4. \A q \in Procs : Runs(q) => img'[q] \in Images /\ content'[img'[q]] > Torn
  <2>1. WinOp(NewOf(Icmg), Icmg)
    BY <1>3 DEF WinOp
  <2> QED
    BY <1>1, <2>1, WinImageStays DEF Apart
<1>5. /\ content'[Icmg] = content[Icmg] /\ content'[SwapOf(Icmg)] = content[SwapOf(Icmg)]
      /\ content'[BakOf(Icmg)] = content[BakOf(Icmg)]
      /\ content'[NewOf(Icmg)] = content[NewOf(Icmg)] \/ (content'[NewOf(Icmg)] = Absent /\ ~Armed(p))
  BY <1>1, <1>3 DEF Dropped, Apart
<1>6. SettledMine(p) => SettledMine(p)'
  BY <1>2, <1>5 DEF SettledMine, SettledPlace, Fine, Exposed, Torn, Absent
<1>7. helper[p] \in {"wait", "old", "new"} => content[NewOf(Icmg)] > Torn
  BY DEF WinActing, WinPlace
<1>8. helper'[p] \in {"wait", "old", "new"} => content'[NewOf(Icmg)] > Torn
  BY <1>2, <1>5, <1>7 DEF Armed
<1> QED
  BY <1>2, <1>4, <1>6, <1>8 DEF WinDone, Ready

LEMMA WinKill ==
  ASSUME NEW p, WinActing(p), Kill(p)
  PROVE  /\ \A q \in Procs : Runs(q) => img'[q] \in Images /\ content'[img'[q]] > Torn
         /\ helper'[p] \in {"wait", "old", "new"} \/ at'[p] \in Ready => content'[NewOf(Icmg)] > Torn
         /\ at'[p] = "a_copied" => rel'[p] # Torn
<1>1. /\ p \in Procs /\ SwapTypes /\ WinImages /\ content' = content /\ img' = img /\ rel' = rel
  BY WinFacts, StayIs DEF Kill, mine
<1>2. at'[p] \in {at[p], "done"} /\ helper'[p] \in {helper[p], "none"}
  BY <1>1 DEF Kill, Goto, SwapTypes
<1> QED
  BY <1>1, <1>2 DEF WinActing, WinPlace, WinImages, Ready

\* The places of the four files, for the steps of Verify, Rollback and Helper.
LEMMA WinPlacesAre ==
  ASSUME NEW p, WinActing(p)
  PROVE  /\ p \in Procs /\ SwapTypes /\ WinImages /\ Windows /\ content \in [Paths -> Int] /\ self[p] = Icmg
         /\ \A f \in Paths : content[f] >= Absent
         /\ Icmg \in Paths /\ BakOf(Icmg) \in Paths /\ NewOf(Icmg) \in Paths /\ SwapOf(Icmg) \in Paths
         /\ Icmg \in Images /\ BakOf(Icmg) \in Images /\ SwapOf(Icmg) \in Images
         /\ at \in [Procs -> Places] /\ jams \in Nat
         /\ Ext(p, "bak") = BakOf(Icmg) /\ Ext(p, "new") = NewOf(Icmg) /\ Ext(p, "swap") = SwapOf(Icmg)
         /\ BakOf(Icmg) # Icmg /\ NewOf(Icmg) # Icmg /\ SwapOf(Icmg) # Icmg
         /\ BakOf(Icmg) # NewOf(Icmg) /\ BakOf(Icmg) # SwapOf(Icmg) /\ NewOf(Icmg) # SwapOf(Icmg)
BY WinFacts, ReleaseAssumption DEF WinActing, SwapTypes, Images, Apart

LEMMA WinVerify ==
  ASSUME NEW p, WinActing(p), Verify(p)
  PROVE  WinDone(p)
<1>1. /\ p \in Procs /\ SwapTypes /\ WinImages /\ Windows /\ content \in [Paths -> Int] /\ self[p] = Icmg
      /\ \A f \in Paths : content[f] >= Absent
      /\ Icmg \in Paths /\ BakOf(Icmg) \in Paths /\ NewOf(Icmg) \in Paths /\ SwapOf(Icmg) \in Paths
      /\ Icmg \in Images /\ BakOf(Icmg) \in Images /\ SwapOf(Icmg) \in Images
      /\ at \in [Procs -> Places]
      /\ Ext(p, "bak") = BakOf(Icmg) /\ Ext(p, "swap") = SwapOf(Icmg)
      /\ BakOf(Icmg) # Icmg /\ NewOf(Icmg) # Icmg /\ SwapOf(Icmg) # Icmg
      /\ BakOf(Icmg) # NewOf(Icmg) /\ BakOf(Icmg) # SwapOf(Icmg) /\ NewOf(Icmg) # SwapOf(Icmg)
  BY WinPlacesAre
<1>2. /\ helper' = helper /\ at[p] \in Checking
      /\ helper'[p] = "none" /\ helper[p] = "none"
  BY <1>1 DEF Verify, Same, At, WinActing, HelpersOutlive, Armed, Checking
<1>3. CASE At(p, "a_verify") /\ (Goto(p, "done") \/ Goto(p, "v_swap")) /\ UNCHANGED <<files, jams>>
  <2>1. content' = content /\ img' = img /\ jams' = jams /\ at'[p] \in {"done", "v_swap"}
    BY <1>1, <1>3, StayIs DEF Goto
  <2>2. \A q \in Procs : Runs(q) => img'[q] \in Images /\ content'[img'[q]] > Torn
    BY <1>1, <2>1 DEF WinImages
  <2>3. SettledMine(p) => SettledMine(p)'
    BY <1>2, <1>3, <2>1 DEF SettledMine, SettledPlace, Fine, Exposed, At, Torn, Absent
  <2> QED
    BY <1>2, <2>1, <2>2, <2>3 DEF WinDone, Ready
<1>4. CASE At(p, "v_swap") /\ Rename(p, Icmg, SwapOf(Icmg), "v_back", "v_back")
  <2>1. /\ \/ Moved(Icmg, SwapOf(Icmg)) /\ Goto(p, "v_back")
           \/ content' = content /\ Goto(p, "v_back") /\ jams' \in {jams, jams + 1}
        /\ \A q \in Procs : Runs(q) => img'[q] \in Images /\ content'[img'[q]] > Torn
    BY <1>1, <1>4, WinRename
  <2>2. /\ at'[p] = "v_back"
        /\ \/ /\ content'[Icmg] = Absent /\ content'[SwapOf(Icmg)] = content[Icmg] /\ content[Icmg] # Absent
              /\ content'[NewOf(Icmg)] = content[NewOf(Icmg)] /\ content'[BakOf(Icmg)] = content[BakOf(Icmg)]
           \/ content' = content
    BY <1>1, <2>1 DEF Moved, Goto
  <2>3. SettledMine(p) => SettledMine(p)'
    BY <1>2, <1>4, <2>2 DEF SettledMine, SettledPlace, Fine, Exposed, At, Torn, Absent
  <2> QED
    BY <1>2, <2>1, <2>2, <2>3 DEF WinDone, Ready
<1>5. CASE At(p, "v_back") /\ Rename(p, BakOf(Icmg), Icmg, "v_drop", "done")
  <2>1. /\ \/ Moved(BakOf(Icmg), Icmg) /\ Goto(p, "v_drop")
           \/ /\ content' = content /\ Goto(p, "done")
              /\ \/ jams' = jams /\ (content[BakOf(Icmg)] = Absent \/ content[Icmg] > Torn)
                 \/ jams' = jams + 1
        /\ \A q \in Procs : Runs(q) => img'[q] \in Images /\ content'[img'[q]] > Torn
        /\ jams \in Nat /\ jams' \in Nat
    BY <1>1, <1>5, WinRename
  <2>2. \/ /\ content'[Icmg] = content[BakOf(Icmg)] /\ content'[BakOf(Icmg)] = Absent /\ jams' = jams
           /\ content'[NewOf(Icmg)] = content[NewOf(Icmg)] /\ content'[SwapOf(Icmg)] = content[SwapOf(Icmg)]
           /\ at'[p] = "v_drop"
        \/ /\ content' = content /\ at'[p] = "done"
           /\ \/ jams' = jams /\ (content[BakOf(Icmg)] = Absent \/ content[Icmg] > Torn)
              \/ jams' = jams + 1
    BY <1>1, <2>1 DEF Moved, Goto
  <2>3. SettledMine(p) /\ jams <= 1 /\ jams' <= 1 => SettledMine(p)'
    BY <1>2, <1>5, <2>1, <2>2 DEF SettledMine, SettledPlace, Fine, Exposed, At, Torn, Absent
  <2> QED
    BY <1>2, <2>1, <2>2, <2>3 DEF WinDone, Ready
<1>6. CASE At(p, "v_drop") /\ Remove(p, SwapOf(Icmg), "done")
  <2>1. Dropped(SwapOf(Icmg)) /\ jams' = jams /\ at'[p] = "done"
    BY <1>1, <1>6, DropCases DEF Remove, Goto
  <2>2. \A q \in Procs : Runs(q) => img'[q] \in Images /\ content'[img'[q]] > Torn
    BY <1>1, <2>1, WinImageStays DEF WinOp
  <2>3. /\ content'[NewOf(Icmg)] = content[NewOf(Icmg)] /\ content'[BakOf(Icmg)] = content[BakOf(Icmg)]
        /\ content'[Icmg] = content[Icmg] /\ content'[SwapOf(Icmg)] \in {Absent, content[SwapOf(Icmg)]}
    BY <1>1, <2>1 DEF Dropped
  <2>4. SettledMine(p) => SettledMine(p)'
    BY <1>2, <1>6, <2>1, <2>3 DEF SettledMine, SettledPlace, Fine, Exposed, At, Torn, Absent
  <2> QED
    BY <1>2, <2>1, <2>2, <2>4 DEF WinDone, Ready
<1> QED
  BY <1>1, <1>3, <1>4, <1>5, <1>6 DEF Verify

LEMMA WinRollback ==
  ASSUME NEW p, WinActing(p), Rollback(p), ~At(p, "gate")
  PROVE  WinDone(p)
<1>1. /\ p \in Procs /\ SwapTypes /\ WinImages /\ Windows /\ content \in [Paths -> Int] /\ self[p] = Icmg
      /\ \A f \in Paths : content[f] >= Absent
      /\ Icmg \in Paths /\ BakOf(Icmg) \in Paths /\ NewOf(Icmg) \in Paths /\ SwapOf(Icmg) \in Paths
      /\ Icmg \in Images /\ BakOf(Icmg) \in Images /\ SwapOf(Icmg) \in Images
      /\ at \in [Procs -> Places]
      /\ Ext(p, "bak") = BakOf(Icmg) /\ Ext(p, "swap") = SwapOf(Icmg)
      /\ BakOf(Icmg) # Icmg /\ NewOf(Icmg) # Icmg /\ SwapOf(Icmg) # Icmg
      /\ BakOf(Icmg) # NewOf(Icmg) /\ BakOf(Icmg) # SwapOf(Icmg) /\ NewOf(Icmg) # SwapOf(Icmg)
  BY WinPlacesAre
<1>2. /\ helper' = helper /\ at[p] \in Undoing
      /\ helper'[p] = "none" /\ helper[p] = "none"
  BY <1>1 DEF Rollback, At, WinActing, HelpersOutlive, Armed, Undoing
<1>3. CASE At(p, "r_swap") /\ Rename(p, Icmg, SwapOf(Icmg), "r_back", "done")
  <2>1. /\ \/ Moved(Icmg, SwapOf(Icmg)) /\ Goto(p, "r_back")
           \/ content' = content /\ Goto(p, "done") /\ jams' \in {jams, jams + 1}
        /\ \A q \in Procs : Runs(q) => img'[q] \in Images /\ content'[img'[q]] > Torn
        /\ jams \in Nat /\ jams' \in Nat
    BY <1>1, <1>3, WinRename
  <2>2. \/ /\ content'[Icmg] = Absent /\ content'[SwapOf(Icmg)] = content[Icmg] /\ content[Icmg] # Absent
           /\ content'[NewOf(Icmg)] = content[NewOf(Icmg)] /\ content'[BakOf(Icmg)] = content[BakOf(Icmg)]
           /\ at'[p] = "r_back" /\ jams' = jams
        \/ content' = content /\ at'[p] = "done" /\ jams' \in {jams, jams + 1}
    BY <1>1, <2>1 DEF Moved, Goto
  <2>3. SettledMine(p) /\ jams <= 1 /\ jams' <= 1 => SettledMine(p)'
    BY <1>1, <1>2, <1>3, <2>1, <2>2 DEF SettledMine, SettledPlace, Fine, Exposed, At, Torn, Absent
  <2> QED
    BY <1>2, <2>1, <2>2, <2>3 DEF WinDone, Ready
<1>4. CASE At(p, "r_back") /\ Rename(p, BakOf(Icmg), Icmg, "r_keep", "r_undo")
  <2>1. /\ \/ Moved(BakOf(Icmg), Icmg) /\ Goto(p, "r_keep")
           \/ /\ content' = content /\ Goto(p, "r_undo")
              /\ \/ jams' = jams /\ (content[BakOf(Icmg)] = Absent \/ content[Icmg] > Torn)
                 \/ jams' = jams + 1
        /\ \A q \in Procs : Runs(q) => img'[q] \in Images /\ content'[img'[q]] > Torn
        /\ jams \in Nat /\ jams' \in Nat
    BY <1>1, <1>4, WinRename
  <2>2. \/ /\ content'[Icmg] = content[BakOf(Icmg)] /\ content'[BakOf(Icmg)] = Absent /\ jams' = jams
           /\ content'[NewOf(Icmg)] = content[NewOf(Icmg)] /\ content'[SwapOf(Icmg)] = content[SwapOf(Icmg)]
           /\ at'[p] = "r_keep"
        \/ /\ content' = content /\ at'[p] = "r_undo"
           /\ \/ jams' = jams /\ (content[BakOf(Icmg)] = Absent \/ content[Icmg] > Torn)
              \/ jams' = jams + 1
    BY <1>1, <2>1 DEF Moved, Goto
  <2>3. SettledMine(p) /\ jams <= 1 /\ jams' <= 1 => SettledMine(p)'
    BY <1>2, <1>4, <2>1, <2>2 DEF SettledMine, SettledPlace, Fine, Exposed, At, Torn, Absent
  <2> QED
    BY <1>2, <2>1, <2>2, <2>3 DEF WinDone, Ready
<1>5. CASE At(p, "r_undo") /\ Rename(p, SwapOf(Icmg), Icmg, "done", "done")
  <2>1. /\ \/ Moved(SwapOf(Icmg), Icmg) /\ Goto(p, "done")
           \/ /\ content' = content /\ Goto(p, "done")
              /\ \/ jams' = jams /\ (content[SwapOf(Icmg)] = Absent \/ content[Icmg] > Torn)
                 \/ jams' = jams + 1
        /\ \A q \in Procs : Runs(q) => img'[q] \in Images /\ content'[img'[q]] > Torn
        /\ jams \in Nat /\ jams' \in Nat
    BY <1>1, <1>5, WinRename
  <2>2. /\ at'[p] = "done"
        /\ \/ /\ content'[Icmg] = content[SwapOf(Icmg)] /\ content'[SwapOf(Icmg)] = Absent /\ jams' = jams
              /\ content'[NewOf(Icmg)] = content[NewOf(Icmg)] /\ content'[BakOf(Icmg)] = content[BakOf(Icmg)]
           \/ /\ content' = content
              /\ \/ jams' = jams /\ (content[SwapOf(Icmg)] = Absent \/ content[Icmg] > Torn)
                 \/ jams' = jams + 1
    BY <1>1, <2>1 DEF Moved, Goto
  <2>3. SettledMine(p) /\ jams <= 1 /\ jams' <= 1 => SettledMine(p)'
    BY <1>2, <1>5, <2>1, <2>2 DEF SettledMine, SettledPlace, Fine, Exposed, At, Torn, Absent
  <2> QED
    BY <1>2, <2>1, <2>2, <2>3 DEF WinDone, Ready
<1>6. CASE At(p, "r_keep") /\ Rename(p, SwapOf(Icmg), BakOf(Icmg), "done", "done")
  <2>1. /\ \/ Moved(SwapOf(Icmg), BakOf(Icmg)) /\ Goto(p, "done")
           \/ content' = content /\ Goto(p, "done") /\ jams' \in {jams, jams + 1}
        /\ \A q \in Procs : Runs(q) => img'[q] \in Images /\ content'[img'[q]] > Torn
        /\ jams \in Nat /\ jams' \in Nat
    BY <1>1, <1>6, WinRename
  <2>2. /\ at'[p] = "done"
        /\ \/ /\ content'[SwapOf(Icmg)] = Absent /\ content'[BakOf(Icmg)] = content[SwapOf(Icmg)]
              /\ content'[NewOf(Icmg)] = content[NewOf(Icmg)] /\ content'[Icmg] = content[Icmg]
              /\ jams' = jams
           \/ content' = content /\ jams' \in {jams, jams + 1}
    BY <1>1, <2>1 DEF Moved, Goto
  <2>3. SettledMine(p) /\ jams <= 1 /\ jams' <= 1 => SettledMine(p)'
    BY <1>2, <1>6, <2>1, <2>2 DEF SettledMine, SettledPlace, Fine, Exposed, At, Torn, Absent
  <2> QED
    BY <1>2, <2>1, <2>2, <2>3 DEF WinDone, Ready
<1> QED
  BY <1>1, <1>3, <1>4, <1>5, <1>6 DEF Rollback

LEMMA WinHelper ==
  ASSUME NEW p, WinActing(p), Helper(p)
  PROVE  /\ WinDone(p)
         /\ content' = content \/ content'[Icmg] > Torn \/ content'[NewOf(Icmg)] > Torn
<1>1. /\ p \in Procs /\ SwapTypes /\ WinImages /\ Windows /\ content \in [Paths -> Int] /\ self[p] = Icmg
      /\ \A f \in Paths : content[f] >= Absent
      /\ Icmg \in Paths /\ BakOf(Icmg) \in Paths /\ NewOf(Icmg) \in Paths /\ SwapOf(Icmg) \in Paths
      /\ Icmg \in Images /\ BakOf(Icmg) \in Images
      /\ Ext(p, "bak") = BakOf(Icmg) /\ Ext(p, "new") = NewOf(Icmg)
      /\ BakOf(Icmg) # Icmg /\ NewOf(Icmg) # Icmg /\ SwapOf(Icmg) # Icmg
      /\ BakOf(Icmg) # NewOf(Icmg) /\ BakOf(Icmg) # SwapOf(Icmg) /\ NewOf(Icmg) # SwapOf(Icmg)
  BY WinPlacesAre
<1>2. /\ jams' = jams /\ at' = at /\ at[p] = "done" /\ helper[p] \in {"wait", "old", "new", "flag"}
      /\ helper[p] \in {"wait", "old", "new"} => content[NewOf(Icmg)] > Torn
  BY <1>1 DEF Helper, At, WinActing, WinPlace, HelpersOutlive, Armed
<1>3. CASE helper[p] = "wait"
  <2>1. Dropped(BakOf(Icmg)) /\ helper'[p] = "old"
    BY <1>1, <1>3, DropCases DEF Helper, Shell, SwapTypes
  <2>2. \A q \in Procs : Runs(q) => img'[q] \in Images /\ content'[img'[q]] > Torn
    BY <1>1, <2>1, WinImageStays DEF WinOp
  <2>3. /\ content'[NewOf(Icmg)] = content[NewOf(Icmg)] /\ content'[SwapOf(Icmg)] = content[SwapOf(Icmg)]
        /\ content'[Icmg] = content[Icmg] /\ content'[BakOf(Icmg)] \in {Absent, content[BakOf(Icmg)]}
    BY <1>1, <2>1 DEF Dropped
  <2>4. SettledMine(p) => SettledMine(p)'
    BY <1>2, <1>3, <2>1, <2>3 DEF SettledMine, SettledPlace, Fine, Exposed, Torn, Absent
  <2> QED
    BY <1>2, <1>3, <2>1, <2>2, <2>3, <2>4 DEF WinDone, Ready
<1>4. CASE helper[p] = "old"
  <2>1. \/ content' = content /\ img' = img /\ helper' = [helper EXCEPT ![p] = "new"]
        \/ Shell(p, Icmg, BakOf(Icmg), "new")
    BY <1>1, <1>4, StayIs DEF Helper
  <2>2. /\ helper'[p] = "new"
        /\ \/ content' = content /\ img' = img
           \/ Moved(Icmg, BakOf(Icmg)) /\ content[Icmg] # Absent
    BY <1>1, <1>2, <2>1, ShellCases DEF Moved, SwapTypes
  <2>3. \A q \in Procs : Runs(q) => img'[q] \in Images /\ content'[img'[q]] > Torn
    <3>1. WinOp(Icmg, BakOf(Icmg))
      BY <1>1, <2>2 DEF WinOp
    <3> QED
      BY <1>1, <3>1, WinImageStays
  <2>4. /\ content'[NewOf(Icmg)] = content[NewOf(Icmg)] /\ content'[SwapOf(Icmg)] = content[SwapOf(Icmg)]
        /\ \/ content'[Icmg] = content[Icmg] /\ content'[BakOf(Icmg)] = content[BakOf(Icmg)]
           \/ content'[Icmg] = Absent /\ content'[BakOf(Icmg)] = content[Icmg]
    BY <1>1, <2>2 DEF Moved
  <2>5. SettledMine(p) => SettledMine(p)'
    BY <1>2, <1>4, <2>2, <2>4 DEF SettledMine, SettledPlace, Fine, Exposed, Torn, Absent
  <2> QED
    BY <1>2, <1>4, <2>2, <2>3, <2>4, <2>5 DEF WinDone, Ready
<1>5. CASE helper[p] = "new"
  <2>1. Shell(p, NewOf(Icmg), Icmg, "flag")
    BY <1>1, <1>5 DEF Helper
  <2>2. /\ helper'[p] = "flag"
        /\ \/ content' = content /\ img' = img /\ content[Icmg] > Torn
           \/ Moved(NewOf(Icmg), Icmg)
    <3>1. content[NewOf(Icmg)] # Absent
      BY <1>2, <1>5 DEF Torn, Absent
    <3> QED
      BY <1>1, <1>2, <2>1, <3>1, ShellCases, HeldIs DEF Moved, SwapTypes
  <2>3. \A q \in Procs : Runs(q) => img'[q] \in Images /\ content'[img'[q]] > Torn
    <3>1. WinOp(NewOf(Icmg), Icmg)
      BY <1>1, <2>2 DEF WinOp
    <3> QED
      BY <1>1, <3>1, WinImageStays
  <2>4. /\ content'[BakOf(Icmg)] = content[BakOf(Icmg)] /\ content'[SwapOf(Icmg)] = content[SwapOf(Icmg)]
        /\ content'[Icmg] > Torn /\ content'[NewOf(Icmg)] \in {content[NewOf(Icmg)], Absent}
    BY <1>1, <1>2, <1>5, <2>2 DEF Moved
  <2>5. SettledMine(p) => SettledMine(p)'
    BY <1>2, <1>5, <2>2, <2>4 DEF SettledMine, SettledPlace, Fine, Exposed, Torn, Absent
  <2> QED
    BY <1>2, <1>5, <2>2, <2>3, <2>4, <2>5 DEF WinDone, Ready
<1>6. CASE helper[p] = "flag"
  <2>1. content' = content /\ img' = img /\ helper'[p] = "none"
    BY <1>1, <1>6, StayIs DEF Helper, Shell, SwapTypes
  <2>2. \A q \in Procs : Runs(q) => img'[q] \in Images /\ content'[img'[q]] > Torn
    BY <1>1, <2>1 DEF WinImages
  <2>3. SettledMine(p) => SettledMine(p)'
    BY <1>2, <1>6, <2>1 DEF SettledMine, SettledPlace, Fine, Exposed, Torn, Absent
  <2> QED
    BY <1>2, <2>1, <2>2, <2>3 DEF WinDone, Ready
<1> QED
  BY <1>2, <1>3, <1>4, <1>5, <1>6

LEMMA WinActive ==
  ASSUME NEW p, WinActing(p), Active(p), Step(p), ~Kill(p)
  PROVE  WinDone(p)
<1>1. ~(at[p] \in {"idle", "pending", "gate"})
  BY DEF WinActing, HelpersOutlive, Active, Swapping, Ended
<1>2. ~Launch(p) /\ ~Pending(p) /\ ~Gate(p) /\ ~Fetch(p) /\ ~At(p, "gate")
  BY <1>1 DEF Launch, Pending, Gate, Fetch, At
<1> QED
  BY <1>2, WinPending, WinStage, WinPlain, WinInstall, WinCopy, WinFlag, WinVerify, WinRollback, WinHelper
     DEF Step

LEMMA WinSelf ==
  ASSUME SwapTypes, Windows, NEW p \in Procs, self[p] = Icmg, Step(p)
  PROVE  self'[p] = Icmg
<1>1. self' = self \/ self' = [self EXCEPT ![p] = Icmg]
  BY DEF Step, Launch, Pending, PendingStep, PendingDone, Gate, Fetch, Stage, TakeOver, Install, Copy,
         Arm, Flag, Clear, Verify, Rollback, Helper, Kill, Same, mine, SelfPath
<1> QED
  BY <1>1 DEF SwapTypes

\* Who has ended does not run again.
LEMMA DoneStays ==
  ASSUME SwapTypes, NEW p \in Procs, Step(p), at[p] = "done"
  PROVE  at'[p] = "done" /\ (Helper(p) \/ Kill(p))
<1>1. Helper(p) \/ Kill(p)
  BY DEF Step, Launch, Pending, PendingStep, PendingDone, Gate, Fetch, Stage, TakeOver, Install, Copy,
         Arm, Flag, Clear, Verify, Rollback, At
<1> QED
  BY <1>1 DEF Helper, Kill, Goto, SwapTypes

\* When p swaps or is armed, the others are neither, and stay so.
LEMMA OthersQuiet ==
  ASSUME SwapTypes, Alone, NEW p \in Procs, Step(p), Active(p), NEW q \in Procs, q # p
  PROVE  /\ at[q] \in Quiet /\ at'[q] \in Quiet /\ helper[q] = "none" /\ helper'[q] = "none"
         /\ Runs(q)' => Runs(q)
         /\ self'[q] = self[q]
<1>1. at[q] \in Quiet /\ helper[q] = "none"
  BY DEF Alone, Active, Swapping, Armed, Quiet
<1>2. helper'[q] = helper[q] /\ self'[q] = self[q] /\ (at'[q] = at[q] \/ at'[q] = "done")
  BY OthersStay
<1> QED
  BY <1>1, <1>2 DEF Quiet, Ended, Runs

LEMMA WinActiveKept ==
  ASSUME SwapTypes, HelpersOutlive, Alone, Windows, WinInv, NEW p \in Procs, Step(p), Active(p)
  PROVE  WinInv'
<1>1. WinActing(p) /\ \A q \in Procs : WinPlace(q)
  BY DEF WinActing, WinInv
<1>2. /\ \A q \in Procs : Runs(q) => img'[q] \in Images /\ content'[img'[q]] > Torn
      /\ helper'[p] \in {"wait", "old", "new"} \/ at'[p] \in Ready => content'[NewOf(Icmg)] > Torn
      /\ at'[p] = "a_copied" => rel'[p] # Torn
  BY <1>1, WinActive, WinKill DEF WinDone
<1>3. \A q \in Procs : Runs(q)' => Runs(q)
  <2>1. at[p] # "idle"
    BY DEF HelpersOutlive, Active, Swapping, Ended
  <2>2. Runs(p)' => Runs(p)
    BY <2>1, DoneStays DEF Runs, Ended
  <2> QED
    BY <2>2, OthersQuiet
<1>4. WinImages'
  BY <1>2, <1>3 DEF WinImages, Images
<1>5. \A q \in Procs : WinPlace(q)'
  <2>1. WinPlace(p)'
    BY <1>1, <1>2, WinSelf DEF WinPlace, Ready
  <2>2. ASSUME NEW q \in Procs, q # p PROVE WinPlace(q)'
    <3>1. at'[q] \in Quiet /\ helper'[q] = "none" /\ self'[q] = Icmg
      BY <1>1, <2>2, OthersQuiet DEF WinPlace
    <3> QED
      BY <3>1 DEF WinPlace, Quiet, Ended, Ready
  <2> QED
    BY <2>1, <2>2
<1>6. WinLeft'
  <2>1. CASE Runs(p)
    <3>1. img'[p] \in Images /\ content'[img'[p]] > Torn
      BY <1>2, <2>1
    <3> QED
      BY <3>1 DEF WinLeft, Images
  <2>2. CASE ~Runs(p)
    <3>1. at[p] # "idle"
      BY DEF HelpersOutlive, Active, Swapping, Ended
    <3>2. Helper(p) \/ Kill(p)
      BY <2>2, <3>1, DoneStays DEF Runs, Ended
    <3>3. content' = content \/ content'[Icmg] > Torn \/ content'[NewOf(Icmg)] > Torn
      BY <1>1, <3>2, WinHelper, StayIs DEF Kill
    <3>4. WinLeft
      BY DEF WinInv
    <3> QED
      BY <3>3, <3>4 DEF WinLeft, Images
  <2> QED
    BY <2>1, <2>2
<1> QED
  BY <1>4, <1>5, <1>6 DEF WinInv

LEMMA SettledActiveKept ==
  ASSUME SwapTypes, SwapTypes', HelpersOutlive, Alone, Windows, WinInv, SettledInv, jams <= 1, jams' <= 1,
         kills = 0, kills' = 0, NEW p \in Procs, Step(p), Active(p)
  PROVE  SettledInv'
<1>1. WinActing(p)
  BY DEF WinActing, WinInv
<1>2. ~Kill(p)
  BY DEF Kill
<1>3. \A q \in Procs \ {p} : at[q] \in Quiet /\ at'[q] \in Quiet /\ helper[q] = "none" /\ helper'[q] = "none"
  BY OthersQuiet
<1>4. SettledMine(p)
  BY <1>3 DEF SettledInv, SettledMine, Complete, Exposed, Quiet, Ended
<1>5. SettledMine(p)'
  BY <1>1, <1>2, <1>4, WinActive DEF WinDone
<1>6. \A q \in Procs : SettledPlace(q)'
  BY <1>3, <1>5 DEF SettledMine, SettledPlace, Quiet, Ended
<1>7. Complete' /\ (Fine \/ \E q \in Procs : Exposed(q))'
  BY <1>5 DEF SettledMine, Complete
<1> QED
  BY <1>6, <1>7 DEF SettledInv

\* A step of a process that is neither: it may be started, and may enter a swap.
LEMMA WinIdleKept ==
  ASSUME SwapTypes, HelpersOutlive, Windows, WinInv, NEW p \in Procs, Step(p), ~Active(p)
  PROVE  WinInv'
<1>1. /\ content' = content /\ helper' = helper /\ helper[p] = "none"
      /\ at'[p] \in Quiet \cup {"p_remove", "a_probe", "r_swap"}
      /\ \A q \in Procs \ {p} : at'[q] = at[q]
  BY IdleStep DEF Active, Armed
<1>2. WinImages'
  <2> SUFFICES ASSUME NEW q \in Procs, Runs(q)' PROVE img'[q] \in Images /\ content[img'[q]] > Torn
    BY <1>1 DEF WinImages, Images
  <2>1. CASE Launch(p) /\ q = p
    <3>1. img'[q] = Icmg /\ content[Icmg] > Torn
      BY <2>1, ContentIs, GoneIs DEF Launch, SwapTypes
    <3> QED
      BY <3>1 DEF Images
  <2>2. CASE ~(Launch(p) /\ q = p)
    <3>1. Pending(p) \/ Gate(p) \/ Fetch(p) \/ (Rollback(p) /\ At(p, "gate")) \/ Kill(p) \/ Launch(p)
      BY DEF Active, Swapping, Armed, Ended, Step, PendingStep, PendingDone, Stage, TakeOver, Install, Copy, Arm,
             Flag, Clear, Verify, Rollback, Helper, At
    <3>2. img'[q] = img[q]
      BY <2>2, <3>1 DEF Pending, Gate, Fetch, Rollback, Kill, Launch, files, At, SwapTypes
    <3>3. Runs(q)
      <4>1. CASE q # p
        BY <1>1, <4>1 DEF Runs
      <4>2. CASE q = p
        BY <2>2, <3>1, <4>2 DEF Pending, Gate, Fetch, Rollback, Kill, Goto, Runs, At, Ended, SwapTypes
      <4> QED
        BY <4>1, <4>2
    <3> QED
      BY <3>2, <3>3 DEF WinInv, WinImages
  <2> QED
    BY <2>1, <2>2
<1>3. \A q \in Procs : WinPlace(q)'
  <2>1. WinPlace(p)'
    BY <1>1, WinSelf DEF WinInv, WinPlace, Ready, Quiet, Ended
  <2>2. ASSUME NEW q \in Procs, q # p PROVE WinPlace(q)'
    <3>1. WinPlace(q) /\ self'[q] = self[q] /\ rel'[q] = rel[q]
      BY <2>2, OthersStay DEF WinInv
    <3> QED
      BY <1>1, <2>2, <3>1 DEF WinPlace
  <2> QED
    BY <2>1, <2>2
<1>4. WinLeft'
  BY <1>1 DEF WinInv, WinLeft, Images
<1> QED
  BY <1>2, <1>3, <1>4 DEF WinInv

LEMMA SettledIdleKept ==
  ASSUME SwapTypes, SwapTypes', HelpersOutlive, Alone', Windows, WinInv, SettledInv,
         NEW p \in Procs, Step(p), ~Active(p)
  PROVE  SettledInv'
<1>1. /\ content' = content /\ helper' = helper /\ helper[p] = "none" /\ jams' = jams /\ disk' = disk
      /\ at[p] \in Quiet
      /\ at'[p] \in Quiet \cup {"p_remove", "a_probe", "r_swap"}
      /\ \A q \in Procs \ {p} : at'[q] = at[q]
  BY IdleStep DEF Active, Swapping, Armed, Quiet
<1>2. \A q \in Procs : at[q] \in {"a_probed", "a_extract", "a_copied", "a_back"} => at'[q] = at[q]
  BY <1>1 DEF Quiet, Ended
<1>3. Complete'
  BY <1>1, <1>2 DEF SettledInv, Complete
<1>4. Fine' \/ \E q \in Procs : Exposed(q)'
  <2>1. ASSUME NEW q \in Procs, Exposed(q) PROVE Exposed(q)'
    <3>1. q # p
      BY <1>1, <2>1 DEF Exposed, Quiet, Ended
    <3> QED
      BY <1>1, <2>1, <3>1 DEF Exposed
  <2> QED
    BY <1>1, <2>1 DEF SettledInv, Fine
<1>5. ASSUME NEW q \in Procs, q # p PROVE SettledPlace(q)'
  <2>1. SettledPlace(q) /\ at'[q] = at[q]
    BY <1>1, <1>5 DEF SettledInv
  <2> QED
    BY <1>1, <2>1 DEF SettledPlace
<1>6. SettledPlace(p)'
  <2>0. /\ self[p] = Icmg /\ SelfPath(p) = Icmg /\ Icmg \in Paths
        /\ BakOf(Icmg) \in Paths /\ NewOf(Icmg) \in Paths /\ content \in [Paths -> Int]
        /\ \A f \in Paths : content[f] >= Absent /\ (f \in DOMAIN disk => content[f] # Absent)
    BY GoneIs, PathsApart, ContentIs DEF WinInv, WinPlace, SelfPath, Apart
  <2>1. CASE at'[p] = "p_remove"
    <3>1. Pending(p)
      BY <1>1, <2>1 DEF Step, Launch, PendingStep, PendingDone, Gate, Fetch, Stage, TakeOver, Install, Copy,
         Arm, Flag, Clear, Verify, Rollback, Helper, Kill, At, Goto, Quiet, Ended, SwapTypes, Armed
    <3>2. NewOf(Icmg) \in DOMAIN disk
      BY <2>0, <2>1, <3>1 DEF Pending, Goto, NewOf, SwapTypes
    <3>3. content[NewOf(Icmg)] # Torn
      <4> SUFFICES ASSUME content[NewOf(Icmg)] = Torn PROVE FALSE
        OBVIOUS
      <4>1. PICK q \in Procs : at[q] \in {"a_probed", "a_extract"}
        BY DEF SettledInv, Complete
      <4>2. q # p /\ at'[q] \in {"a_probed", "a_extract"}
        BY <1>1, <1>2, <4>1 DEF Quiet, Ended
      <4> QED
        BY <2>1, <4>2 DEF Alone, Active, Swapping, Ended
    <3>4. content[NewOf(Icmg)] > Torn
      BY <2>0, <3>2, <3>3 DEF Torn, Absent
    <3> QED
      BY <1>1, <2>1, <3>4 DEF SettledPlace
  <2>2. CASE at'[p] = "r_swap"
    <3>1. Rollback(p) /\ At(p, "gate")
      BY <1>1, <2>2 DEF Step, Launch, Pending, PendingStep, PendingDone, Gate, Fetch, Stage, TakeOver, Install, Copy,
         Arm, Flag, Clear, Verify, Rollback, Helper, Kill, At, Goto, Quiet, Ended, SwapTypes, Armed
    <3>2. BakOf(Icmg) \in DOMAIN disk
      BY <2>0, <2>2, <3>1 DEF Rollback, Goto, At, BakOf, SwapTypes
    <3>3. content[BakOf(Icmg)] > Torn
      BY <2>0, <3>2 DEF SettledInv, Complete, Torn, Absent
    <3> QED
      BY <1>1, <2>2, <3>3 DEF SettledPlace
  <2>3. CASE at'[p] \in Quiet \cup {"a_probe"}
    BY <2>3 DEF SettledPlace, Quiet, Ended
  <2> QED
    BY <1>1, <2>1, <2>2, <2>3
<1> QED
  BY <1>3, <1>4, <1>5, <1>6 DEF SettledInv

-----------------------------------------------------------------------------
\* The inductive invariant.

LEMMA SwapInitInv == SwapInit => SwapInv
<1> SUFFICES ASSUME SwapInit PROVE SwapInv
  OBVIOUS
<1>1. /\ Icmg \in Paths /\ Gone \in Paths /\ Apart(Icmg) /\ Apart(Gone) /\ Icmg # Gone /\ Icmg # BakOf(Gone)
      /\ ~NewFile(Icmg)
  BY GoneIs, PathsApart, NamesApart
<1>2. Installed \in Versions /\ 0 \in Versions /\ Installed > Torn /\ Installed # Absent /\ Installed # Torn
      /\ Torn # Absent
  BY ReleaseAssumption DEF Versions, Torn, Absent
<1>3. platform \in {"posix", "windows"}
  BY ReleaseAssumption DEF SwapInit
<1>4. SwapTypes
  <2>1. DiskTyped
    BY <1>1, <1>2 DEF SwapInit, DiskTyped
  <2>2. at \in [Procs -> Places] /\ \A p \in Procs : at[p] = "idle"
    BY PlacesAre DEF SwapInit
  <2>3. kills \in 0..MaxKills /\ jams \in 0..MaxJams
    BY ReleaseAssumption DEF SwapInit
  <2> QED
    BY <1>1, <1>2, <1>3, <2>1, <2>2, <2>3 DEF SwapTypes, SwapInit, FlagsTyped, Staging
<1>5. /\ \A f \in Paths : content[f] = IF f = Icmg THEN Installed ELSE Absent
      /\ content[Icmg] = Installed
  BY <1>1 DEF SwapInit, content
<1>6. \A p \in Procs : at[p] = "idle" /\ helper[p] = "none" /\ self[p] = Icmg /\ ~Runs(p) /\ ~Active(p) /\ ~Swapping(p)
  BY DEF SwapInit, Runs, Active, Swapping, Armed, Ended
<1>7. HelpersOutlive /\ Alone /\ LockHeld /\ \A p \in Procs : KeptBy(p)
  BY <1>6 DEF HelpersOutlive, Alone, LockHeld, KeptBy, Armed, SwapInit
<1>8. PosixInv
  <2>1. PosixImages
    BY <1>6 DEF PosixImages
  <2>2. PosixFiles
    BY <1>1, <1>2, <1>5 DEF PosixFiles, SwapInit, Apart
  <2>3. PosixLeft
    BY <1>2, <1>5 DEF PosixLeft, Here, SwapInit
  <2>4. \A p \in Procs : PosixPlace(p)
    BY <1>6 DEF PosixPlace, Pended, Ready
  <2> QED
    BY <2>1, <2>2, <2>3, <2>4 DEF PosixInv
<1>9. WinInv
  BY <1>2, <1>5, <1>6 DEF WinInv, WinImages, WinPlace, WinLeft, Images, Ready
<1>10. SettledInv
  <2>1. \A f \in {BakOf(Icmg), SwapOf(Icmg), NewOf(Icmg)} : content[f] = Absent
    BY <1>1, <1>5 DEF Apart
  <2> QED
    BY <1>2, <1>5, <1>6, <2>1 DEF SettledInv, Complete, Fine, SettledPlace
<1> QED
  BY <1>4, <1>7, <1>8, <1>9, <1>10 DEF SwapInv

\* A step of nobody: the lock expires, or everything has ended.
LEMMA NobodyKept ==
  ASSUME content' = content, UNCHANGED <<platform, at, img, self, rel, helper, kills, jams, was, flags>>
  PROVE  /\ HelpersOutlive => HelpersOutlive'
         /\ Alone => Alone'
         /\ \A p \in Procs : KeptBy(p) => KeptBy(p)'
         /\ PosixInv => PosixInv'
         /\ WinInv => WinInv'
         /\ SettledInv => SettledInv'
<1>1. HelpersOutlive => HelpersOutlive'
  BY DEF HelpersOutlive, Armed
<1>2. Alone => Alone'
  BY DEF Alone, Active, Swapping, Armed
<1>3. \A p \in Procs : KeptBy(p) => KeptBy(p)'
  BY DEF KeptBy
<1>4. PosixInv => PosixInv'
  <2>1. PosixImages => PosixImages'
    BY DEF PosixImages, Runs
  <2>2. PosixFiles => PosixFiles'
    BY DEF PosixFiles
  <2>3. PosixLeft => PosixLeft'
    BY DEF PosixLeft, Here, Lost, Between, Swapping
  <2>4. \A p \in Procs : PosixPlace(p) => PosixPlace(p)'
    BY DEF PosixPlace, Swapping
  <2> QED
    BY <2>1, <2>2, <2>3, <2>4 DEF PosixInv
<1>5. WinInv => WinInv'
  <2>1. WinImages => WinImages'
    BY DEF WinImages, Runs
  <2>2. WinLeft => WinLeft'
    BY DEF WinLeft
  <2>3. \A p \in Procs : WinPlace(p) => WinPlace(p)'
    BY DEF WinPlace
  <2> QED
    BY <2>1, <2>2, <2>3 DEF WinInv
<1>6. SettledInv => SettledInv'
  <2>1. \A p \in Procs : SettledPlace(p) => SettledPlace(p)'
    BY DEF SettledPlace
  <2>2. Complete => Complete'
    BY DEF Complete
  <2>3. (Fine \/ \E p \in Procs : Exposed(p)) => (Fine \/ \E p \in Procs : Exposed(p))'
    BY DEF Fine, Exposed
  <2> QED
    BY <2>1, <2>2, <2>3 DEF SettledInv
<1> QED
  BY <1>1, <1>2, <1>3, <1>4, <1>5, <1>6

\* Counters of kills and refusals do not fall.
LEMMA CountersGrow ==
  ASSUME SwapTypes, NEW p \in Procs, Step(p)
  PROVE  /\ kills \in Nat /\ jams \in Nat
         /\ kills' \in {kills, kills + 1} /\ jams' \in {jams, jams + 1}
<1>1. kills \in Nat /\ jams \in Nat
  BY ReleaseAssumption DEF SwapTypes
<1>2. kills' \in {kills, kills + 1}
  BY StepKills DEF Kill
<1>3. jams' \in {jams, jams + 1}
  BY DEF Step, Launch, Pending, PendingStep, PendingDone, Gate, Fetch, Stage, TakeOver, Install, Copy,
         Arm, Flag, Clear, Verify, Rollback, Helper, Kill, Rename, Remove
<1> QED
  BY <1>1, <1>2, <1>3

LEMMA SwapNextInv == SwapInv /\ [SwapNext]_swapVars => SwapInv'
<1> SUFFICES ASSUME SwapInv, [SwapNext]_swapVars PROVE SwapInv'
  OBVIOUS
<1>1. ASSUME NEW p \in Procs, Step(p), UNCHANGED platform, mixed' = mixed \cup Overlaps'
      PROVE  SwapInv'
  <2>1. SwapTypes /\ HelpersOutlive /\ SwapTypes' /\ HelpersOutlive'
    BY <1>1, StepTyped, HelpersKept DEF SwapInv
  <2> SUFFICES ASSUME mixed' = {}
      PROVE  /\ Alone' /\ LockHeld'
             /\ \A q \in Procs : KeptBy(q)'
             /\ platform' = "posix" => PosixInv'
             /\ Windows' => WinInv'
             /\ Windows' /\ kills' = 0 /\ jams' <= 1 => SettledInv'
    BY <2>1 DEF SwapInv
  <2>2. mixed = {} /\ Overlaps' = {}
    BY <1>1
  <2>3. /\ Alone /\ LockHeld /\ \A q \in Procs : KeptBy(q)
        /\ platform = "posix" => PosixInv
        /\ Windows => WinInv
        /\ Windows /\ kills = 0 /\ jams <= 1 => SettledInv
    BY <2>2 DEF SwapInv
  <2>4. Alone' /\ LockHeld' /\ \A q \in Procs : KeptBy(q)'
    BY <1>1, <2>1, <2>2, <2>3, AloneKept, StepLocks, StepKept
  <2>5. platform' = "posix" => PosixInv'
    BY <1>1, <2>1, <2>3, PosixKept
  <2>6. Windows' => WinInv'
    <3> SUFFICES ASSUME Windows PROVE WinInv'
      BY <1>1 DEF Windows
    <3> QED
      BY <1>1, <2>1, <2>3, WinActiveKept, WinIdleKept
  <2>7. Windows' /\ kills' = 0 /\ jams' <= 1 => SettledInv'
    <3> SUFFICES ASSUME Windows, kills' = 0, jams' <= 1 PROVE SettledInv'
      BY <1>1 DEF Windows
    <3>1. kills = 0 /\ jams <= 1
      BY <1>1, <2>1, CountersGrow
    <3>2. WinInv /\ SettledInv
      BY <2>3, <3>1
    <3> QED
      BY <1>1, <2>1, <2>3, <2>4, <3>1, <3>2, SettledActiveKept, SettledIdleKept
  <2> QED
    BY <2>4, <2>5, <2>6, <2>7
<1>2. ASSUME LockExpires, UNCHANGED platform, mixed' = mixed \cup Overlaps'
      PROVE  SwapInv'
  <2>1. SwapTypes' /\ SwapTypes
    BY <1>2, ExpiryTyped DEF SwapInv
  <2>2. content' = content /\ UNCHANGED <<at, img, self, rel, helper, kills, jams, was, flags>> /\ lock' = FALSE
    BY <1>2, <2>1, StayIs DEF LockExpires, mine
  <2>3. mixed' = {} => mixed = {}
    BY <1>2
  <2>4. LockHeld'
    BY <2>2 DEF LockHeld
  <2> QED
    BY <1>2, <2>1, <2>2, <2>3, <2>4, NobodyKept DEF SwapInv, Windows
<1>3. ASSUME UNCHANGED swapVars
      PROVE  SwapInv'
  <2>1. /\ content' = content /\ UNCHANGED <<platform, at, img, self, rel, helper, kills, jams, was, flags>>
        /\ lock' = lock /\ mixed' = mixed /\ disk' = disk
    BY <1>3 DEF swapVars, content
  <2>2. SwapTypes'
    BY <2>1 DEF SwapInv, SwapTypes, DiskTyped, FlagsTyped
  <2>3. LockHeld => LockHeld'
    BY <2>1 DEF LockHeld
  <2> QED
    BY <2>1, <2>2, <2>3, NobodyKept DEF SwapInv, Windows
<1> QED
  BY <1>1, <1>2, <1>3 DEF SwapNext, Finished

\* SwapInv holds throughout.
THEOREM SwapInvariance == SwapSpec => []SwapInv
BY SwapInitInv, SwapNextInv, PTL DEF SwapSpec

-----------------------------------------------------------------------------
\* What the invariant says.

LEMMA NamesAre == <<"bak">> = BakOf(Icmg) /\ <<"new">> = NewOf(Icmg) /\ <<"swap">> = SwapOf(Icmg)
BY DEF BakOf, NewOf, SwapOf, Icmg

LEMMA InvTypeOK == SwapInv => SwapTypeOK
BY DEF SwapInv, SwapTypes, DiskTyped, FlagsTyped, SwapTypeOK

\* Only the process that swaps can be between two renames, and it has the other file.
LEMMA PosixBetween ==
  ASSUME SwapTypes, PosixInv, NEW p \in Procs, NEW f \in Paths, Between(p, f)
  PROVE  Usable(BakOf(f)) /\ Swapping(p)
<1>1. content[BakOf(f)] # Absent
  BY DEF Between, PosixInv, PosixPlace
<1>2. BakOf(f) \in Paths /\ ~NewFile(BakOf(f))
  BY PathsApart DEF Apart
<1>3. content[BakOf(f)] # Torn
  BY <1>2 DEF PosixInv, PosixFiles
<1>4. Usable(BakOf(f))
  BY <1>1, <1>2, <1>3, ContentIs DEF Usable
<1> QED
  BY <1>4 DEF Between, Swapping, Ended

LEMMA PosixPresent ==
  ASSUME SwapTypes, PosixInv, NEW f \in Paths, ~NewFile(f), content[f] # Absent
  PROVE  Usable(f)
<1>1. content[f] # Torn
  BY DEF PosixInv, PosixFiles
<1> QED
  BY <1>1, ContentIs DEF Usable

LEMMA InvSurvives == SwapInv => SomeBinarySurvives
<1> SUFFICES ASSUME SwapInv, mixed = {}, Windows \/ kills <= 1
             PROVE  \E f \in {Icmg, BakOf(Icmg), NewOf(Icmg), SwapOf(Icmg)} : Usable(f)
  BY InvTypeOK, NamesAre DEF SomeBinarySurvives
<1>1. /\ SwapTypes /\ Icmg \in Paths /\ BakOf(Icmg) \in Paths /\ NewOf(Icmg) \in Paths /\ SwapOf(Icmg) \in Paths
      /\ ~NewFile(Icmg) /\ ~NewFile(BakOf(Icmg)) /\ ~NewFile(SwapOf(Icmg))
      /\ BakOf(Icmg) # SwapOf(Icmg)
  BY GoneIs, PathsApart, NamesApart DEF SwapInv, Apart
<1>2. CASE Windows
  <2>1. PICK f \in Images \cup {NewOf(Icmg)} : content[f] > Torn
    BY <1>2 DEF SwapInv, WinInv, WinLeft
  <2> QED
    BY <1>1, <2>1, ContentIs DEF Images
<1>3. CASE ~Windows
  <2>1. PosixInv /\ Alone
    BY <1>1, <1>3 DEF SwapInv, SwapTypes, Windows
  <2>2. kills \in {0, 1}
    <3>1. kills \in Nat
      BY <1>1, ReleaseAssumption DEF SwapTypes
    <3> QED
      BY <1>3, <3>1
  <2>3. CASE Here(Icmg)
    BY <1>1, <2>1, <2>3, PosixPresent, PosixBetween DEF Here
  <2>4. CASE content[NewOf(Icmg)] > Torn
    BY <1>1, <2>4, ContentIs
  <2>5. CASE Here(BakOf(Icmg)) /\ Here(SwapOf(Icmg))
    <3>1. CASE content[BakOf(Icmg)] # Absent \/ content[SwapOf(Icmg)] # Absent
      BY <1>1, <2>1, <3>1, PosixPresent
    <3>2. CASE ~(content[BakOf(Icmg)] # Absent \/ content[SwapOf(Icmg)] # Absent)
      <4>1. PICK p \in Procs, q \in Procs : Between(p, BakOf(Icmg)) /\ Between(q, SwapOf(Icmg))
        BY <2>5, <3>2 DEF Here
      <4>2. p # q
        BY <1>1, <4>1 DEF Between
      <4>3. Active(p) /\ Active(q)
        BY <1>1, <2>1, <4>1, PosixBetween DEF Active
      <4> QED
        BY <2>1, <4>2, <4>3 DEF Alone
    <3> QED
      BY <3>1, <3>2
  <2> QED
    BY <2>1, <2>2, <2>3, <2>4, <2>5 DEF PosixInv, PosixLeft
<1> QED
  BY <1>2, <1>3

LEMMA InvSettles == SwapInv => SettledInstall
<1> SUFFICES ASSUME SwapInv, Calm, kills = 0, jams <= 1, mixed = {}
             PROVE  ~lock /\ (Usable(Icmg) \/ (jams = 1 /\ Usable(SwapOf(Icmg))))
  BY NamesAre DEF SettledInstall
<1>1. SwapTypes /\ Icmg \in Paths /\ SwapOf(Icmg) \in Paths /\ ~NewFile(Icmg)
  BY GoneIs, PathsApart, NamesApart DEF SwapInv, Apart
<1>2. \A p \in Procs : at[p] \in Quiet /\ helper[p] = "none"
  BY DEF Calm, Swapping, Armed, Quiet
<1>3. ~lock
  BY <1>2 DEF SwapInv, LockHeld, Locking, Quiet, Ended
<1>4. CASE Windows
  <2>1. \A p \in Procs : ~Exposed(p)
    BY <1>2 DEF Exposed, Quiet, Ended
  <2>2. Fine
    BY <1>4, <2>1 DEF SwapInv, SettledInv
  <2> QED
    BY <1>1, <1>3, <2>2, ContentIs DEF Fine
<1>5. CASE ~Windows
  <2>1. PosixInv
    BY <1>1, <1>5 DEF SwapInv, SwapTypes, Windows
  <2>2. Here(Icmg)
    BY <2>1 DEF PosixInv, PosixLeft
  <2>3. content[Icmg] # Absent
    BY <1>2, <2>2 DEF Here, Between, Quiet, Ended
  <2> QED
    BY <1>1, <1>3, <2>1, <2>3, PosixPresent
<1> QED
  BY <1>4, <1>5

\* A file that holds what was installed exists.
LEMMA WasIs ==
  ASSUME SwapTypes, NEW p \in Procs, NEW f \in Paths, content[f] = was[p]
  PROVE  f \in DOMAIN disk /\ disk[f] = was[p]
<1>1. was[p] \in Versions /\ Versions \subseteq Nat
  BY ReleaseAssumption DEF SwapTypes, Versions, Torn
<1>2. content[f] # Absent
  BY <1>1 DEF Absent
<1> QED
  BY <1>2, ContentIs

\* What is usable when nothing was killed and at most one operation was refused.
LEMMA KeptUsable ==
  ASSUME SwapInv, mixed = {}, kills = 0, jams <= 1, NEW p \in Procs
  PROVE  /\ at[p] \in {"p_flag", "a_clear"} => Usable(BakOf(self[p]))
         /\ at[p] = "r_keep" => Usable(self[p])
<1>1. SwapTypes /\ self[p] \in Paths /\ BakOf(self[p]) \in Paths /\ ~NewFile(BakOf(self[p]))
  BY PathsApart DEF SwapInv, SwapTypes, Apart
<1>2. CASE Windows
  <2>1. self[p] = Icmg /\ SettledPlace(p)
    BY <1>2 DEF SwapInv, WinInv, WinPlace, SettledInv
  <2> QED
    BY <1>1, <2>1, ContentIs DEF SettledPlace
<1>3. CASE ~Windows
  <2>1. PosixInv /\ PosixPlace(p)
    BY <1>1, <1>3 DEF SwapInv, SwapTypes, Windows, PosixInv
  <2>2. ASSUME at[p] \in {"p_flag", "a_clear"} PROVE Usable(BakOf(self[p]))
    <3>1. content[BakOf(self[p])] # Absent
      BY <2>1, <2>2 DEF PosixPlace, Pended
    <3> QED
      BY <1>1, <2>1, <3>1, PosixPresent
  <2>3. ASSUME at[p] = "r_keep" PROVE Usable(self[p])
    <3>1. content[self[p]] # Absent /\ ~NewFile(self[p])
      BY <2>1, <2>3 DEF PosixPlace, Swapping, Ended
    <3> QED
      BY <1>1, <2>1, <3>1, PosixPresent
  <2> QED
    BY <2>2, <2>3
<1> QED
  BY <1>2, <1>3

\* A process that swaps alone moves only by its own step.
LEMMA OwnStep ==
  ASSUME SwapTypes, Alone, NEW p \in Procs, NEW q \in Procs, Swapping(p), Step(q), at'[p] # at[p]
  PROVE  q = p
BY IdleStep DEF Alone, Active

LEMMA InvKeeps ==
  ASSUME SwapInv, SwapInv', SwapNext, mixed' = {}, NEW p \in Procs
  PROVE  /\ (at[p] = "p_flag" /\ at'[p] = "gate") \/ (at[p] = "a_clear" /\ at'[p] = "a_verify") =>
             /\ Ext(p, "bak") \in DOMAIN disk /\ disk[Ext(p, "bak")] = was[p]
             /\ kills = 0 /\ jams <= 1 => Usable(Ext(p, "bak"))
         /\ at[p] = "r_keep" /\ at'[p] = "done" /\ Ext(p, "swap") \notin DOMAIN disk' =>
             /\ Ext(p, "bak") \in DOMAIN disk' /\ disk'[Ext(p, "bak")] = was[p]
             /\ kills = 0 /\ jams <= 1 => Usable(self[p])
         /\ at[p] = "v_drop" /\ at'[p] = "done" =>
             self[p] \in DOMAIN disk' /\ disk'[self[p]] = was[p]
<1>1. mixed = {}
  BY DEF SwapNext, Finished, swapVars
<1>2. SwapTypes /\ SwapTypes' /\ HelpersOutlive /\ Alone /\ KeptBy(p)
  BY <1>1 DEF SwapInv
<1>3. PICK m \in Paths : /\ m = self[p] /\ Apart(m)
                         /\ Ext(p, "bak") = BakOf(m) /\ Ext(p, "new") = NewOf(m) /\ Ext(p, "swap") = SwapOf(m)
  BY <1>2, MineIs
<1>4. m \in Paths /\ BakOf(m) \in Paths /\ SwapOf(m) \in Paths /\ BakOf(m) # m /\ SwapOf(m) # m /\ BakOf(m) # SwapOf(m)
  BY <1>3 DEF Apart
<1>5. ASSUME at[p] \in {"p_flag", "a_clear"}
      PROVE  /\ BakOf(m) \in DOMAIN disk /\ disk[BakOf(m)] = was[p]
             /\ kills = 0 /\ jams <= 1 => Usable(BakOf(m))
  <2>1. content[BakOf(m)] = was[p]
    BY <1>2, <1>3, <1>5 DEF KeptBy
  <2>2. BakOf(m) \in DOMAIN disk /\ disk[BakOf(m)] = was[p]
    BY <1>2, <1>4, <2>1, WasIs
  <2>3. kills = 0 /\ jams <= 1 => Usable(BakOf(m))
    BY <1>1, <1>3, <1>5, KeptUsable
  <2> QED
    BY <2>2, <2>3
<1>6. ASSUME at[p] \in {"r_keep", "v_drop"}, at'[p] = "done"
      PROVE  Step(p)
  <2>1. at'[p] # at[p] /\ Swapping(p)
    BY <1>6 DEF Swapping, Ended
  <2>2. PICK q \in Procs : Step(q)
    BY <2>1 DEF SwapNext, LockExpires, Finished, swapVars
  <2>3. q = p
    BY <1>2, <2>1, <2>2, OwnStep
  <2> QED
    BY <2>2, <2>3
<1>7. ASSUME at[p] = "r_keep", at'[p] = "done", SwapOf(m) \notin DOMAIN disk'
      PROVE  /\ BakOf(m) \in DOMAIN disk' /\ disk'[BakOf(m)] = was[p]
             /\ kills = 0 /\ jams <= 1 => Usable(m)
  <2>1. content[SwapOf(m)] = was[p]
    BY <1>2, <1>3, <1>7 DEF KeptBy
  <2>2. disk' # disk
    BY <1>2, <1>4, <1>7, <2>1, WasIs
  <2>3. Rename(p, SwapOf(m), BakOf(m), "done", "done")
    <3>1. Step(p)
      BY <1>6, <1>7
    <3>2. Rollback(p)
      BY <1>7, <2>2, <3>1 DEF Step, Launch, Pending, PendingStep, PendingDone, Gate, Fetch, Stage, TakeOver,
         Install, Copy, Arm, Flag, Clear, Verify, Helper, Kill, At, files
    <3> QED
      BY <1>3, <1>7, <3>2 DEF Rollback, At
  <2>4. Renamed(SwapOf(m), BakOf(m))
    BY <2>2, <2>3 DEF Rename, files
  <2>5. SwapOf(m) \in DOMAIN disk /\ disk[SwapOf(m)] = was[p]
    BY <1>2, <1>4, <2>1, WasIs
  <2>6. BakOf(m) \in DOMAIN disk' /\ disk'[BakOf(m)] = was[p]
    BY <2>4, <2>5 DEF Renamed, With
  <2>7. kills = 0 /\ jams <= 1 => Usable(m)
    BY <1>1, <1>3, <1>7, KeptUsable
  <2> QED
    BY <2>6, <2>7
<1>8. ASSUME at[p] = "v_drop", at'[p] = "done"
      PROVE  m \in DOMAIN disk' /\ disk'[m] = was[p]
  <2>1. content[m] = was[p]
    BY <1>2, <1>3, <1>8 DEF KeptBy
  <2>2. m \in DOMAIN disk /\ disk[m] = was[p]
    BY <1>2, <1>4, <2>1, WasIs
  <2>3. Step(p)
    BY <1>6, <1>8
  <2>4. Verify(p) \/ Kill(p)
    BY <1>2, <1>8, <2>3 DEF Step, Launch, Pending, PendingStep, PendingDone, Gate, Fetch, Stage, TakeOver,
       Install, Copy, Arm, Flag, Clear, Rollback, Helper, At
  <2>5. Delete(SwapOf(m)) \/ disk' = disk
    BY <1>3, <1>8, <2>4 DEF Verify, Remove, Kill, At, files
  <2> QED
    BY <1>4, <2>2, <2>5 DEF Delete, Without, files
<1> QED
  BY <1>3, <1>5, <1>7, <1>8

\* The update never leaves the user without a complete binary in one of the four
\* places he is told of: the installed file, its .bak, .new or .swap.  On Windows
\* whatever is killed or refused, on POSIX after at most one kill, for every
\* number of commands, releases, kills and refusals, while swaps do not overlap.
THEOREM BinarySurvives == SwapSpec => []SomeBinarySurvives
BY SwapInvariance, InvSurvives, PTL

\* Between swaps, with nothing killed and at most one operation refused, icmg can
\* be started and the updating lock is gone: apply_update, --rollback, the
\* dispatcher's swap and the helper each undo what they could not finish.
THEOREM InstallSettles == SwapSpec => []SettledInstall
BY SwapInvariance, InvSettles, PTL

\* What a swap replaced is in .bak when it has ended, exactly as it was installed,
\* and the automatic rollback brings it back: the promise of `update --rollback`.
THEOREM OldIsKept == SwapSpec => OldBinaryKept
<1>1. SwapInv /\ SwapInv' /\ [SwapNext]_swapVars =>
        [\A p \in Procs : mixed' = {} =>
        /\ (at[p] = "p_flag" /\ at'[p] = "gate") \/ (at[p] = "a_clear" /\ at'[p] = "a_verify") =>
             /\ Ext(p, "bak") \in DOMAIN disk /\ disk[Ext(p, "bak")] = was[p]
             /\ kills = 0 /\ jams <= 1 => Usable(Ext(p, "bak"))
        /\ at[p] = "r_keep" /\ at'[p] = "done" /\ Ext(p, "swap") \notin DOMAIN disk' =>
             /\ Ext(p, "bak") \in DOMAIN disk' /\ disk'[Ext(p, "bak")] = was[p]
             /\ kills = 0 /\ jams <= 1 => Usable(self[p])
        /\ at[p] = "v_drop" /\ at'[p] = "done" =>
             self[p] \in DOMAIN disk' /\ disk'[self[p]] = was[p]]_swapVars
  BY InvKeeps
<1> QED
  BY <1>1, SwapInvariance, PTL DEF SwapSpec, OldBinaryKept

=============================================================================
