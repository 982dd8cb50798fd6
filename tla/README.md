# icemage in TLA+

Specifications of the concurrent core of icemage (`icmg`), TLC instances that
check them, and TLAPS proofs of what matters most in eight of them. Every
definition is written from the source under `src/src/`; `PROJECT.json` says, for
each definition, which lines it stands for, and for each property which change
of the code would break it.

## 1. The system

icemage is one binary, run as a short-lived command by people and by the hooks
of coding assistants, often several times a second and from several sessions at
once, plus a few long-lived processes. What makes it more than a set of commands
is what these processes share: SQLite files, sockets or pipes, lock files, a
recall cache in each process and one in the daemon, and inside the service the
process's own current directory.

### 1.1 Components, their state and operations

| Component | State | Operations | Interacts through |
|---|---|---|---|
| write queue (`core/write_queue`) | a deque, `stop_`, a worker thread | enqueue, flush, destructor | the mutex, released around each job; used by the daemon's write-through |
| rule daemon (`daemon/rule_daemon`) | rules and strict mode, singleton lock, socket or pipe, worker threads | start, CHECK, RELOAD, SHUTDOWN, SET_STRICT, hook calls, RCACHE_*; exit, kill | one connection per request; a marker in the reply decides what the server does next |
| its client (`daemon/rule_daemon_client`, hook commands) | none | ping, spawn and poll, call, retry, inline fallback | the socket or pipe |
| recall cache (`core/recall_cache`, `imem/memory_store`) | an epoch and a cache per process, the shared cache in the daemon | recall; store, update, remove, restore, invalidate | the database; RCACHE_GET/PUT/FLUSH |
| shared cache (`rule_daemon` RCACHE handlers, `recall_cache_persist_db`) | RAM entries, hydrated scopes, table rows, a write queue | get, put, flush, hydrate, write through | daemon workers; the write queue |
| service (`core/service_loop`) | `g_stop`, the current directory | a tick every 30 s: hourly tasks, due cron rows | hosts the exec server and a rule daemon as threads |
| exec server (`core/exec_server`) | worker count, a mutex, the current directory, the standard streams | accept, run a command line in the client's directory | its socket; the process's current directory |
| cron store (`core/cron_store`), maintenance thread | rows with `last_run` | dueJobs, markRan, removeProject | read by two threads of the service |
| schema (`core/db`, `core/migrator`) | `user_version`, the tables | repair on open, migrate | SQLite's write lock |
| file lock (`core/file_lock`) | a file with a pid | constructor with a deadline, destructor | the file system, `icmg sync push` |
| memory writes (`imem/memory_store`) | rows of `memory_nodes` | store with its duplicate check, update, remove, restore, purge, invalidate | the database, a statement at a time; puts nodes into the atom queue |
| atom queue (`imem/atom_store`) | rows waiting to be split, the atoms and their index | enqueue from store; drain | the database, with no transaction around a drain |
| memory curation (`memory consolidate`) | none | find near duplicates, forget the losers | the database |
| icmg-server (`server/icmg_server`) | four workers, the global streams | dispatch | its pipe |
| wire logs (`msg`, `bus`) | an append-only TSV file, a cursor per session | send with its compaction, check, inbox | the file system, without a lock |
| scope locks (`lock`) | an append-only TSV file | claim, release, list; a claim expires | the file system, without a lock |
| code graph (`graph/`, the edit and Stop hooks, `graph-watch`) | file nodes with a hash, symbol nodes, call edges; a list of files to scan; a debouncer's pending set | write down an edited file, scan what is listed, rescan the tree | hooks of parallel sessions, the watcher, the database |
| self-update (`update`, the dispatcher, a detached script) | icmg, `.bak`, `.new`, `.swap`, a flag, a lock file | apply, rollback, the pending swap of every command, the helper | the file system; the images of running processes |
| warm model pool (`llm/`) | a loaded model, a socket | infer, idle unload | its pipe |
| session guards | small state files | hook calls | the file system |
| tkil, compress, viz, sp, import, export, mcp, wasm, rules | tables, text | scans, filters, conversions | the database, standard streams |

### 1.2 What is hard about it

* **Interleavings.** The write queue releases its mutex around every job; two
  threads of the service drain one cron table; commands, chores and the
  directory they run in; POSIX daemon workers over one cache; memory commands
  whose statements mingle; two scans of one file, one in a transaction, one not.
* **Processes that race.** Any number of clients find no daemon and start one;
  any number of processes open, repair and migrate one database file; updates,
  rollbacks and pending swaps rename the same four files.
* **Order.** The caches are emptied before the write they are emptied for; the
  daemon reacts to a reply after it has sent it; RAM first, table later; a
  cursor in whole seconds over a log that others append to and shorten.
* **Loss.** A Windows pipe is disconnected without a flush; daemons and
  commands are killed between two statements or two renames; a lock file
  outlives its owner; a rename is refused; a list is removed after it was read.
* **Things that must end.** A client reads with no timeout, a destructor joins,
  a lock attempt has a deadline, a migration waits for the write lock.

`PROJECT.json` lists these as hazards, each at the line where it bites, with the
properties that would notice, or a note why none does.

### 1.3 What makes each component correct

* write queue: each job runs exactly once; nothing is left at the destructor's
  end; what flush() found is off the queue when it returns; a job eventually runs
  though nobody flushes.
* rule daemon: at most one server, which clients reach by the well-known name; a
  hook event is run by somebody; a returned reload is seen; calls return.
* recall: a result is never older than the ttl allows; a process sees its own
  writes; a database's recall comes from that database.
* shared cache: no replaced or flushed value comes back; RAM and table agree at
  rest; the first touch loads all.
* service: a command runs in its client's directory, a chore in its project, a
  due row fires once and is not forgotten, every accepted request is served.
* schema: `user_version` never claims more than is there; ensureProjectDb
  returns only on a complete schema; every open ends.
* file lock: nothing is left behind, a dead owner's file does not block.
* memory: what was queued is split completely; one fact is kept once; tidying up
  loses no fact; a fact is superseded once and purged only when forgotten.
* wire: a message is shown or still to come, the newest are kept, a scope has one
  holder and the list names it.
* code graph: what is stored for a file belongs to the text whose hash is stored
  (a file whose hash matches is never looked at again); an edge is a call; an edit
  gets into the graph.
* self-update: a complete binary is left (on POSIX after one kill, on Windows
  whatever happens); afterwards icmg can be started, and `--rollback` finds what was
  replaced.

## 2. The modules

| Module | Models | Instance | Theorems |
|---|---|---|---|
| `JobLedger` | what a job queue promises, without threads | – | – |
| `WriteQueue` | `core/write_queue` | `WriteQueueMC` | `WriteQueueProofs` |
| `RuleDaemon` | daemon processes and their clients, both platforms | `RuleDaemonMC` | `RuleDaemonProofs` |
| `RecallCoherence` | the per-process recall caches, the epochs, the writes | `RecallCoherenceMC` | `RecallProofs` |
| `SharedCache` | the daemon's RCACHE handlers and their table | `SharedCacheMC` | `RecallProofs` |
| `ServiceHost` | tickOnce, runMaintenance and the exec server in one process | `ServiceHostMC` | `ProgramProofs` |
| `SchemaOpen` | Db::Db's repair and the migrator | `SchemaOpenMC` | `SharedFileProofs` |
| `FileLock` | `core/file_lock` | `FileLockMC` | `SharedFileProofs` |
| `FactHistory` | what the memory promises of a fact, without processes | – | – |
| `FactStore` | memory writes, atom queue, consolidation | `FactStoreMC` | `FactStoreProofs` |
| `WireLog` | `msg` and `lock` over their files | `WireLogMC` | `WireLogProofs` |
| `CodeGraph` | the scans of the code graph and what starts them | `CodeGraphMC` | `CodeGraphProofs` |
| `ReleaseSwap` | `update`, rollback, pending swap and helper | `ReleaseSwapMC` | `ProgramProofs` |

How state and actions correspond to the code:

**WriteQueue.** A job is its enqueue number. Each action is what a thread does
between taking and releasing the mutex (`Enqueue`, `Flush`, `WorkerWake`,
`Relock`, `DestroyBegin`, `DestroyJoined`), except `RunJob`, the job itself, run
unlocked. `PopFront` and `Leave` are the two ways through `drainLocked`'s loop
test. A job that throws is swallowed and leaves what one that returns leaves. The
timed wait may wake at any time its predicate holds, so `depth_threshold_` and
`interval_ms_` decide nothing but speed. Enqueues may come during teardown;
flushes may not begin then, since their thread would be in a dying object.

**RuleDaemon.** `phase` is where `run()` is; `lock` the flock or named mutex;
`path` whom the socket path or pipe name denotes; `work` the connections, each
with the stage it has reached. `platform` is chosen in `Init`; `Posix` selects
`serveSocket` (a worker thread per connection; the client reads to end-of-file)
or `servePipe` (one connection at a time; the client returns with the message;
`DisconnectNamedPipe` discards what was not read). What the reply text contains decides on reload and shutdown, as in
the code, so a checked file may be named after a marker. `Plan` says which
operations each client may do. A payload "large" is a hook event cut off by the
receive buffer. A client that finds no daemon spawns one, polls and falls back to
its inline runner.

**RecallCoherence.** A memory is reduced to the number of its last change, so a
result says which change it was computed from. A recall is three steps (look,
read the corpus, publish), a write two (flush, commit), as the threads and
processes can interleave them. `Accept` is callHook's test of the reply's action:
it takes none of the replies RCACHE_GET gives.

**SharedCache.** A value is the number of the PUT that brought it. Hydration is
mark, SELECT, put row by row; the write-through is a queue with one job out at a
time, which is what `WriteQueue` shows a queue without flushes to be.

**ServiceHost.** `tick` and `maint` are the two drains of `cron_jobs`: where each
is, the time it read, the rows it read as due. Reading claims nothing; marking
comes after the chore. Workers of the exec server take `g_chdir_mu` around
chdir, command and chdir back; the main loop changes the same directory and does
not. Whether the embedded daemon got the singleton lock, and whether the exec
server could bind, is open in `Init`. The hourly tasks are left out.

**SchemaOpen.** The repair of `Db::Db` (a version read once, one transaction for
the script, another for the version, errors swallowed) and the migrator (BEGIN
IMMEDIATE, recheck, script and version together, errors thrown). SQLite is
external: one writer at a time, commit makes visible, a killed writer is rolled
back. Binaries may differ in their newest migration.

**FileLock.** Look, create, write, read, remove as separate steps; a file can be
removed while somebody has it open, who then writes to a file without a name.

**FactStore.** A node is a row: the fact it states, whether it is kept, forgotten
or purged, and its successor. Two contents are similar when they state the same
fact; that is all the duplicate check and the consolidation ask. Each SQL
statement is an action, and no command puts a transaction around more than one:
`Check` / `InsertNode` / `Enqueue` are store(), `Invalidate` / `Supersede` the
read and the guarded UPDATE of invalidate(), `Consolidate` / `Merge` the pairs
found and the removals one by one, `ReadQueue` .. `Drained` a drain. `Kill` stops
a command between two of them. `FactHistory` is the memory without processes.

**WireLog.** A line carries the second its command began, as in the files. `send`
appends, reads back and, above `MaxLog` lines, truncates and rewrites; `check`
reads the marker, then the log, then writes the marker; `claim` reads, decides and
appends; `Kill` ends any of them between two accesses. The two files share
nothing, so a behaviour uses one (`topic`). `bus` does the same on a third file.

**CodeGraph.** A file's text is a function from the symbols it defines to the
names each of them calls; its hash stands for it. A scan hashes, compares, reads,
and rewrites the node, the symbols and the call edges; the call targets are
looked up by name. `feed` says who starts scans: with "hooks" the edit hook lists
a file and a Stop hook takes the list, with "watch" the debouncer's batch starts
a scan of the tree in one deferred transaction, while `graph update` commands,
which commit every statement, run beside it. SQLite in WAL mode is in `Commit`,
`view` and `fresh`: a write fails for good when somebody committed since the
transaction's snapshot was taken.

**ReleaseSwap.** A path is the sequence of extensions behind the installed
executable. `disk` says which release is in which file, `img` which file each
running image is: on POSIX it follows a rename and may be deleted, on Windows it
can be renamed only. Every remove, rename, copy and flag is a step; a rename may
be refused (`MaxJams`). `Pending` .. `PendingDone` is the swap every command makes
at its start, `Helper` the script that outlives the update.

## 3. What the runs show

All bounds are in the `.cfg` files. A history variable is named as such where it
is declared.

| Run | Instance | Properties | States |
|---|---|---|---|
| `write_queue` | 2 clients, both flush; 4 jobs | `ExactlyOnce`; `JobsRunInFifoOrder`; `FlushTakesWhatItFound`; `LedgerSpec`; `EveryJobRuns`; `TeardownEnds` | 34 k |
| `daemon` | both platforms; 2 daemons, 2 clients, 1 edit of the rules | `SingleServer`; `ServerKeepsItsName`; `HookHandled`; `ReloadVisible`; `CallsReturn`; `PipeShutdownStops` | 950 k |
| `recall` | 2 processes, 1 database, 2 writes, 5 clock values, ttl 1 | `StaleAtMostTtl`; `OwnWritesSeen` | 432 k |
| `shared_cache` | 2 keys, 1 worker, 3 puts | `WriteThroughCatchesUp`; `AnswersCurrent`; `FirstTouchWarms` | 57 k |
| `host` | 3 jobs, 2 connections; clients only, cron only, both | `DirectoryKept`; `EachDueOnce`; `DueIsServed`; `RequestsServed` | 461 k |
| `schema` | 3 processes, 2 binaries, 4 migrations (2 additive), 2 kills | `VersionNotAhead`; `EnsuredIsComplete`; `OpensEnd` | 17 k |
| `file_lock` | 3 processes, a leftover file or none, 1 kill | `NothingLeft`; `StaleCleared` | 3.6 k |
| `memory` | 3 commands, 2 facts, 2 pieces, 3 nodes, 1 kill | `QueuedUntilAtomized`; `DuplicatesExplained`; `ConsolidationKeepsOne`; `HistorySpec` | 664 k |
| `wire` | 2 sessions, 2 processes, 2 scopes, ttl 1, 3 seconds, 3 messages, 4 leases; above 1 line 1 is kept; any command killed | `NothingPassedOver`; `RecentKept`; `HoldersListed` | 3.9 M |
| `graph` | 2 files, 2 scanners and the watcher, 2 writes, 1 update command, 1 kill | `SymbolsOfTheHashedText`; `EdgesAreCalls`; `EditReachesGraph`; `WatcherCatchesUp` | 268 k |
| `update` | both platforms; 3 invocations, 1 new release, 1 kill, 1 refused rename | `SomeBinarySurvives`; `SettledInstall`; `OldBinaryKept` | 980 k |

Two releases instead of one make `update` 6.6 M states and show nothing else: the
theorems of section 4 cover any number.

The type invariant of a module is the first conjunct of one of its properties
(`ExactlyOnce`, `NothingLeft`, `DirectoryKept`, `QueuedUntilAtomized`, ...).
`LedgerSpec` and `HistorySpec` are refinements: the queue implements `JobLedger`,
the memory implements `FactHistory`.

One run looks for a disagreement between the code and what it says of itself,
and finds it:

| Run | What the repository says | What the code does |
|---|---|---|
| `update_helper` | `update_cmd.cpp:667`: "automatic apply on the next invocation OR after current process terminates (whichever first)" | flag and helper are both armed and neither looks at the other: when the next command has applied the flag, the helper moves the new executable to `.bak` and has nothing to put in its place |

**Why the bounds are enough.** Each is the smallest at which all the parties a
property speaks of are there, plus one more event. Four jobs let each of three
drainers hold one while another waits. Two daemons and two clients give every
race for the lock, a kill with a successor, a client served by one daemon and
then by another. Two writes and five clock values let an entry be filled,
overtaken, served at its last allowed moment and expire. Three puts on two keys
give an old value in the queue behind a newer one in RAM. Three migrations behind
a first one, two binaries and two kills let a version be set back and repaired.
Three commands are two racing ones and one that cleans up behind them, or two
drains and a kill; two pieces make an atom the last one or not. Three messages with
a log of one make it compact while another is sent, twice; three seconds and a ttl of one
let a claim expire and be taken. Two files that call each other, each with a
second text, let an edge lose its source, its target and its reason. Three
invocations are an update, the command that finds its flag, and one more; one jam
sends a swap down each of its ways back. Every action of every module is taken in some run.

**Conditions in the properties.** Some properties hold only while something has
not happened, and say so; what they name is what the code does not defend
against. `JobsRunInFifoOrder`: until a flush finds work. `DirectoryKept`: a
command's directory while no chore has run, a chore's while no command has.
`EachDueOnce`: with one of the two drains off and a store that has not failed.
`OwnWritesSeen`: writes that flush, one thread per process. `StaleCleared`: no
kill. `AnswersCurrent` and `FirstTouchWarms`: one worker, the Windows pipe; with
two POSIX workers they fail. `DuplicatesExplained`, `ConsolidationKeepsOne`: a
race of two stores, two consolidations, an update or a restore explain the rest;
what happened to a node is recorded in its `was`. `NothingPassedOver`,
`RecentKept`, `HoldersListed`: `mishaps` and `late` record the races of the wire.
`SymbolsOfTheHashedText`, `EdgesAreCalls`: not for a file in `torn` (two scans at
once, a kill, a write between hash and read), no edge promised for one in
`unbound` (its scan failed before its edges). `EditReachesGraph`,
`WatcherCatchesUp`: not for a file in `lost`, nor while the watcher's transaction
was left open. The properties of `ReleaseSwap`: swaps that do not overlap
(`mixed`). `SomeBinarySurvives` allows any kills and refusals on Windows, one kill
on POSIX: a rollback killed between its renames and an update by a process whose
image has become `.bak`, killed as well, leave nothing complete. `SettledInstall`
and the completeness in `OldBinaryKept`: no kill and at most one refused
operation. An automatic rollback whose second rename is the one refused leaves the
new binary in `.swap` and nothing under `icmg` (`update_cmd.cpp:866`), which
`SettledInstall` therefore names.

**Divergences met while modelling, for which no run is kept.**

* Queue and daemon: flush() may return while another thread still runs a job it
  found ("waits until the queue is empty"); on POSIX the accept that fails after
  SHUTDOWN is `continue`d, so run() spins and never "returns on SHUTDOWN command"
  (`rule_daemon.cpp:560`, `rule_daemon.hpp:64`); a check of a file named
  `SHUTDOWN.md` can end the daemon; a reload turns strict mode off.
* Recall: update() does not flush the cache; RCACHE_GET's answer is never
  accepted, so the shared tier never answers; the static cache's key names no
  database, so recalling from several projects (`recall_cmd.cpp:481`) answers all
  of them with the first one's nodes (`memory_store.cpp:33`).
* Service: a cron row fires twice when the service hosts the daemon; a burst of
  connections passes `kMaxWorkers`; tickOnce's chdir is not "safe", as its comment
  says, beside exec workers that change the same directory
  (`service_loop.cpp:198`, `:202`).
* Schema: Db::Db repairs from a version read earlier and stamps it apart, so two
  processes can run one ADD COLUMN twice and ensureProjectDb throws, though the
  migrator is called "idempotent under concurrency" (`db.cpp:99`,
  `migrator.cpp:86`); after a kill between a repair's commit and its stamp every
  later migration throws.
* File lock: two processes can hold it at once; an empty lock file is never stale.
* Memory: two store() at once keep one fact twice; two consolidations at once can
  each forget what the other keeps; invalidate() reports success though its
  guarded UPDATE changed nothing; a drain killed before it dequeues has its atoms
  inserted again; a node forgotten while it is queued is dequeued, and not queued
  again when it is restored.
* Wire: a message of the second a check has already read is never shown; one
  appended while the log is rewritten is lost, and all of it when the rewriting
  command is killed; two claims at once are both granted; anybody's release ends anybody's claim.
* Code graph: the Stop hook's scan is said to be detached, but the second and
  third arguments of safeExecShell are merge_stderr and the timeout, so the hook
  waits (`runners.cpp:80`); the list of files to scan is one per user, so the Stop
  hook of another project scans them into its own database, and an entry added
  between the read and the removal is lost (`runners.cpp:58`); after a refused
  write the watcher's transaction stays open ("rollback on exception so partial
  state never sticks", `scanner.cpp:507`); the transaction guard of the store
  commits in its destructor where its comment says it rolls back
  (`graph_store.cpp:27`); a failed edge insertion drops the rest of a list; edges
  from unchanged callers go with the symbol they point to and come back only when
  the caller's text changes (`graph_store.cpp:371`); a slow scan stores an older
  text over a newer one; nothing parses the `--daemon-watch` the Windows watcher
  is started with.

### 3.1 Fairness

Weak fairness stands for "a thread that can run is scheduled", and is asked only
of steps the code takes by itself.

* `WriteQueue`: jobs return, threads that want the mutex get it, the timed wait
  (`wait_for` with an interval) wakes when its predicate holds, the join returns
  once the worker exited. Nobody has to enqueue, flush or destroy.
* `RuleDaemon`: a started process goes on to its serve loop or exit, a connection
  is served, a client goes on; nobody has to start, kill or edit. The client's
  steps are one unit: which of connect and failure happens is open.
* `ServiceHost`: main loop, maintenance thread and each worker go on; chores and
  commands end; clients read their output. No fairness is asked of the mutex: a
  worker's lock is weakly fair, and that is enough because a holder releases it
  and each connection needs it once.
* `SchemaOpen`: a process at work goes on. Waiting for SQLite's lock is
  `busy_timeout`; that it suffices is assumed.
* `CodeGraph`: a hook that runs ends, turns go on ending (so a list is taken), the
  watcher and the scans are scheduled. Nobody has to write a file or start an
  update, and a scan may be killed.
* `RecallCoherence`, `SharedCache`, `FileLock`, `FactStore`, `WireLog` and
  `ReleaseSwap` have none: their properties are about what is never done.

## 4. What is proved

With TLAPS, for every number of threads, clients, processes, jobs, nodes and kills.

**WriteQueue** (`WriteQueueProofs`): `TypeCorrect`, `JobsExactlyOnce`,
`DestructorDrains`, `ImplementsLedger`. `ExactlyOnce` alone is not inductive: that
a popped job is not also queued needs that the queue itself holds no job twice,
that jobs in hand belong to threads at "running" and to nobody else, and that the
queue, the hands and the history partition 1..enqueued. `DtorDrains` further
needs that once the owner is past the join, no thread is in a drain: clients are
idle and the worker has exited. The invariant says so thread by thread; each
action has its step. The refinement maps RunJob to the ledger's Run, the owner's
last drain step to Close, and the rest to stutters or Submit.
`FlushEmptiesItsShare`: jobs leave the deque oldest first and a drain ends only on
an empty one, so what an idle client owed is among those popped (`OwedPopped`).
`FifoWithoutFlush`: until a flush finds work, no client drains, and what has run
is older than the job in hand (`InOrder`). Used:
`ThreadsAssumption` (worker and owner are not clients) and `MaxJobs \in Nat`.

**RuleDaemon** (`RuleDaemonProofs`): `OneServer` and `ServerReachable`, on either
platform. A process from "locked" to "stopping" is the lock's holder
(`LockHeld`); only such a process touches `path`. On Windows a daemon leaves its
loop while it handles a connection, and that it leaves from "serving", with no
other connection open, needs that the pipe has one connection at a time
(`Serial`). `HooksAreHandled` and `ReloadsAreVisible`, from `CInv` and `RInv`: a
request is in one place at a time (its client's hand, a connection's queue, a
daemon's step), and each place says whether the event has been run already or its
client will still hear of the failure and run it inline (`Awaited`, `Staged`,
`Unspent`, `Own`). For reloads, each place says that the daemon's table is at least
as new as what the client was told, or will be before it answers (`Reached`,
`Pending`, `Fresh`). `ReloadsAreVisible` has `~DbCanFail` as a premise: a daemon
whose read of the rules fails keeps its old table and answers all the same. From
`RuleDaemonAssumption` and `NoReplyAssumption`.

**ServiceHost** (`ProgramProofs`): both safety properties, `DirectoryKept` with
the types and the count of workers. A worker between its chdir and its undoing
holds `g_chdir_mu` (`MutexHeld`), and saved the home directory if no chore ever
started (`CommandsApart`); the main loop has the home directory saved from its
choice to its restore if no command ever ran (`ChoresApart`). Each argument needs
the other side to be silent, which the histories `fired` and `saved` record
(`Recorded`). `DueOnce`: with one runner, the rows it read are as it read them and
older than its `now`, so the mark it sets retires what it started (`OneThread`).

**SchemaOpen** (`SharedFileProofs`): `VersionTheorem` (user_version never claims a
migration that is not committed) and `CompleteTheorem` (ensureProjectDb returns
only on a complete schema), for any migrations, binaries and kills. The
strengthening says, place by place, what a process knows: from "repair" and
"begin" on, everything before `next` is applied, though `ver` may since have been
set back; at "stamp", `next` itself is. `TypeCorrect` adds that the write lock has
the owner its holder's place says.

**FileLock** (`SharedFileProofs`): `NothingIsLeft` and `StaleIsCleared`. As long as
nobody is killed, a file that names a process names one that holds the lock and
will look at the file again, and an empty one is open in a process about to write
to it. A process that is alone finds no file or the dead one's.

**SharedCache** (`RecallProofs`): `CatchesUp`, for any number of workers: the
newest word on a key is its last queued job, or else the job in hand, or else its
row, and it says what RAM says. `AnswersAreCurrent` and `TouchWarms` have one
worker as a premise: until it has hydrated the scope nothing has been put, and
rows and promises agree; afterwards RAM holds what was promised.

**FactStore** (`FactStoreProofs`): all four properties of the run `memory`, from
`FactStoreAssumption`. Most steps only change nodes in place: `Kin` says what such
a step may do to a row (marks are only added, a changed fact or a forgotten row is
marked, a successor is never replaced), and is proved once for each statement. `DuplicatesAreExplained` carries what a command knows: from
its check on, each row it `seen` was no duplicate unless marked since.
`ConsolidationSpares` carries, for a consolidation under way, a keeper of each fact
in its batch that is not itself in the batch. `QueuedIsAtomized` accounts for
every row a drain has in hand: which of its pieces are indexed, which are left,
that none is both; a node leaves the queue by a step of a drain
that has accounted for all pieces, or was forgotten. `ImplementsHistory` maps
InsertNode, Supersede, Restore, Remove / Merge and Purge to the history's steps and
everything else to stutters.

**WireLog** (`WireLogProofs`): all three properties of the run `wire`, for any
sessions, commands, scopes, ttl and log sizes, from `WireAssumption`. The log's
properties are inductive only together: until an append races a compaction, all
compactions under way carry the same last `Keep` lines and the log is empty or ends
in them, so a check reads everything a later rewrite can bring back, or nothing,
and its cursor then does not move (`Seen`, `KeptAt`); and the log is only empty
while somebody is about to rewrite it, unless that command is killed (`Long`).
`ScopeHasOneHolder` needs that a claim already granted but not yet written has no
rival: what it read of the log may have aged, but age only ends claims.

**RecallCoherence** (`RecallProofs`): `StaleBounded` and `SeesOwnWrites`,
for any processes, threads, databases, ttl and writes. A result is `Good` at a
time if it was then the newest, or had been for at most a given while: a commit
keeps that, since what it makes old was new until now. A result is good at the
start of its recall, so its entry is good, by one recall, at its creation, and
what is served good by one ttl more. That a change always has a number needs that
each write under way is one of those begun (`Begun`). `SeesOwnWrites` has one
thread per process as a premise, `OneThreadEach`: from the flush to the commit
nobody else fills that process's cache.

**CodeGraph** (`CodeGraphProofs`): `SymbolsAreOfTheHash` and `EdgesAreOfTheText`,
for any files, texts, scanners, kills and fan-out, from `CodeGraphAssumption` (a
text defines and calls finitely many names). A file is steady when its rows are not
torn, not about to be cleared and not rewritten in the watcher's open transaction.
Of a steady file, the stored symbols, the calls scans still carry for them and the
stored edges are all of the text whose hash is stored (`Truthful`); who rewrites a
file that is not torn does it alone, and has stored what it has not still to store
(`Rewrites`); a scan about to link has every call of the stored symbols, or its
symbols are gone (`Resolves`). Two facts make this inductive. The id of a symbol
that a scan still carries is given to no other symbol (`FreshIds`, AUTOINCREMENT),
so late calls of a scan whose symbols were replaced can link nothing. And the
watcher's view differs from the database only in files it has stored, whose symbols
are new and whose calls are all still pending (`TxnOk`, `Stored`), so one commit
brings nothing that was overtaken.

**ReleaseSwap** (`ProgramProofs`): `BinarySurvives`, `InstallSettles` and
`OldIsKept`, for any number of commands, releases, kills and refusals, from
`SwapInvariance`. While no swaps overlap, one process at a time swaps or has a
helper (`Alone`), so a file operation is either its own or none. `KeptBy` follows
what was installed from name to name. On POSIX nothing is refused and no flag is
ever set (`PosixFiles`), images follow their files (`PosixImages`), and only `.new`
can be torn; the installed file is missing only between two renames of a process
that says so by its place (`Here`), and after a kill there the staged file, or both
`.bak` and `.swap`, are still there (`PosixLeft`). On Windows a running image is
complete and is `icmg`, `.bak` or `.swap` (`WinImages`): no operation deletes or
replaces it, and when nobody runs the helper has the staged file (`WinPlace`).
`InstallSettles` needs more there, `SettledInv`: place by place which of the four
files is complete, and that one refusal has been spent wherever the way back is
taken. A lock nobody was killed with belongs to a process that will remove it
(`LockHeld`). From `ReleaseAssumption`.

**Model-checked only.** Liveness (`EveryJobRuns`, `TeardownEnds`, `CallsReturn`, `PipeShutdownStops`,
`DueIsServed`, `RequestsServed`, `OpensEnd`, `EditReachesGraph`,
`WatcherCatchesUp`) depends on fairness and ENABLED, which the prover does not
handle. No module uses a RECURSIVE operator, and no theorem needs induction over
data.

## 5. What is not modelled, and why

`PROJECT.json` lists every component with its status. Left out for good: ranking
and embedding (floating-point numerics), text filters and compression, parsing
and extraction, viewers and converters, installers, calls into llama.cpp and
wasm. Left out inside modelled components: the daemon's rule thresholds (a check
may or may not fire), RCACHE_STATS and the governor, eviction (turns hits into
misses), framing and stream redirection of the exec server, the hourly tasks and
the Windows popup killer, statement caching and encryption of the database; the
memory's touch, pin, embeddings and hook bus; presence beside the wire; in the
code graph imports and uses edges, designer groups, pruning, the copy in RAM, and
the fact the edit hook drafts; in the update download, checksums, the bundled
libraries and the refresh of the hooks. Races on memory without a lock (the
daemon's `RecallCache`) are taken as atomic steps, the mildest outcome; what the
properties show there is thus a lower bound.

## 6. Plan

Order: what carries the system's shared state first. Done: write queue, rule
daemon, recall coherence, shared cache, service host, schema, file lock, memory
with its atom queue, wire logs and scope locks, self-update, code graph.

Next modules, with the property each is for:

1. `RecallCache` (`core/recall_cache`, `rate_limiter`): LRU list, ttl, pinned
   entries and governor against a reference definition; `SharedCache` then
   implements a cache with eviction, by refinement.
2. `StreamCapture` (`icmg-server`, exec server): nested redirections of a global
   stream; whose output reaches whom.
3. `WarmPool`, `SessionGuards`: requests against idle unload; state files that
   hooks rewrite.

Theorems: every safety property and every action property of the passing runs is
stated by one. Worth proving next: that `RecallCache` implements a cache, with the
module; that the graph is, whenever no scan is under way, what one scan of the
files' stored texts would give.
