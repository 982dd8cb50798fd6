----------------------------- MODULE CodeGraph -----------------------------
(* The project code graph.  A scan compares the hash of each file with the
   one it stored, and rewrites the file's node, its symbols and their call
   edges when they differ.  Two feeds start scans.  "hooks": the edit hook
   puts the path of an edited file on a list, and the Stop hook that ends a
   turn takes the list and runs `icmg graph scan --file ...`, which stores
   each file statement by statement.  "watch": the watcher of `icmg
   graph-watch` rescans the tree in one transaction when a file changed,
   while `icmg graph update <file>` commands run beside it.

   A file's text is the function from the symbols it defines to the names
   each of them calls; its hash stands for the text (no collisions).        *)
EXTENDS FiniteSets, Integers

CONSTANTS
    Files,
    Texts,        \* Texts[f]: what a file may come to contain
    FirstText,    \* FirstText[f]: what it contains at first
    Scanners,     \* processes that scan listed files
    Watcher,      \* the watcher process
    MaxFanout,    \* definitions a called name may have and still be linked
    MaxWrites,    \* bound: writes of files
    MaxUpdates,   \* bound: `icmg graph update` commands
    MaxKills      \* bound: scans that are killed

ASSUME CodeGraphAssumption ==
    /\ Watcher \notin Scanners
    /\ IsFiniteSet(Files) /\ IsFiniteSet(Scanners)
    /\ FirstText \in [Files -> UNION {Texts[f] : f \in Files}]
    /\ \A f \in Files :
         /\ FirstText[f] \in Texts[f]
         /\ \A t \in Texts[f] : IsFiniteSet(DOMAIN t) /\ \A n \in DOMAIN t : IsFiniteSet(t[n])
    /\ {MaxFanout, MaxWrites, MaxUpdates, MaxKills} \subseteq Nat

Procs == Scanners \cup {Watcher}

VARIABLES
    feed,       \* what starts the scans
    disk,       \* the text of each file
    db,         \* the committed graph
    list,       \* ~/.icmg/pending-graph-scan.list
    edited,     \* edits whose hook has not run yet
    events,     \* the debouncer's pending_
    pc, job,    \* where each scan is, and what it carries
    open, view, \* the watcher's transaction, and the graph as it sees it
    wrote,      \* the watcher's transaction holds the write lock
    fresh,      \* nothing was committed since this process took its snapshot
    writes, updates, kills,
    lost,       \* history: files whose pending scan was dropped or overtaken
    torn,       \* history: files whose rows two scans, or a killed one, wrote
    unbound     \* history: files whose scan failed to store its call edges
vars == <<feed, disk, db, list, edited, events, pc, job, open, view, wrote,
          fresh, writes, updates, kills, lost, torn, unbound>>
world == <<feed, disk, list, edited, events, writes, updates, kills>>
marks == <<lost, torn, unbound>>
txn   == <<open, view, wrote>>

-----------------------------------------------------------------------------
(* The stored graph: the hash of each file ({} when it has no node), its
   symbol nodes, and the call edges between their ids.                      *)
EmptyGraph == [hash |-> [f \in Files |-> {}], syms |-> {}, edges |-> {}]

Ids(g)       == {s.id : s \in g.syms}
SymsOf(g, f) == {s \in g.syms : s.file = f}

\* Symbol nodes have AUTOINCREMENT ids, so one that a scan still carries is
\* not used again; ids nobody refers to any more are.
FreshIds(g, names) ==
    LET used == Ids(db) \cup Ids(g) \cup {c[1] : c \in UNION {job[q].calls : q \in Procs}}
    IN  CHOOSE h \in [names -> (1 .. Cardinality(used) + Cardinality(names)) \ used] :
            \A m, n \in names : h[m] = h[n] => m = n

\* upsertNode() of the file node: its id, and the edges at it, stay.
WithNode(g, f, t) == [g EXCEPT !.hash[f] = {t}]

\* Mutant: foreign_keys is OFF, so the edges of deleted symbols stay.
NoCascade(g, f) == [g EXCEPT !.syms = @ \ SymsOf(g, f)]
\* Mutant: the symbols of the old text are kept.
NothingRemoved(g, f) == g

\* removeSymbolsOf(): ON DELETE CASCADE takes the edges of the symbols, those
\* that come from other files too.
WithoutSymbols(g, f) ==
    LET gone == {s.id : s \in SymsOf(g, f)}
    IN  [g EXCEPT !.syms  = @ \ SymsOf(g, f),
                  !.edges = {e \in @ : e[1] \notin gone /\ e[2] \notin gone}]

\* upsertNode() of symbols: a row of the same path keeps its id.
SymbolIds(g, f, names) ==
    LET new == {n \in names : \A s \in SymsOf(g, f) : s.name # n}
        ids == FreshIds(g, new)
    IN  [n \in names |-> IF n \in new THEN ids[n]
                         ELSE (CHOOSE s \in SymsOf(g, f) : s.name = n).id]
WithSymbols(g, f, ids) ==
    [g EXCEPT !.syms = @ \cup {[id |-> ids[n], file |-> f, name |-> n] : n \in DOMAIN ids}]
CallsFrom(t, ids) == UNION {{ids[n]} \X t[n] : n \in DOMAIN ids}

\* filterCallTargets(): every other symbol of that name, or none at all when
\* there are too many.
Targets(g, c) ==
    LET other == {s.id : s \in {x \in g.syms : x.name = c[2] /\ x.id # c[1]}}
    IN  IF Cardinality(other) > MaxFanout THEN {} ELSE other
EdgesOf(g, calls) == UNION {{<<c[1], i>> : i \in Targets(g, c)} : c \in calls}
WithEdges(g, es)  == [g EXCEPT !.edges = @ \cup es]

-----------------------------------------------------------------------------
(* SQLite in WAL mode.  The watcher's scan runs in one deferred transaction:
   it reads a snapshot, its first write takes the lock, and that write fails
   for good when somebody committed since the snapshot was taken.  A scan of
   listed files commits every statement, waiting while the lock is held.    *)
Graph(p) == IF p = Watcher /\ open THEN view ELSE db

Commit(g) ==
    /\ ~wrote
    /\ db' = g
    /\ fresh' = [q \in Procs |-> FALSE]
    /\ UNCHANGED txn

Goto(p, l) == pc' = [pc EXCEPT ![p] = l]
NoJob == [todo |-> {}, file |-> {}, hash |-> {}, text |-> {}, names |-> {}, calls |-> {}]

\* p is rewriting the rows of f.
Rewriting(p, f) == pc[p] \in {"clear", "symbols"} /\ job[p].file = {f}
Overlaps(p, f)  == \E q \in Procs \ {p} : Rewriting(q, f)
File(p) == CHOOSE f \in Files : job[p].file = {f}
Text(p) == CHOOSE t \in Texts[File(p)] : job[p].text = {t}
Hash(p) == CHOOSE t \in Texts[File(p)] : job[p].hash = {t}

Init ==
    /\ feed \in {"hooks", "watch"}
    /\ disk = FirstText
    /\ db = EmptyGraph
    /\ list = {} /\ edited = {} /\ events = {}
    /\ pc = [p \in Procs |-> "idle"]
    /\ job = [p \in Procs |-> NoJob]
    /\ open = FALSE /\ view = EmptyGraph /\ wrote = FALSE
    /\ fresh = [p \in Procs |-> FALSE]
    /\ writes = 0 /\ updates = 0 /\ kills = 0
    /\ lost = {} /\ torn = {} /\ unbound = {}

-----------------------------------------------------------------------------
(* The feeds.                                                               *)
Write(f) ==
    /\ writes < MaxWrites /\ writes' = writes + 1
    /\ \E t \in Texts[f] \ {disk[f]} : disk' = [disk EXCEPT ![f] = t]
    /\ IF feed = "hooks" THEN edited' = edited \cup {f} /\ UNCHANGED events
                         ELSE events' = events \cup {f} /\ UNCHANGED edited
    /\ UNCHANGED <<feed, list, updates, kills, db, pc, job, txn, fresh, marks>>

\* runPostToolUseEditAutoSync(): append the path unless the list has it.
NoteEdit(f) ==
    /\ f \in edited
    /\ edited' = edited \ {f} /\ list' = list \cup {f} /\ lost' = lost \ {f}
    /\ UNCHANGED <<feed, disk, events, writes, updates, kills, db, pc, job, txn, fresh, torn, unbound>>

\* runStopHook(): read the list, remove the file, scan what was read.
TakeList(p) ==
    /\ pc[p] = "idle" /\ list # {}
    /\ job' = [job EXCEPT ![p].todo = list] /\ Goto(p, "unlist")
    /\ UNCHANGED <<world, db, txn, fresh, marks>>

RemoveList(p) ==
    /\ pc[p] = "unlist" /\ Goto(p, "next")
    /\ list' = {} /\ lost' = lost \cup (list \ job[p].todo)
    /\ UNCHANGED <<feed, disk, edited, events, writes, updates, kills, db, job, txn, fresh, torn, unbound>>

\* The list is one per user: the Stop hook of a session in another project
\* takes it too, and scans its files into the database of that project.
TakeElsewhere ==
    /\ list # {} /\ list' = {} /\ lost' = lost \cup list
    /\ UNCHANGED <<feed, disk, edited, events, writes, updates, kills, db, pc, job, txn, fresh, torn, unbound>>

\* `icmg graph update <file>` beside the watcher.
UpdateFile(p, f) ==
    /\ feed = "watch" /\ pc[p] = "idle"
    /\ updates < MaxUpdates /\ updates' = updates + 1
    /\ job' = [job EXCEPT ![p].todo = {f}] /\ Goto(p, "next")
    /\ UNCHANGED <<feed, disk, list, edited, events, writes, kills, db, txn, fresh, marks>>

\* Debouncer::run() and the watcher's handler: the batch is taken, the whole
\* tree is scanned.
WatchBatch ==
    /\ pc[Watcher] = "idle" /\ events # {} /\ events' = {}
    /\ job' = [job EXCEPT ![Watcher].todo = Files] /\ Goto(Watcher, "next")
    /\ UNCHANGED <<feed, disk, list, edited, writes, updates, kills, db, txn, fresh, marks>>

-----------------------------------------------------------------------------
(* Scanner::scan(), processFile().                                          *)
HashFile(p) ==
    /\ pc[p] = "next" /\ Goto(p, "check")
    /\ \E f \in job[p].todo :
          job' = [job EXCEPT ![p].todo = @ \ {f}, ![p].file = {f}, ![p].hash = {disk[f]}]
    /\ UNCHANGED <<world, db, txn, fresh, marks>>

\* The watcher's first isStale() takes the snapshot of its transaction.
Snapshot(p) ==
    IF p = Watcher /\ ~open
      THEN open' = TRUE /\ view' = db /\ wrote' = FALSE /\ fresh' = [fresh EXCEPT ![p] = TRUE]
      ELSE UNCHANGED <<txn, fresh>>

NextFile(j) == [NoJob EXCEPT !.todo = j.todo, !.calls = j.calls]

\* Mutant: isStale() only asks whether the file is known.
KnownIsFresh(p) ==
    /\ pc[p] = "check" /\ Snapshot(p)
    /\ IF Graph(p).hash[File(p)] # {}
         THEN Goto(p, "next") /\ job' = [job EXCEPT ![p] = NextFile(@)]
         ELSE Goto(p, "node") /\ job' = [job EXCEPT ![p].text = {disk[File(p)]}]
    /\ UNCHANGED <<world, db, marks>>

CheckAndRead(p) ==
    /\ pc[p] = "check" /\ Snapshot(p)
    /\ IF Graph(p).hash[File(p)] = job[p].hash
         THEN Goto(p, "next") /\ job' = [job EXCEPT ![p] = NextFile(@)]
         ELSE Goto(p, "node") /\ job' = [job EXCEPT ![p].text = {disk[File(p)]}]
    /\ UNCHANGED <<world, db, marks>>

\* Which of the histories storing p's text of f touches: the rows are mixed
\* when the file was written between the hash and the read or another scan is
\* rewriting them, and a slow scan may put an older text over the current one.
MarkStore(p, f) ==
    /\ torn' = IF job[p].text # job[p].hash \/ Overlaps(p, f) THEN torn \cup {f} ELSE torn \ {f}
    /\ lost' = CASE Hash(p) = disk[f]               -> lost \ {f}
                 [] Graph(p).hash[f] = {disk[f]}    -> lost \cup {f}
                 [] OTHER                           -> lost
    /\ unbound' = unbound \ {f}

StoreNode(p) ==
    /\ pc[p] = "node" /\ p # Watcher
    /\ Commit(WithNode(db, File(p), Hash(p))) /\ MarkStore(p, File(p))
    /\ Goto(p, "clear")
    /\ UNCHANGED <<world, job>>

ClearSymbols(p) ==
    /\ pc[p] = "clear"
    /\ Commit(WithoutSymbols(db, File(p)))
    /\ job' = [job EXCEPT ![p].names = DOMAIN Text(p)] /\ Goto(p, "symbols")
    /\ UNCHANGED <<world, marks>>

StoreSymbol(p) ==
    /\ pc[p] = "symbols"
    /\ \E n \in job[p].names : LET ids == SymbolIds(db, File(p), {n}) IN
          /\ Commit(WithSymbols(db, File(p), ids))
          /\ job' = [job EXCEPT ![p].names = @ \ {n}, ![p].calls = @ \cup CallsFrom(Text(p), ids)]
    /\ UNCHANGED <<world, pc, marks>>

\* resolveAndInsertEdges() reads the symbol table in a transaction of its own,
\* unless no call is pending.
ReadNames(p) ==
    /\ pc[p] = "symbols" /\ job[p].names = {}
    /\ IF job[p].calls = {}
         THEN Goto(p, "next") /\ job' = [job EXCEPT ![p] = NextFile(@)] /\ UNCHANGED fresh
         ELSE Goto(p, "resolve") /\ fresh' = [fresh EXCEPT ![p] = TRUE] /\ UNCHANGED job
    /\ UNCHANGED <<world, db, txn, marks>>

Done(p) == job' = [job EXCEPT ![p] = [NextFile(@) EXCEPT !.calls = {}]] /\ Goto(p, "next")

InsertEdges(p) ==
    /\ pc[p] = "resolve" /\ fresh[p]
    /\ \A c \in job[p].calls : c[1] \in Ids(db)
    /\ Commit(WithEdges(db, EdgesOf(db, job[p].calls)))
    /\ Done(p) /\ UNCHANGED <<world, marks>>

\* Somebody committed after the read, or a symbol of the scan is gone and the
\* foreign key refuses its edge: the exception leaves the command, and the
\* files after this one are not scanned.  The guard commits what was inserted.
EdgesRefused(p) ==
    /\ pc[p] = "resolve"
    /\ LET own == {c \in job[p].calls : c[1] \in Ids(db)} IN
          /\ ~fresh[p] \/ own # job[p].calls
          /\ IF fresh[p]
               THEN \E cs \in SUBSET own : Commit(WithEdges(db, EdgesOf(db, cs)))
               ELSE UNCHANGED <<db, fresh, txn>>
    /\ unbound' = unbound \cup job[p].file /\ lost' = lost \cup job[p].todo
    /\ job' = [job EXCEPT ![p] = NoJob] /\ Goto(p, "idle")
    /\ UNCHANGED <<world, torn>>

EndScan(p) ==
    /\ p # Watcher /\ pc[p] = "next" /\ job[p].todo = {}
    /\ job' = [job EXCEPT ![p] = NoJob] /\ Goto(p, "idle")
    /\ UNCHANGED <<world, db, txn, fresh, marks>>

Kill(p) ==
    /\ p # Watcher /\ pc[p] # "idle" /\ kills < MaxKills /\ kills' = kills + 1
    /\ lost' = lost \cup job[p].todo \cup job[p].file
    /\ torn' = IF pc[p] \in {"clear", "symbols"} THEN torn \cup job[p].file ELSE torn
    /\ unbound' = IF pc[p] = "resolve" THEN unbound \cup job[p].file ELSE unbound
    /\ job' = [job EXCEPT ![p] = NoJob] /\ Goto(p, "idle")
    /\ fresh' = [fresh EXCEPT ![p] = FALSE]
    /\ UNCHANGED <<feed, disk, list, edited, events, writes, updates, db, txn>>

-----------------------------------------------------------------------------
(* The watcher's scan.                                                      *)
\* The rows of one file, in the transaction.  When the write is refused,
\* processFile() swallows the exception and the walk goes on.
WatchStore ==
    /\ pc[Watcher] = "node"
    /\ LET f   == File(Watcher)
           t   == Text(Watcher)
           g   == WithoutSymbols(WithNode(view, f, Hash(Watcher)), f)
           ids == SymbolIds(g, f, DOMAIN t)
       IN  IF fresh[Watcher]
             THEN /\ view' = WithSymbols(g, f, ids) /\ wrote' = TRUE
                  /\ job' = [job EXCEPT ![Watcher] =
                       [NextFile(@) EXCEPT !.calls = job[Watcher].calls \cup CallsFrom(t, ids)]]
                  /\ MarkStore(Watcher, f)
             ELSE /\ job' = [job EXCEPT ![Watcher] = NextFile(@)]
                  /\ UNCHANGED <<view, wrote, marks>>
    /\ Goto(Watcher, "next")
    /\ UNCHANGED <<world, db, open, fresh>>

\* Mutant: pending_ is cleared when its scan ends, too.
EndClearsEvents ==
    /\ pc[Watcher] = "next" /\ job[Watcher].todo = {} /\ events' = {}
    /\ IF fresh[Watcher]
         THEN /\ db' = WithEdges(view, EdgesOf(view, job[Watcher].calls))
              /\ open' = FALSE /\ view' = EmptyGraph /\ wrote' = FALSE
              /\ fresh' = [q \in Procs |-> FALSE]
         ELSE UNCHANGED <<db, txn, fresh>>
    /\ job' = [job EXCEPT ![Watcher] = NoJob] /\ Goto(Watcher, "idle")
    /\ UNCHANGED <<feed, disk, list, edited, writes, updates, kills, marks>>

\* The edges, the scan_runs row, COMMIT.  When the row is refused the
\* exception ends the scan, the debouncer swallows it, and the transaction
\* stays open: the next scan's BEGIN fails inside it.
WatchEnd ==
    /\ pc[Watcher] = "next" /\ job[Watcher].todo = {}
    /\ IF fresh[Watcher]
         THEN /\ db' = WithEdges(view, EdgesOf(view, job[Watcher].calls))
              /\ open' = FALSE /\ view' = EmptyGraph /\ wrote' = FALSE
              /\ fresh' = [q \in Procs |-> FALSE]
         ELSE UNCHANGED <<db, txn, fresh>>
    /\ job' = [job EXCEPT ![Watcher] = NoJob] /\ Goto(Watcher, "idle")
    /\ UNCHANGED <<world, marks>>

-----------------------------------------------------------------------------
ScanStep(p) ==
    \/ RemoveList(p) \/ HashFile(p) \/ CheckAndRead(p) \/ StoreNode(p) \/ ClearSymbols(p)
    \/ StoreSymbol(p) \/ ReadNames(p) \/ InsertEdges(p) \/ EdgesRefused(p) \/ EndScan(p)
WatchStep == HashFile(Watcher) \/ CheckAndRead(Watcher) \/ WatchStore \/ WatchEnd

Next ==
    \/ \E f \in Files : Write(f) \/ NoteEdit(f)
    \/ TakeElsewhere \/ WatchBatch \/ WatchStep
    \/ \E p \in Scanners : TakeList(p) \/ ScanStep(p) \/ Kill(p) \/ \E f \in Files : UpdateFile(p, f)

\* A hook that runs gets to its end, turns go on ending, and the watcher and
\* the scans it shares the database with are scheduled.
Spec ==
    /\ Init /\ [][Next]_vars
    /\ \A f \in Files : WF_vars(NoteEdit(f))
    /\ \A p \in Scanners : WF_vars(ScanStep(p)) /\ WF_vars(TakeList(p))
    /\ WF_vars(WatchBatch) /\ WF_vars(WatchStep)

-----------------------------------------------------------------------------
TypeOK ==
    /\ \A f \in Files : disk[f] \in Texts[f] /\ \A t \in db.hash[f] : t \in Texts[f]
    /\ Cardinality(Ids(db)) = Cardinality(db.syms)
    /\ pc \in [Procs -> {"idle", "unlist", "next", "check", "node", "clear", "symbols", "resolve"}]
    /\ \A p \in Procs : job[p].todo \subseteq Files
    /\ list \cup edited \cup events \cup lost \cup torn \cup unbound \subseteq Files
    /\ open \in BOOLEAN /\ wrote \in BOOLEAN /\ (wrote => open /\ fresh[Watcher])

Settled(f) ==
    /\ f \notin torn /\ \A p \in Procs : ~Rewriting(p, f)
    /\ wrote => view.hash[f] = db.hash[f]   \* nor about to be committed

\* skip_stale trusts the hash: a file whose stored hash is its hash is never
\* rewritten.  So the symbols stored for a file are those of the very text
\* whose hash is stored, unless the file was written between the hash and the
\* read, or its rows were written by two scans at once or by a killed one
\* (scanner.cpp, processFile()).
SymbolsOfTheHashedText ==
    /\ TypeOK
    /\ \A f \in Files : \A t \in db.hash[f] : Settled(f) =>
          /\ {s.name : s \in SymsOf(db, f)} = DOMAIN t
          /\ Cardinality(SymsOf(db, f)) = Cardinality(DOMAIN t)

\* A call edge joins two stored symbols and is a call that the stored text of
\* its source makes; and a call inside one file has its edge, unless the scan
\* that stored the file failed before its edges (resolveAndInsertEdges(), the
\* foreign keys, filterCallTargets()).
EdgesAreCalls ==
    /\ \A e \in db.edges : {e[1], e[2]} \subseteq Ids(db) /\ e[1] # e[2]
    /\ \A f \in Files : \A t \in db.hash[f] : Settled(f) =>
          \A s \in SymsOf(db, f), d \in db.syms :
             /\ <<s.id, d.id>> \in db.edges => d.name \in t[s.name]
             /\ (/\ f \notin unbound /\ \A p \in Procs : ~(pc[p] = "resolve" /\ job[p].file = {f})
                 /\ d.file = f /\ d # s /\ d.name \in t[s.name]
                 /\ Cardinality({h \in Files : \E u \in Texts[h] : d.name \in DOMAIN u}) <= MaxFanout)
                => <<s.id, d.id>> \in db.edges

\* An edit the hook put on the list ends up in the graph, unless its entry was
\* removed unread, taken by another project or dropped with a failed or killed
\* scan, or a slow scan stored an older text over it.
EditReachesGraph ==
    \A f \in Files : f \in edited \cup list ~> (db.hash[f] = {disk[f]} \/ f \in lost)

\* A change the watcher heard of ends up in the graph, unless the watcher's
\* transaction was left open (WatchEnd) or a slow scan stored an older text.
WatcherCatchesUp ==
    \A f \in Files : f \in events ~>
        (db.hash[f] = {disk[f]} \/ f \in lost \/ (open /\ ~fresh[Watcher]))
=============================================================================
