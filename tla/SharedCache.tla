---------------------------- MODULE SharedCache ---------------------------
(***************************************************************************)
(* The rule daemon's RCACHE handlers: a RAM cache filled from the table    *)
(* recall_cache_persist the first time a scope is touched, and written     *)
(* through to it by jobs on a WriteQueue.                                  *)
(*                                                                         *)
(* One scope, a few keys; a value is the number of the PUT that brought    *)
(* it, so a smaller one is older.  Each worker is a thread of serveSocket; *)
(* servePipe is the case of one worker.  The RAM cache has no lock: its    *)
(* operations are taken to be atomic here, the mildest of the outcomes a   *)
(* data race can have.  Eviction only turns hits into misses.              *)
(***************************************************************************)
EXTENDS Naturals, Sequences

CONSTANTS
  Keys,    \* cache keys of the scope
  Workers, \* threads that serve requests
  Ops,     \* requests made
  MaxPuts, \* bound on the PUTs
  Absent

ASSUME SharedCacheAssumption ==
  /\ Ops \subseteq {"get", "put", "flush"} /\ "get" \in Ops
  /\ MaxPuts \in Nat /\ Keys # {}
  /\ Absent \notin 0..MaxPuts /\ Absent \notin [k : Keys, v : 0..MaxPuts]

VARIABLES
  ram,      \* rcache_
  hydrated, \* the scope is in hydrated_scopes_
  rows,     \* recall_cache_persist
  queue,    \* persist_wq_
  job,      \* the job its worker has popped
  puts,     \* PUTs begun
  stage,    \* where each worker is
  req,      \* the request it handles
  todo,     \* rows it read for hydration and has not put yet
  latest,   \* history: per key, the last value put and not flushed since
  answer    \* observation: what the last GET returned

cacheVars == <<ram, hydrated, rows, queue, job, puts, stage, req, todo, latest, answer>>

Value == 0..MaxPuts
Slot == Value \cup {Absent}
Pair == [k : Keys, v : Value]

CacheTypeOK ==
  /\ ram \in [Keys -> Slot] /\ rows \in [Keys -> Slot] /\ latest \in [Keys -> Slot]
  /\ hydrated \in BOOLEAN
  /\ queue \in Seq(Pair)
  /\ job \in Pair \cup {Absent}
  /\ puts \in Value
  /\ stage \in [Workers -> {"idle", "check", "query", "hydrate", "apply"}]
  /\ req \in [Workers -> [op : Ops, k : Keys, v : Value]]
  /\ todo \in [Workers -> SUBSET Pair]
  /\ answer \in [k : Keys, v : Slot]

\* A daemon starts with whatever rows an earlier one left.
CacheInit ==
  /\ rows \in [Keys -> {0, Absent}]
  /\ latest = rows
  /\ ram = [k \in Keys |-> Absent]
  /\ hydrated = FALSE
  /\ queue = <<>> /\ job = Absent
  /\ puts = 0
  /\ stage = [w \in Workers |-> "idle"]
  /\ req = [w \in Workers |-> [op |-> "get", k |-> CHOOSE k \in Keys : TRUE, v |-> 0]]
  /\ todo = [w \in Workers |-> {}]
  /\ answer = [k |-> CHOOSE k \in Keys : TRUE, v |-> Absent]

-----------------------------------------------------------------------------
\* putAt: the entry, then the sink, which enqueues the row's upsert.
Put(k, v) ==
  /\ ram' = [ram EXCEPT ![k] = v]
  /\ queue' = Append(queue, [k |-> k, v |-> v])

Goto(w, where) == stage' = [stage EXCEPT ![w] = where]

NeedsScopeOnPut(o) == o = "put" \* mutant: a GET reads RAM as it is

NeedsScope(o) == o # "flush"

\* A request is received; FLUSH does not touch the scope.
Take(w) ==
  /\ stage[w] = "idle"
  /\ \E o \in Ops, k \in Keys :
       /\ o = "put" => puts < MaxPuts
       /\ puts' = IF o = "put" THEN puts + 1 ELSE puts
       /\ req' = [req EXCEPT ![w] = [op |-> o, k |-> k, v |-> puts']]
       /\ Goto(w, IF NeedsScope(o) THEN "check" ELSE "apply")
  /\ UNCHANGED <<ram, hydrated, rows, queue, job, todo, latest, answer>>

CheckTwice(w) == \* mutant: the scope is never marked
  /\ stage[w] = "check"
  /\ Goto(w, IF hydrated THEN "apply" ELSE "query")
  /\ UNCHANGED hydrated

\* ensureScopeHydrated: the scope is marked before it is loaded.
Check(w) ==
  /\ stage[w] = "check"
  /\ Goto(w, IF hydrated THEN "apply" ELSE "query")
  /\ hydrated' = TRUE

EnsureScope(w) ==
  /\ Check(w)
  /\ UNCHANGED <<ram, rows, queue, job, puts, req, todo, latest, answer>>

\* hydrate: one SELECT.
Query(w) ==
  /\ stage[w] = "query"
  /\ todo' = [todo EXCEPT ![w] =
       {[k |-> k, v |-> rows[k]] : k \in {k \in Keys : rows[k] # Absent}}]
  /\ Goto(w, "hydrate")
  /\ UNCHANGED <<ram, hydrated, rows, queue, job, puts, req, latest, answer>>

Hydrate(w) ==
  /\ stage[w] = "hydrate"
  /\ \/ /\ \E e \in todo[w] : /\ Put(e.k, e.v)
                              /\ todo' = [todo EXCEPT ![w] = @ \ {e}]
        /\ UNCHANGED stage
     \/ /\ todo[w] = {}
        /\ Goto(w, "apply")
        /\ UNCHANGED <<ram, queue, todo>>
  /\ UNCHANGED <<hydrated, rows, job, puts, req, latest, answer>>

ApplyPut(w) ==
  /\ stage[w] = "apply" /\ req[w].op = "put"
  /\ Put(req[w].k, req[w].v)
  /\ latest' = [latest EXCEPT ![req[w].k] = req[w].v]
  /\ Goto(w, "idle")
  /\ UNCHANGED <<hydrated, rows, job, puts, req, todo, answer>>

ApplyGet(w) ==
  /\ stage[w] = "apply" /\ req[w].op = "get"
  /\ answer' = [k |-> req[w].k, v |-> ram[req[w].k]]
  /\ Goto(w, "idle")
  /\ UNCHANGED <<ram, hydrated, rows, queue, job, puts, req, todo, latest>>

\* The RAM is emptied; rows and marks stay.  A flush before the first touch
\* drops nothing: the rows are loaded afterwards all the same.
ApplyFlush(w) ==
  /\ stage[w] = "apply" /\ req[w].op = "flush"
  /\ ram' = [k \in Keys |-> Absent]
  /\ latest' = IF hydrated THEN [k \in Keys |-> Absent] ELSE latest
  /\ Goto(w, "idle")
  /\ UNCHANGED <<hydrated, rows, queue, job, puts, req, todo, answer>>

\* The write queue's worker: one job at a time, oldest first.
Pop ==
  /\ job = Absent /\ queue # <<>>
  /\ job' = Head(queue) /\ queue' = Tail(queue)
  /\ UNCHANGED <<ram, hydrated, rows, puts, stage, req, todo, latest, answer>>

WriteThroughInsertOnly == \* mutant: the conflict clause does nothing
  rows' = IF rows[job.k] = Absent THEN [rows EXCEPT ![job.k] = job.v] ELSE rows

\* The upsert; a failed one is swallowed, but is not considered here.
WriteThrough == rows' = [rows EXCEPT ![job.k] = job.v]

RunJob ==
  /\ job # Absent
  /\ WriteThrough
  /\ job' = Absent
  /\ UNCHANGED <<ram, hydrated, queue, puts, stage, req, todo, latest, answer>>

Handle(w) == EnsureScope(w) \/ Query(w) \/ Hydrate(w)
             \/ ApplyPut(w) \/ ApplyGet(w) \/ ApplyFlush(w)

CacheNext == (\E w \in Workers : Take(w) \/ Handle(w)) \/ Pop \/ RunJob

CacheSpec == CacheInit /\ [][CacheNext]_cacheVars

-----------------------------------------------------------------------------
(* Properties.                                                             *)

\* A GET never brings back a value that a later PUT replaced or a FLUSH dropped.
\* With one worker: of two threads, one may load an old row over a new PUT
\* though rule_daemon.hpp calls the hydration thread-safe.
AnswersCurrent ==
  [][\A w \in Workers :
       ApplyGet(w) => answer'.v \in {latest[answer'.k], Absent}]_cacheVars

\* When the write queue has caught up, what RAM holds is what the table holds,
\* so a restart loses nothing.
WriteThroughCatchesUp ==
  /\ CacheTypeOK
  /\ (queue = <<>> /\ job = Absent) =>
       \A k \in Keys : ram[k] # Absent => rows[k] = ram[k]

\* A GET misses only what was never stored or was flushed: the first touch loads
\* every row before it answers (test "hydrate: pre-seeded scope warm-loads on
\* first GET").
FirstTouchWarms ==
  [][\A w \in Workers :
       ApplyGet(w) => (latest[req[w].k] # Absent => answer'.v # Absent)]_cacheVars
=============================================================================
