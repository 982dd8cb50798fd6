------------------------- MODULE RecallCoherence --------------------------
(***************************************************************************)
(* imem/memory_store's recall cache: every process keeps recall results in *)
(* a static RecallCache under a key made of an epoch it counts itself, and *)
(* shares them with the rule daemon's cache.  A write counts the epoch up, *)
(* empties the process's cache and tells the daemon to empty its own, and  *)
(* only then touches the database.                                         *)
(*                                                                         *)
(* A memory is reduced to the number of its last change, a query to one    *)
(* fixed text and limit; a result says which database it was computed from *)
(* and at which change.  Capacity and eviction are left out: they only     *)
(* turn hits into misses.                                                  *)
(***************************************************************************)
EXTENDS Naturals, FiniteSets

CONSTANTS
  Procs,      \* processes that open a MemoryStore
  Threads,    \* threads that call it
  ProcOf,     \* the process of each thread
  Projects,   \* databases
  Writes,     \* which writes are called: "store" (and its like), "update"
  Ttl,        \* RecallCache::ttl_
  MaxChanges, \* bound on the writes
  MaxTime,    \* bound on the clock
  MaxRecall,  \* bound on the clock ticks one recall takes
  None

ASSUME RecallAssumption ==
  /\ ProcOf \in [Threads -> Procs]
  /\ Writes \subseteq {"store", "update"}
  /\ Ttl \in Nat /\ MaxChanges \in Nat /\ MaxTime \in Nat /\ MaxRecall \in Nat
  /\ IsFiniteSet(Threads)

VARIABLES
  mem,     \* per database: the number of its last committed change
  since,   \* history: when each change was committed
  changes, \* writes begun
  now,     \* std::time
  epoch,   \* recallEpoch() of each process
  cache,   \* recallCache() of each process: key (an epoch) to entry
  shared,  \* the daemon's cache (SharedCache has the rest of it)
  pc,      \* where each thread is
  call,    \* what each thread works on
  wrote,   \* history: the last change of each process to each database that
           \* flushed the caches
  served   \* observation: the result the last step returned, if any

vars == <<mem, since, changes, now, epoch, cache, shared, pc, call, wrote, served>>

Epochs == 0..MaxChanges
Result == [db : Projects, v : 0..MaxChanges]
Entry == [val : Result, created : 0..MaxTime]
Call == [db : Projects, key : Epochs, floor : 0..MaxChanges,
         val : Result \cup {None}, at : 0..MaxTime]

TypeOK ==
  /\ mem \in [Projects -> 0..MaxChanges]
  /\ since \in [Projects -> [0..MaxChanges -> 0..MaxTime]]
  /\ changes \in 0..MaxChanges
  /\ now \in 0..MaxTime
  /\ epoch \in [Procs -> Epochs]
  /\ cache \in [Procs -> [Epochs -> Entry \cup {None}]]
  /\ shared \in [Epochs -> Result \cup {None}]
  /\ pc \in [Threads -> {"idle", "compute", "publish", "store", "update"}]
  /\ call \in [Threads -> Call \cup {None}]
  /\ served \in Call \cup {None}
  /\ wrote \in [Procs -> [Projects -> 0..MaxChanges]]

NothingServed == served' = None

Init ==
  /\ mem = [d \in Projects |-> 0]
  /\ since = [d \in Projects |-> [v \in 0..MaxChanges |-> 0]]
  /\ changes = 0
  /\ now = 0
  /\ epoch = [p \in Procs |-> 0]
  /\ cache = [p \in Procs |-> [e \in Epochs |-> None]]
  /\ shared = [e \in Epochs |-> None]
  /\ pc = [t \in Threads |-> "idle"]
  /\ call = [t \in Threads |-> None]
  /\ served = None
  /\ wrote = [p \in Procs |-> [d \in Projects |-> 0]]

-----------------------------------------------------------------------------
(* RecallCache, and the daemon's cache behind callHook.                    *)

FreshForever(entry) == entry # None \* mutant: the ttl is not looked at

\* getAt: an entry older than the ttl is a miss.
Fresh(entry) == entry # None /\ now - entry.created <= Ttl

\* callHook takes a reply only if its action is "OK"; the RCACHE_GET handler
\* answers with "value" and "emit", or "miss", and with no action: whatever the
\* daemon holds, the caller gets nothing.
Accept(held) == None

\* PUT is answered {"ok":true}, which is no "OK" either, so it may be made twice;
\* it may also not arrive.
SharedPut(key, val) ==
  \/ shared' = [shared EXCEPT ![key] = val]
  \/ UNCHANGED shared

SharedFlush ==
  \/ shared' = [e \in Epochs |-> None]
  \/ UNCHANGED shared \* the daemon is down

-----------------------------------------------------------------------------
(* recall().                                                               *)

Serve(t, c, val) ==
  /\ served' = [c EXCEPT !.val = val, !.at = now]
  /\ call' = [call EXCEPT ![t] = None]
  /\ pc' = [pc EXCEPT ![t] = "idle"]

\* rcKey: neither the database nor the fuzzy flag is part of it.
Key(p) == epoch[p]

Recall(t) ==
  /\ pc[t] = "idle"
  /\ \E d \in Projects :
       LET p == ProcOf[t]
           key == Key(p)
           near == cache[p][key]
           hit == IF Fresh(near) THEN near.val ELSE Accept(shared[key])
           c == [db |-> d, key |-> key, floor |-> wrote[p][d], val |-> None, at |-> now]
       IN \/ /\ hit # None
             /\ Serve(t, c, hit)
             /\ cache' = IF Fresh(near) THEN cache
                         ELSE [cache EXCEPT ![p][key] = [val |-> hit, created |-> now]]
          \/ /\ hit = None
             /\ cache' = [cache EXCEPT ![p][key] = None]
             /\ call' = [call EXCEPT ![t] = c]
             /\ pc' = [pc EXCEPT ![t] = "compute"]
             /\ NothingServed
  /\ UNCHANGED <<mem, since, changes, now, epoch, shared, wrote>>

\* all(): the corpus is read, then ranked.
Compute(t) ==
  /\ pc[t] = "compute"
  /\ LET d == call[t].db
     IN call' = [call EXCEPT ![t].val = [db |-> d, v |-> mem[d]]]
  /\ pc' = [pc EXCEPT ![t] = "publish"]
  /\ NothingServed
  /\ UNCHANGED <<mem, since, changes, now, epoch, cache, shared, wrote>>

\* The result goes into both caches under the key computed at the start.
Publish(t) ==
  /\ pc[t] = "publish"
  /\ LET c == call[t]
     IN /\ cache' = [cache EXCEPT ![ProcOf[t]][c.key] = [val |-> c.val, created |-> now]]
        /\ SharedPut(c.key, c.val)
        /\ Serve(t, c, c.val)
  /\ UNCHANGED <<mem, since, changes, now, epoch, wrote>>

-----------------------------------------------------------------------------
(* Writes.                                                                 *)

FlushOnWriteKeepsCache(p) == \* mutant: only the daemon is told
  /\ epoch' = epoch
  /\ UNCHANGED cache
  /\ SharedFlush

\* rcFlushOnWrite.
FlushOnWrite(p) ==
  /\ epoch' = [epoch EXCEPT ![p] = @ + 1]
  /\ cache' = [cache EXCEPT ![p] = [e \in Epochs |-> None]]
  /\ SharedFlush

BeginWrite(t, d, at) ==
  /\ pc[t] = "idle"
  /\ changes < MaxChanges
  /\ changes' = changes + 1
  /\ pc' = [pc EXCEPT ![t] = at]
  /\ call' = [call EXCEPT ![t] = [db |-> d, key |-> 0, floor |-> 0, val |-> None, at |-> now]]
  /\ NothingServed
  /\ UNCHANGED <<mem, since, now, wrote>>

\* store, remove, restore, invalidate, linkCausal, purge.
BeginStore(t) ==
  /\ "store" \in Writes
  /\ \E d \in Projects : BeginWrite(t, d, "store")
  /\ FlushOnWrite(ProcOf[t])

\* update() leaves the caches alone.
BeginUpdate(t) ==
  /\ "update" \in Writes
  /\ \E d \in Projects : BeginWrite(t, d, "update")
  /\ UNCHANGED <<epoch, cache, shared>>

Commit(t) ==
  /\ pc[t] \in {"store", "update"}
  /\ LET d == call[t].db
     IN \/ /\ mem' = [mem EXCEPT ![d] = @ + 1]
           /\ since' = [since EXCEPT ![d][mem[d] + 1] = now]
           /\ wrote' = IF pc[t] = "update" THEN wrote
                       ELSE [wrote EXCEPT ![ProcOf[t]][d] = mem[d] + 1]
        \/ /\ pc[t] = "store" \* cancelled by a hook, a duplicate, an unknown id
           /\ UNCHANGED <<mem, since, wrote>>
  /\ pc' = [pc EXCEPT ![t] = "idle"]
  /\ call' = [call EXCEPT ![t] = None]
  /\ NothingServed
  /\ UNCHANGED <<changes, now, epoch, cache, shared>>

\* Time passes, but no recall takes longer than MaxRecall from start to end.
Tick ==
  /\ now < MaxTime
  /\ \A t \in Threads : pc[t] \in {"compute", "publish"} => now - call[t].at < MaxRecall
  /\ now' = now + 1
  /\ NothingServed
  /\ UNCHANGED <<mem, since, changes, epoch, cache, shared, pc, call, wrote>>

Next ==
  \/ \E t \in Threads : \/ Recall(t) \/ Compute(t) \/ Publish(t)
                        \/ BeginStore(t) \/ BeginUpdate(t) \/ Commit(t)
  \/ Tick

Spec == Init /\ [][Next]_vars

-----------------------------------------------------------------------------
(* Properties.                                                             *)

\* Whoever else writes, and however, a result was current at most one ttl and
\* one recall ago: entries age from their insertion, whatever their hits.
StaleAtMostTtl ==
  /\ TypeOK
  /\ (served # None /\ served.val.v < mem[served.val.db]) =>
       served.at <= since[served.val.db][served.val.v + 1] + Ttl + MaxRecall

\* "ram-brain: invalidate recall cache on any write" (memory_store.cpp): a
\* process sees its own writes, those that do flush, though the caches are
\* emptied before the database is written and others write meanwhile.  One
\* thread per process: a second one may fill the cache in between.
OwnWritesSeen ==
  (served # None /\ served.val.db = served.db) => served.val.v >= served.floor

=============================================================================
