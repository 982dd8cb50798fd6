---------------------------- MODULE RecallProofs ----------------------------
(***************************************************************************)
(* Proofs about the two recall caches: RecallCoherence, the cache of each  *)
(* process, and SharedCache, the one the rule daemon keeps for all.        *)
(***************************************************************************)
EXTENDS RecallCoherence, SharedCache, FiniteSetTheorems, SequenceTheorems, TLAPS

(***************************************************************************)
(* RecallCoherence, for any processes, threads, databases and ttl.         *)
(*                                                                         *)
(* A result was computed between the start of its recall and its insertion *)
(* into a cache, at most MaxRecall later; whatever was committed after it  *)
(* was committed after that start.  An entry's age thus bounds how long    *)
(* its content has been out of date.  A process with one thread further    *)
(* holds nothing older than its own last write: its cache is empty from    *)
(* the flush of a write until the write is committed.                      *)
(***************************************************************************)

Places == {"idle", "compute", "publish", "store", "update"}
Writers == {t \in Threads : pc[t] \in {"store", "update"}}

\* Every change and every epoch is one of the writes begun.
Begun ==
  /\ \A d \in Projects : mem[d] + Cardinality(Writers) <= changes
  /\ \A p \in Procs : epoch[p] <= changes
  /\ \A p \in Procs, d \in Projects : wrote[p][d] <= mem[d]

InCall ==
  \A t \in Threads : /\ pc[t] # "idle" => call[t] \in Call
                     /\ pc[t] = "publish" => call[t].val \in Result

Base == TypeOK /\ Begun /\ InCall

LEMMA Bounds ==
  ASSUME Base
  PROVE  /\ changes \in Nat /\ changes <= MaxChanges /\ now \in Nat /\ now <= MaxTime
         /\ MaxChanges \in Nat /\ MaxTime \in Nat /\ Ttl \in Nat /\ MaxRecall \in Nat
         /\ IsFiniteSet(Writers) /\ Cardinality(Writers) \in Nat
         /\ \A d \in Projects : mem[d] \in 0..MaxChanges
         /\ \A t \in Threads : ProcOf[t] \in Procs
<1>1. changes \in 0..MaxChanges /\ now \in 0..MaxTime /\ mem \in [Projects -> 0..MaxChanges]
  BY DEF Base, TypeOK
<1>2. IsFiniteSet(Writers)
  BY RecallAssumption, FS_Subset DEF Writers
<1> QED
  BY <1>1, <1>2, RecallAssumption, FS_CardinalityType

LEMMA InitBase == Init => Base
<1> SUFFICES ASSUME Init PROVE Base
  OBVIOUS
<1> USE RecallAssumption DEF Init
<1>1. TypeOK
  BY DEF TypeOK, Epochs, Entry, Result, Call
<1>2. Writers = {} /\ Cardinality(Writers) = 0
  <2>1. Writers = {}
    BY DEF Writers
  <2> QED
    BY <2>1, FS_EmptySet
<1>3. Begun
  BY <1>2 DEF Begun
<1> QED
  BY <1>1, <1>3 DEF Base, InCall

\* A step of a thread that writes nothing.
LEMMA ReadKeepsBase ==
  ASSUME Base, NEW t \in Threads, NEW l \in {"idle", "compute", "publish"},
         pc[t] \in {"idle", "compute", "publish"}, pc' = [pc EXCEPT ![t] = l],
         NEW c \in Call \cup {None}, call' = [call EXCEPT ![t] = c],
         l # "idle" => c \in Call, l = "publish" => c.val \in Result,
         cache' \in [Procs -> [Epochs -> Entry \cup {None}]],
         shared' \in [Epochs -> Result \cup {None}], served' \in Call \cup {None},
         UNCHANGED <<mem, since, changes, now, epoch, wrote>>
  PROVE  Base'
<1>1. TypeOK'
  <2>1. pc \in [Threads -> Places] /\ call \in [Threads -> Call \cup {None}]
    BY DEF Base, TypeOK, Places
  <2>2. pc' \in [Threads -> Places] /\ call' \in [Threads -> Call \cup {None}]
    BY <2>1 DEF Places
  <2> QED
    BY <2>2, Zenon DEF Base, TypeOK, Places
<1>2. Writers' = Writers
  BY DEF Base, TypeOK, Writers
<1>3. Begun'
  BY <1>2 DEF Base, Begun
<1>4. InCall'
  BY DEF Base, TypeOK, InCall
<1> QED
  BY <1>1, <1>3, <1>4 DEF Base

LEMMA RecallBase ==
  ASSUME Base, NEW t \in Threads, Recall(t)
  PROVE  Base'
<1> DEFINE p == ProcOf[t]
           key == epoch[p]
           near == cache[p][key]
           C(d) == [db |-> d, key |-> key, floor |-> wrote[p][d], val |-> None, at |-> now]
<1>1. /\ p \in Procs /\ key \in Epochs /\ cache \in [Procs -> [Epochs -> Entry \cup {None}]]
      /\ shared' = shared /\ shared \in [Epochs -> Result \cup {None}]
      /\ UNCHANGED <<mem, since, changes, now, epoch, wrote>> /\ pc[t] = "idle"
  BY Bounds DEF Recall, Base, TypeOK
<1>2. \A d \in Projects : C(d) \in Call
  BY <1>1 DEF Base, TypeOK, Call
<1>3. PICK d \in Projects :
        \/ /\ Fresh(near) /\ Serve(t, C(d), near.val) /\ cache' = cache
        \/ /\ cache' = [cache EXCEPT ![p][key] = None]
           /\ call' = [call EXCEPT ![t] = C(d)]
           /\ pc' = [pc EXCEPT ![t] = "compute"] /\ served' = None
  BY DEF Recall, Key, Accept, NothingServed
<1> HIDE DEF C
<1>4. CASE Fresh(near) /\ Serve(t, C(d), near.val) /\ cache' = cache
  <2>1. near.val \in Result
    BY <1>1, <1>4 DEF Fresh, Entry
  <2>2. [C(d) EXCEPT !.val = near.val, !.at = now] \in Call
    BY <1>2, <2>1 DEF Call, Base, TypeOK
  <2>3. served' \in Call
    BY <1>4, <2>2 DEF Serve
  <2> QED
    BY <1>1, <1>4, <2>3, ReadKeepsBase DEF Serve
<1>5. CASE /\ cache' = [cache EXCEPT ![p][key] = None]
           /\ call' = [call EXCEPT ![t] = C(d)]
           /\ pc' = [pc EXCEPT ![t] = "compute"] /\ served' = None
  <2>1. cache' \in [Procs -> [Epochs -> Entry \cup {None}]]
    BY <1>1, <1>5
  <2> QED
    BY <1>1, <1>2, <1>5, <2>1, ReadKeepsBase
<1> QED
  BY <1>3, <1>4, <1>5

LEMMA ComputeBase ==
  ASSUME Base, NEW t \in Threads, Compute(t)
  PROVE  Base'
<1> DEFINE c == [call[t] EXCEPT !.val = [db |-> call[t].db, v |-> mem[call[t].db]]]
<1>1. call[t] \in Call /\ pc[t] = "compute"
  BY DEF Compute, Base, InCall
<1>2. [db |-> call[t].db, v |-> mem[call[t].db]] \in Result
  BY <1>1, Bounds DEF Call, Result
<1>3. c \in Call /\ c.val \in Result
  BY <1>1, <1>2 DEF Call
<1>4. /\ call' = [call EXCEPT ![t] = c] /\ pc' = [pc EXCEPT ![t] = "publish"]
      /\ UNCHANGED <<mem, since, changes, now, epoch, cache, shared, wrote>> /\ served' = None
  BY DEF Compute, NothingServed
<1>5. /\ cache' \in [Procs -> [Epochs -> Entry \cup {None}]]
      /\ shared' \in [Epochs -> Result \cup {None}]
  BY <1>4 DEF Base, TypeOK
<1> HIDE DEF c
<1> QED
  BY <1>1, <1>3, <1>4, <1>5, ReadKeepsBase

LEMMA PublishBase ==
  ASSUME Base, NEW t \in Threads, Publish(t)
  PROVE  Base'
<1> DEFINE c == call[t]
           e == [val |-> c.val, created |-> now]
<1>1. c \in Call /\ c.val \in Result /\ pc[t] = "publish" /\ now \in 0..MaxTime
  BY DEF Publish, Base, InCall, TypeOK
<1>2. e \in Entry /\ c.key \in Epochs /\ ProcOf[t] \in Procs
  BY <1>1, Bounds DEF Entry, Call
<1>3. /\ cache' = [cache EXCEPT ![ProcOf[t]][c.key] = e] /\ SharedPut(c.key, c.val)
      /\ Serve(t, c, c.val) /\ UNCHANGED <<mem, since, changes, now, epoch, wrote>>
  BY DEF Publish
<1>4. cache' \in [Procs -> [Epochs -> Entry \cup {None}]]
  <2>1. cache \in [Procs -> [Epochs -> Entry \cup {None}]]
    BY DEF Base, TypeOK
  <2> HIDE DEF e, c
  <2> QED
    BY <1>2, <1>3, <2>1
<1>5. shared' \in [Epochs -> Result \cup {None}]
  BY <1>1, <1>2, <1>3 DEF SharedPut, Base, TypeOK
<1>6. served' \in Call
  BY <1>1, <1>3 DEF Serve, Call
<1> QED
  BY <1>1, <1>3, <1>4, <1>5, <1>6, ReadKeepsBase DEF Serve

LEMMA BeginBase ==
  ASSUME Base, NEW t \in Threads, BeginStore(t) \/ BeginUpdate(t)
  PROVE  Base'
<1>0. /\ changes \in Nat /\ MaxChanges \in Nat /\ Epochs = 0..MaxChanges
      /\ IsFiniteSet(Writers) /\ Cardinality(Writers) \in Nat /\ ProcOf[t] \in Procs
      /\ mem \in [Projects -> 0..MaxChanges] /\ epoch \in [Procs -> Epochs]
      /\ pc \in [Threads -> Places] /\ call \in [Threads -> Call \cup {None}]
      /\ cache \in [Procs -> [Epochs -> Entry \cup {None}]]
      /\ shared \in [Epochs -> Result \cup {None}] /\ now \in 0..MaxTime
  BY Bounds DEF Base, TypeOK, Places, Epochs
<1> DEFINE C(d) == [db |-> d, key |-> 0, floor |-> 0, val |-> None, at |-> now]
<1>1. PICK d \in Projects, l \in {"store", "update"} : BeginWrite(t, d, l)
  BY DEF BeginStore, BeginUpdate
<1>2. /\ pc[t] = "idle" /\ changes < MaxChanges /\ changes' = changes + 1
      /\ pc' = [pc EXCEPT ![t] = l] /\ call' = [call EXCEPT ![t] = C(d)]
      /\ served' = None /\ UNCHANGED <<mem, since, now, wrote>>
  BY <1>1 DEF BeginWrite, NothingServed
<1>3. C(d) \in Call
  BY <1>0 DEF Call, Epochs
<1>4. /\ \A p \in Procs : epoch'[p] \in Epochs /\ epoch'[p] <= changes'
      /\ epoch' \in [Procs -> Epochs]
      /\ cache' \in [Procs -> [Epochs -> Entry \cup {None}]]
      /\ shared' \in [Epochs -> Result \cup {None}]
  <2>1. \A p \in Procs : epoch[p] \in Epochs /\ epoch[p] <= changes
    BY <1>0 DEF Base, Begun
  <2>2. \/ /\ epoch' = [epoch EXCEPT ![ProcOf[t]] = @ + 1]
           /\ cache' = [cache EXCEPT ![ProcOf[t]] = [e \in Epochs |-> None]]
           /\ shared' = [e \in Epochs |-> None] \/ shared' = shared
        \/ UNCHANGED <<epoch, cache, shared>>
    BY DEF BeginStore, BeginUpdate, FlushOnWrite, SharedFlush
  <2>3. \A p \in Procs : epoch'[p] = epoch[p] \/ epoch'[p] = epoch[p] + 1
    BY <1>0, <2>2
  <2>4. \A p \in Procs : epoch'[p] \in Epochs /\ epoch'[p] <= changes'
    <3>1. /\ changes \in Nat /\ MaxChanges \in Nat /\ changes < MaxChanges
          /\ changes' = changes + 1 /\ Epochs = 0..MaxChanges
      BY <1>0, <1>2
    <3>2. \A p \in Procs : epoch[p] \in Nat /\ epoch[p] <= changes
      BY <2>1, <3>1
    <3> QED
      BY <2>3, <3>1, <3>2
  <2>5. epoch' \in [Procs -> Epochs]
    BY <1>0, <2>2, <2>4
  <2>6. cache' \in [Procs -> [Epochs -> Entry \cup {None}]]
    <3>1. cache \in [Procs -> [Epochs -> Entry \cup {None}]]
      BY <1>0
    <3>2. \/ cache' = [cache EXCEPT ![ProcOf[t]] = [e \in Epochs |-> None]]
          \/ cache' = cache
      BY <2>2
    <3> HIDE DEF C
    <3> QED
      BY <3>1, <3>2
  <2>7. shared' \in [Epochs -> Result \cup {None}]
    <3>1. shared' = [e \in Epochs |-> None] \/ shared' = shared
      BY <2>2
    <3> QED
      BY <1>0, <3>1
  <2> QED
    BY <2>4, <2>5, <2>6, <2>7
<1>5. pc' \in [Threads -> Places] /\ call' \in [Threads -> Call \cup {None}]
      /\ changes' \in 0..MaxChanges
  <2> HIDE DEF C
  <2> QED
    BY <1>0, <1>2, <1>3 DEF Places
<1>6. TypeOK'
  BY <1>2, <1>4, <1>5, Zenon DEF Base, TypeOK, Places
<1>7. Writers' = Writers \cup {t} /\ t \notin Writers
  BY <1>0, <1>2 DEF Writers
<1>8. Cardinality(Writers') = Cardinality(Writers) + 1
  BY <1>0, <1>7, FS_AddElement
<1>9. Begun'
  <2>1. \A e \in Projects : mem[e] \in Nat
    BY <1>0
  <2>2. \A e \in Projects : mem[e] + Cardinality(Writers) <= changes
    BY DEF Base, Begun
  <2>3. \A e \in Projects : mem'[e] + Cardinality(Writers') <= changes'
    BY <1>0, <1>2, <1>8, <2>1, <2>2
  <2> QED
    BY <1>2, <1>4, <2>3 DEF Base, Begun
<1>10. InCall'
  <2> HIDE DEF C
  <2> QED
    BY <1>0, <1>2, <1>3 DEF Base, InCall
<1> QED
  BY <1>6, <1>9, <1>10 DEF Base

LEMMA CommitBase ==
  ASSUME Base, NEW t \in Threads, Commit(t)
  PROVE  Base'
<1> DEFINE d == call[t].db
           p == ProcOf[t]
<1>0. /\ changes \in Nat /\ changes <= MaxChanges /\ MaxChanges \in Nat
      /\ IsFiniteSet(Writers) /\ Cardinality(Writers) \in Nat /\ p \in Procs
      /\ mem \in [Projects -> 0..MaxChanges] /\ now \in 0..MaxTime
      /\ since \in [Projects -> [0..MaxChanges -> 0..MaxTime]]
      /\ wrote \in [Procs -> [Projects -> 0..MaxChanges]]
      /\ pc \in [Threads -> Places] /\ call \in [Threads -> Call \cup {None}]
  BY Bounds DEF Base, TypeOK, Places
<1>1. /\ pc[t] \in {"store", "update"} /\ d \in Projects
      /\ pc' = [pc EXCEPT ![t] = "idle"] /\ call' = [call EXCEPT ![t] = None]
      /\ served' = None /\ UNCHANGED <<changes, now, epoch, cache, shared>>
  BY DEF Commit, NothingServed, Base, InCall, Call
<1>2. Writers' = Writers \ {t} /\ t \in Writers
  BY <1>0, <1>1 DEF Writers
<1>3. Cardinality(Writers') = Cardinality(Writers) - 1 /\ Cardinality(Writers') \in Nat
  <2>1. IsFiniteSet(Writers \ {t}) /\ Cardinality(Writers \ {t}) = Cardinality(Writers) - 1
    BY <1>0, <1>2, FS_RemoveElement
  <2> QED
    BY <1>2, <2>1, FS_CardinalityType
<1>4. \A e \in Projects : mem[e] \in Nat /\ mem[e] + Cardinality(Writers') + 1 <= changes
  <2>1. \A e \in Projects : mem[e] \in Nat /\ mem[e] + Cardinality(Writers) <= changes
    BY <1>0 DEF Base, Begun
  <2> QED
    BY <1>0, <1>3, <2>1
<1>5. mem[d] + 1 \in 0..MaxChanges
  <2>1. mem[d] \in Nat /\ mem[d] + Cardinality(Writers') + 1 <= changes
    BY <1>1, <1>4
  <2>2. /\ Cardinality(Writers') \in Nat /\ changes \in Nat
        /\ MaxChanges \in Nat /\ changes <= MaxChanges
    BY <1>0, <1>3
  <2> QED
    BY <2>1, <2>2
<1>6. pc' \in [Threads -> Places] /\ call' \in [Threads -> Call \cup {None}] /\ InCall'
  BY <1>0, <1>1 DEF Places, Base, InCall
<1> DEFINE n == mem[d] + 1
<1>7. \/ /\ mem' = [mem EXCEPT ![d] = n] /\ since' = [since EXCEPT ![d][n] = now]
         /\ wrote' = wrote \/ wrote' = [wrote EXCEPT ![p][d] = n]
      \/ UNCHANGED <<mem, since, wrote>>
  BY <1>0, <1>1 DEF Commit
<1>8. n \in 0..MaxChanges /\ n > mem[d] /\ n + Cardinality(Writers') <= changes
  <2>1. mem[d] \in Nat /\ mem[d] + Cardinality(Writers') + 1 <= changes
    BY <1>1, <1>4
  <2>2. n \in 0..MaxChanges /\ Cardinality(Writers') \in Nat /\ changes \in Nat
    BY <1>0, <1>3, <1>5
  <2>3. n = mem[d] + 1
    OBVIOUS
  <2> HIDE DEF n, d
  <2> QED
    BY <2>1, <2>2, <2>3
<1> HIDE DEF d, p, n
<1>9. /\ mem' \in [Projects -> 0..MaxChanges]
      /\ since' \in [Projects -> [0..MaxChanges -> 0..MaxTime]]
      /\ wrote' \in [Procs -> [Projects -> 0..MaxChanges]]
  <2>1. d \in Projects /\ p \in Procs /\ n \in 0..MaxChanges /\ now \in 0..MaxTime
    BY <1>0, <1>1, <1>8
  <2>2. mem' \in [Projects -> 0..MaxChanges]
    <3>1. mem \in [Projects -> 0..MaxChanges] /\ (mem' = [mem EXCEPT ![d] = n] \/ mem' = mem)
      BY <1>0, <1>7
    <3> QED
      BY <2>1, <3>1
  <2>3. since' \in [Projects -> [0..MaxChanges -> 0..MaxTime]]
    <3>1. /\ since \in [Projects -> [0..MaxChanges -> 0..MaxTime]]
          /\ since' = [since EXCEPT ![d][n] = now] \/ since' = since
      BY <1>0, <1>7
    <3> DEFINE V == 0..MaxChanges
               W == 0..MaxTime
    <3>2. since \in [Projects -> [V -> W]] /\ now \in W /\ n \in V
      BY <2>1, <3>1
    <3> HIDE DEF V, W
    <3>3. since' \in [Projects -> [V -> W]]
      BY <2>1, <3>1, <3>2
    <3> QED
      BY <3>3 DEF V, W
  <2>4. wrote' \in [Procs -> [Projects -> 0..MaxChanges]]
    <3>1. /\ wrote \in [Procs -> [Projects -> 0..MaxChanges]]
          /\ wrote' = [wrote EXCEPT ![p][d] = n] \/ wrote' = wrote
      BY <1>0, <1>7
    <3> QED
      BY <2>1, <3>1
  <2> QED
    BY <2>2, <2>3, <2>4
<1>10. \A e \in Projects : /\ mem'[e] \in Nat /\ mem'[e] + Cardinality(Writers') <= changes
                            /\ mem[e] <= mem'[e] /\ (e = d /\ mem' # mem => mem'[e] = n)
  <2>1. \A e \in Projects : mem[e] \in Nat /\ mem[e] + Cardinality(Writers') <= changes
    BY <1>0, <1>3, <1>4
  <2>2. \A e \in Projects : mem'[e] = mem[e] \/ (e = d /\ mem'[e] = n)
    BY <1>0, <1>7
  <2>3. n \in Nat
    BY <1>8
  <2>4. mem' # mem => mem' = [mem EXCEPT ![d] = n]
    BY <1>7
  <2>5. /\ n > mem[d] /\ n + Cardinality(Writers') <= changes /\ d \in Projects
        /\ mem \in [Projects -> 0..MaxChanges]
    BY <1>0, <1>1, <1>8
  <2> QED
    BY <2>1, <2>2, <2>3, <2>4, <2>5
<1>11. \A q \in Procs, e \in Projects : wrote'[q][e] <= mem'[e]
  <2>1. \A q \in Procs, e \in Projects : wrote[q][e] <= mem[e] /\ wrote[q][e] \in Nat
    BY <1>0 DEF Base, Begun
  <2>2. \A q \in Procs, e \in Projects :
          wrote'[q][e] = wrote[q][e] \/ (e = d /\ wrote'[q][e] = n /\ mem'[e] = n)
    <3>1. /\ wrote \in [Procs -> [Projects -> 0..MaxChanges]]
          /\ mem \in [Projects -> 0..MaxChanges] /\ p \in Procs /\ d \in Projects
      BY <1>0, <1>1
    <3>2. \/ mem' = [mem EXCEPT ![d] = n] /\ wrote' = [wrote EXCEPT ![p][d] = n]
          \/ wrote' = wrote
      BY <1>7
    <3> QED
      BY <3>1, <3>2
  <2>3. \A e \in Projects : mem[e] \in Nat
    BY <1>4
  <2>4. n \in Nat
    BY <1>8
  <2> QED
    BY <1>10, <2>1, <2>2, <2>3, <2>4
<1>12. TypeOK'
  BY <1>1, <1>6, <1>9, Zenon DEF Base, TypeOK, Places
<1>13. Begun'
  BY <1>1, <1>10, <1>11 DEF Base, Begun
<1> QED
  BY <1>6, <1>12, <1>13 DEF Base

LEMMA NextBase == Base /\ [Next]_vars => Base'
<1> SUFFICES ASSUME Base, [Next]_vars PROVE Base'
  OBVIOUS
<1>1. CASE Tick
  <2> USE DEF Tick, NothingServed
  <2>1. now' \in 0..MaxTime /\ served' = None
    BY <1>1, Bounds
  <2>2. TypeOK'
    BY <1>1, <2>1, Zenon DEF Base, TypeOK
  <2>3. Writers' = Writers
    BY <1>1 DEF Writers
  <2> QED
    BY <1>1, <2>2, <2>3 DEF Base, Begun, InCall
<1>2. CASE UNCHANGED vars
  <2> USE <1>2 DEF vars
  <2>1. TypeOK'
    BY DEF Base, TypeOK
  <2>2. Writers' = Writers
    BY DEF Writers
  <2> QED
    BY <2>1, <2>2 DEF Base, Begun, InCall
<1> QED
  BY <1>1, <1>2, RecallBase, ComputeBase, PublishBase, BeginBase, CommitBase DEF Next

-----------------------------------------------------------------------------
\* Result r was the newest, or had been for at most k, at time at.
Good(r, at, k) ==
  r.v <= mem[r.db] /\ (r.v < mem[r.db] => at <= since[r.db][r.v + 1] + k)

CacheAge ==
  \A p \in Procs, e \in Epochs : cache[p][e] # None =>
    cache[p][e].created <= now /\ Good(cache[p][e].val, cache[p][e].created, MaxRecall)

CallAge ==
  \A t \in Threads :
    /\ pc[t] \in {"compute", "publish"} => call[t].at <= now /\ now <= call[t].at + MaxRecall
    /\ pc[t] = "publish" => Good(call[t].val, call[t].at, 0)

ServedAge ==
  served # None => served.val \in Result /\ Good(served.val, served.at, Ttl + MaxRecall)

Ages == CacheAge /\ CallAge /\ ServedAge

\* What is stored is of its type.
LEMMA Stored ==
  ASSUME Base
  PROVE  /\ \A p \in Procs, e \in Epochs : cache[p][e] # None =>
              /\ cache[p][e] \in Entry /\ cache[p][e].val \in Result
              /\ cache[p][e].created \in Nat
         /\ \A t \in Threads : pc[t] # "idle" =>
              call[t] \in Call /\ call[t].at \in Nat /\ call[t].db \in Projects
              /\ call[t].key \in Epochs
         /\ \A t \in Threads : pc[t] = "publish" => call[t].val \in Result
         /\ \A r \in Result : /\ r.v \in Nat /\ mem[r.db] \in Nat /\ r.db \in Projects
                              /\ r.v < mem[r.db] => since[r.db][r.v + 1] \in Nat
<1>1. \A p \in Procs, e \in Epochs : cache[p][e] \in Entry \cup {None}
  BY DEF Base, TypeOK
<1>2. \A x \in Entry : x.val \in Result /\ x.created \in Nat
  BY RecallAssumption DEF Entry
<1>3. \A c \in Call : c.at \in Nat /\ c.db \in Projects /\ c.key \in Epochs
  BY RecallAssumption DEF Call
<1>4. ASSUME NEW r \in Result
      PROVE  /\ r.v \in Nat /\ mem[r.db] \in Nat /\ r.db \in Projects
             /\ r.v < mem[r.db] => since[r.db][r.v + 1] \in Nat
  <2>1. r.v \in 0..MaxChanges /\ r.db \in Projects /\ MaxChanges \in Nat /\ MaxTime \in Nat
    BY RecallAssumption DEF Result
  <2>2. mem[r.db] \in 0..MaxChanges /\ since[r.db] \in [0..MaxChanges -> 0..MaxTime]
    BY <2>1 DEF Base, TypeOK
  <2>3. r.v < mem[r.db] => r.v + 1 \in 0..MaxChanges
    BY <2>1, <2>2
  <2>4. r.v < mem[r.db] => since[r.db][r.v + 1] \in 0..MaxTime
    BY <2>2, <2>3
  <2> QED
    BY <2>1, <2>2, <2>4
<1> QED
  BY <1>1, <1>2, <1>3, <1>4 DEF Base, InCall

LEMMA CommitAges ==
  ASSUME Base, NEW t \in Threads, Commit(t),
         NEW r \in Result, NEW at \in Nat, NEW k \in Nat, at <= now, Good(r, at, k)
  PROVE  Good(r, at, k)'
<1> DEFINE d == call[t].db
           n == mem[d] + 1
<1>1. /\ r.v \in Nat /\ mem[r.db] \in Nat /\ r.db \in Projects /\ now \in Nat
      /\ r.v < mem[r.db] => since[r.db][r.v + 1] \in Nat
  BY Stored, Bounds
<1>2. /\ d \in Projects /\ mem[d] \in 0..MaxChanges /\ mem \in [Projects -> 0..MaxChanges]
      /\ since \in [Projects -> [0..MaxChanges -> 0..MaxTime]]
  BY Stored, Bounds DEF Commit, Base, TypeOK
<1>3. \/ mem' = [mem EXCEPT ![d] = n] /\ since' = [since EXCEPT ![d][n] = now]
      \/ UNCHANGED <<mem, since>>
  BY <1>2 DEF Commit
<1>4. CASE UNCHANGED <<mem, since>>
  BY <1>4 DEF Good
<1>5. CASE mem' = [mem EXCEPT ![d] = n] /\ since' = [since EXCEPT ![d][n] = now]
  <2>1. CASE r.db # d
    <3>1. mem'[r.db] = mem[r.db] /\ since'[r.db] = since[r.db]
      <4> HIDE DEF d, n
      <4> QED
        BY <1>1, <1>2, <1>5, <2>1
    <3> QED
      BY <3>1 DEF Good
  <2>2. CASE r.db = d
    <3>1. n \in 0..MaxChanges
      BY <2>2, NextBase, <1>1, <1>2, <1>5, RecallAssumption DEF Next, Base, TypeOK
    <3>2. mem'[d] = n /\ since'[d] = [since[d] EXCEPT ![n] = now]
          /\ since[d] \in [0..MaxChanges -> 0..MaxTime]
      <4> HIDE DEF d, n
      <4> QED
        BY <1>2, <1>5
    <3>3. CASE r.v = mem[d]
      <4>1. r.v + 1 = n /\ r.v < n
        BY <1>1, <2>2, <3>3
      <4>2. since'[d][n] = now
        BY <3>1, <3>2
      <4>3. since'[r.db][r.v + 1] = now /\ mem'[r.db] = n
        <5>1. r.v + 1 = n /\ r.db = d /\ mem'[d] = n
          BY <2>2, <3>2, <4>1
        <5> HIDE DEF d, n
        <5> QED
          BY <4>2, <5>1
      <4> HIDE DEF n
      <4> QED
        BY <1>1, <4>1, <4>3 DEF Good
    <3>4. CASE r.v # mem[d]
      <4>1. r.v < mem[d] /\ r.v + 1 # n /\ r.v + 1 \in 0..MaxChanges
        <5>1. r.v \in Nat /\ r.v <= mem[d] /\ r.v # mem[d]
          BY <1>1, <2>2, <3>4 DEF Good
        <5>2. mem[d] \in 0..MaxChanges /\ MaxChanges \in Nat
          BY <1>2, RecallAssumption
        <5>3. n = mem[d] + 1
          OBVIOUS
        <5> HIDE DEF d, n
        <5> QED
          BY <5>1, <5>2, <5>3
      <4>2. since'[d][r.v + 1] = since[d][r.v + 1]
        BY <3>2, <4>1
      <4>3. r.v <= n /\ at <= since[d][r.v + 1] + k
        BY <1>1, <2>2, <4>1 DEF Good
      <4>4. mem'[r.db] = n /\ since'[r.db][r.v + 1] = since[r.db][r.v + 1]
        BY <2>2, <3>2, <4>2
      <4> HIDE DEF d, n
      <4> QED
        BY <2>2, <4>3, <4>4 DEF Good
    <3> QED
      BY <3>3, <3>4
  <2> QED
    BY <2>1, <2>2
<1> QED
  BY <1>3, <1>4, <1>5

\* A step that commits nothing and serves nothing.
LEMMA SilentAges ==
  ASSUME Base, Ages, UNCHANGED <<mem, since, now>>, served' = None,
         \A p \in Procs, e \in Epochs : cache'[p][e] # None => cache'[p][e] = cache[p][e],
         \A t \in Threads :
           /\ pc'[t] \in {"compute", "publish"} =>
                \/ pc[t] \in {"compute", "publish"} /\ call'[t].at = call[t].at
                \/ call'[t].at = now
           /\ pc'[t] = "publish" =>
                \/ pc[t] = "publish" /\ call'[t] = call[t]
                \/ Good(call'[t].val, call'[t].at, 0)
  PROVE  Ages'
<1>1. CacheAge'
  BY DEF Ages, CacheAge, Good
<1>2. CallAge'
  <2>1. now + MaxRecall >= now /\ now \in Nat
    BY Bounds
  <2>2. ASSUME NEW t \in Threads, pc'[t] \in {"compute", "publish"}
        PROVE  call'[t].at <= now /\ now <= call'[t].at + MaxRecall
    BY <2>1, <2>2 DEF Ages, CallAge
  <2>3. ASSUME NEW t \in Threads, pc'[t] = "publish" PROVE Good(call'[t].val, call'[t].at, 0)
    BY <2>3 DEF Ages, CallAge
  <2> QED
    BY <2>2, <2>3 DEF CallAge, Good
<1>3. ServedAge'
  BY DEF ServedAge
<1> QED
  BY <1>1, <1>2, <1>3 DEF Ages

LEMMA RecallAges ==
  ASSUME Base, Ages, NEW t \in Threads, Recall(t)
  PROVE  Ages'
<1> DEFINE p == ProcOf[t]
           key == epoch[p]
           near == cache[p][key]
           C(d) == [db |-> d, key |-> key, floor |-> wrote[p][d], val |-> None, at |-> now]
<1>1. /\ p \in Procs /\ key \in Epochs /\ cache \in [Procs -> [Epochs -> Entry \cup {None}]]
      /\ pc \in [Threads -> Places] /\ call \in [Threads -> Call \cup {None}]
      /\ UNCHANGED <<mem, since, now>> /\ now \in Nat
  BY Bounds DEF Recall, Base, TypeOK, Places
<1>2. PICK d \in Projects :
        \/ /\ Fresh(near) /\ Serve(t, C(d), near.val) /\ cache' = cache
        \/ /\ cache' = [cache EXCEPT ![p][key] = None]
           /\ call' = [call EXCEPT ![t] = C(d)]
           /\ pc' = [pc EXCEPT ![t] = "compute"] /\ served' = None
  BY DEF Recall, Key, Accept, NothingServed
<1>3. C(d).at = now
  OBVIOUS
<1>4. CASE Fresh(near) /\ Serve(t, C(d), near.val) /\ cache' = cache
  <2>1. /\ near # None /\ near.val \in Result /\ near.created \in Nat
        /\ Good(near.val, near.created, MaxRecall)
        /\ near.created <= now /\ now - near.created <= Ttl
    BY <1>1, <1>4, Stored DEF Fresh, Ages, CacheAge
  <2>2. /\ near.val.v \in Nat /\ mem[near.val.db] \in Nat
        /\ near.val.v < mem[near.val.db] => since[near.val.db][near.val.v + 1] \in Nat
    BY <2>1, Stored
  <2>3. Good(near.val, now, Ttl + MaxRecall)
    <3> DEFINE r == near.val
               s == since[r.db][r.v + 1]
    <3>1. r.v <= mem[r.db] /\ (r.v < mem[r.db] => near.created <= s + MaxRecall)
      BY <2>1 DEF Good
    <3>2. r.v < mem[r.db] => s \in Nat
      BY <2>2
    <3>3. near.created \in Nat /\ now \in Nat /\ now - near.created <= Ttl
          /\ Ttl \in Nat /\ MaxRecall \in Nat
      BY <1>1, <2>1, Bounds
    <3>4. r.v < mem[r.db] => now <= s + (Ttl + MaxRecall)
      <4> HIDE DEF s, r, near
      <4> QED
        BY <3>1, <3>2, <3>3
    <3> QED
      BY <3>1, <3>4 DEF Good
  <2>4. served'.val = near.val /\ served'.at = now
    BY <1>4 DEF Serve
  <2>5. ServedAge'
    BY <1>1, <2>1, <2>3, <2>4 DEF ServedAge, Good
  <2>6. CacheAge'
    BY <1>1, <1>4 DEF Ages, CacheAge, Good
  <2>7. pc' = [pc EXCEPT ![t] = "idle"] /\ call' = [call EXCEPT ![t] = None]
    BY <1>4 DEF Serve
  <2>8. CallAge'
    BY <1>1, <2>7 DEF Ages, CallAge, Good, Places
  <2> QED
    BY <2>5, <2>6, <2>8 DEF Ages
<1>5. CASE /\ cache' = [cache EXCEPT ![p][key] = None]
           /\ call' = [call EXCEPT ![t] = C(d)]
           /\ pc' = [pc EXCEPT ![t] = "compute"] /\ served' = None
  <2> HIDE DEF C
  <2>1. \A q \in Procs, e \in Epochs : cache'[q][e] # None => cache'[q][e] = cache[q][e]
    BY <1>1, <1>5
  <2>2. \A s \in Threads : \/ pc'[s] = pc[s] /\ call'[s] = call[s]
                           \/ pc'[s] = "compute" /\ call'[s].at = now
    BY <1>1, <1>3, <1>5
  <2> QED
    BY <1>1, <1>5, <2>1, <2>2, SilentAges
<1> QED
  BY <1>2, <1>4, <1>5

LEMMA ComputeAges ==
  ASSUME Base, Ages, NEW t \in Threads, Compute(t)
  PROVE  Ages'
<1> DEFINE d == call[t].db
           r == [db |-> d, v |-> mem[d]]
<1>1. /\ pc \in [Threads -> Places] /\ call \in [Threads -> Call \cup {None}]
      /\ pc[t] = "compute" /\ pc' = [pc EXCEPT ![t] = "publish"]
      /\ call' = [call EXCEPT ![t].val = r] /\ served' = None
      /\ UNCHANGED <<mem, since, now, cache>>
  BY DEF Compute, NothingServed, Base, TypeOK, Places
<1>2. call[t] \in Call /\ d \in Projects /\ mem[d] \in Nat
  BY <1>1, Stored, Bounds
<1>3. call'[t].at = call[t].at /\ call'[t].val = r
  BY <1>1, <1>2 DEF Call
<1>4. r.v <= mem[r.db] /\ ~(r.v < mem[r.db])
  BY <1>2
<1>5. Good(call'[t].val, call'[t].at, 0)
  BY <1>3, <1>4 DEF Good
<1> HIDE DEF r, d
<1>6. \A s \in Threads : s # t => pc'[s] = pc[s] /\ call'[s] = call[s]
  BY <1>1
<1> QED
  BY <1>1, <1>3, <1>5, <1>6, SilentAges

LEMMA PublishAges ==
  ASSUME Base, Ages, NEW t \in Threads, Publish(t)
  PROVE  Ages'
<1> DEFINE c == call[t]
           p == ProcOf[t]
           x == [val |-> c.val, created |-> now]
<1>1. /\ pc \in [Threads -> Places] /\ call \in [Threads -> Call \cup {None}]
      /\ cache \in [Procs -> [Epochs -> Entry \cup {None}]]
      /\ UNCHANGED <<mem, since, now>> /\ now \in Nat
      /\ pc[t] = "publish" /\ cache' = [cache EXCEPT ![p][c.key] = x] /\ p \in Procs
  BY Bounds DEF Publish, Base, TypeOK, Places
<1>2. /\ c \in Call /\ c.key \in Epochs /\ c.at \in Nat /\ c.val \in Result
      /\ c.at <= now /\ now <= c.at + MaxRecall /\ Good(c.val, c.at, 0)
  BY <1>1, Stored DEF Ages, CallAge
<1>3. /\ pc' = [pc EXCEPT ![t] = "idle"] /\ call' = [call EXCEPT ![t] = None]
      /\ served'.val = c.val /\ served'.at = now
  BY DEF Publish, Serve
<1>4. Good(c.val, now, MaxRecall) /\ Good(c.val, now, Ttl + MaxRecall)
  <2> DEFINE r == c.val
             s == since[r.db][r.v + 1]
  <2>1. r.v <= mem[r.db] /\ (r.v < mem[r.db] => c.at <= s + 0)
    BY <1>2 DEF Good
  <2>2. r.v < mem[r.db] => s \in Nat
    BY <1>2, Stored
  <2>3. /\ now \in Nat /\ c.at \in Nat /\ now <= c.at + MaxRecall
        /\ Ttl \in Nat /\ MaxRecall \in Nat
    BY <1>1, <1>2, Bounds
  <2>4. r.v < mem[r.db] => now <= s + MaxRecall /\ now <= s + (Ttl + MaxRecall)
    <3> HIDE DEF s, r, c
    <3> QED
      BY <2>1, <2>2, <2>3
  <2> QED
    BY <2>1, <2>4 DEF Good
<1>5. ServedAge'
  BY <1>1, <1>2, <1>3, <1>4 DEF ServedAge, Good
<1>6. x.created = now /\ x.val = c.val
  OBVIOUS
<1>7. CacheAge'
  <2> HIDE DEF x, c, p
  <2>1. \A q \in Procs, e \in Epochs : cache'[q][e] = cache[q][e] \/ cache'[q][e] = x
    BY <1>1, <1>2
  <2>2. x.created <= now' /\ Good(x.val, x.created, MaxRecall)
    BY <1>1, <1>4, <1>6
  <2>3. \A q \in Procs, e \in Epochs : cache'[q][e] # None =>
          cache'[q][e].created <= now /\ Good(cache'[q][e].val, cache'[q][e].created, MaxRecall)
    BY <1>1, <2>1, <2>2 DEF Ages, CacheAge
  <2> QED
    BY <1>1, <2>3 DEF CacheAge, Good
<1>8. CallAge'
  BY <1>1, <1>3 DEF Ages, CallAge, Good, Places
<1> QED
  BY <1>5, <1>7, <1>8 DEF Ages

LEMMA BeginAges ==
  ASSUME Base, Ages, NEW t \in Threads, BeginStore(t) \/ BeginUpdate(t)
  PROVE  Ages'
<1>1. PICK d \in Projects, l \in {"store", "update"} : BeginWrite(t, d, l)
  BY DEF BeginStore, BeginUpdate
<1>2. /\ pc' = [pc EXCEPT ![t] = l] /\ served' = None /\ UNCHANGED <<mem, since, now>>
      /\ \A s \in Threads : s # t => call'[s] = call[s]
      /\ pc \in [Threads -> Places]
  BY <1>1 DEF BeginWrite, NothingServed, Base, TypeOK, Places
<1>3. \A p \in Procs, e \in Epochs : cache'[p][e] # None => cache'[p][e] = cache[p][e]
  <2>1. /\ cache \in [Procs -> [Epochs -> Entry \cup {None}]]
        /\ cache' = [cache EXCEPT ![ProcOf[t]] = [e \in Epochs |-> None]] \/ cache' = cache
    BY DEF BeginStore, BeginUpdate, FlushOnWrite, Base, TypeOK
  <2> QED
    BY <2>1
<1>4. \A s \in Threads : pc'[s] \in {"compute", "publish"} =>
                           pc'[s] = pc[s] /\ call'[s] = call[s]
  BY <1>2
<1> QED
  BY <1>2, <1>3, <1>4, SilentAges

LEMMA CommitKeepsAges ==
  ASSUME Base, Ages, NEW t \in Threads, Commit(t)
  PROVE  Ages'
<1>1. /\ pc' = [pc EXCEPT ![t] = "idle"] /\ pc \in [Threads -> Places]
      /\ call' = [call EXCEPT ![t] = None] /\ call \in [Threads -> Call \cup {None}]
      /\ served' = None /\ UNCHANGED <<now, cache>>
  BY DEF Commit, NothingServed, Base, TypeOK, Places
<1>2. MaxRecall \in Nat /\ 0 \in Nat
  BY Bounds
<1>3. ASSUME NEW p \in Procs, NEW e \in Epochs, cache[p][e] # None
      PROVE  Good(cache[p][e].val, cache[p][e].created, MaxRecall)' /\ cache[p][e].created <= now
  <2> DEFINE r == cache[p][e].val
             at == cache[p][e].created
  <2>1. r \in Result /\ at \in Nat /\ at <= now /\ Good(r, at, MaxRecall)
    BY <1>3, Stored DEF Ages, CacheAge
  <2>2. r' = r /\ at' = at
    BY <1>1
  <2> HIDE DEF r, at
  <2>3. Good(r, at, MaxRecall)'
    <3>1. \A x \in Result, y \in Nat : y <= now /\ Good(x, y, MaxRecall) =>
            /\ x.v <= mem'[x.db]
            /\ x.v < mem'[x.db] => y <= since'[x.db][x.v + 1] + MaxRecall
      BY <1>2, CommitAges DEF Good
    <3> QED
      BY <2>1, <2>2, <3>1 DEF Good
  <2> QED
    BY <2>1, <2>3 DEF r, at
<1>4. CacheAge'
  BY <1>1, <1>3 DEF CacheAge
<1>5. \A s \in Threads : pc'[s] \in {"compute", "publish"} =>
                           pc'[s] = pc[s] /\ call'[s] = call[s]
  BY <1>1
<1>6. ASSUME NEW s \in Threads, pc'[s] = "publish" PROVE Good(call[s].val, call[s].at, 0)'
  <2>1. /\ call[s].val \in Result /\ call[s].at \in Nat /\ call[s].at <= now
        /\ Good(call[s].val, call[s].at, 0) /\ call'[s] = call[s]
    BY <1>5, <1>6, Stored DEF Ages, CallAge
  <2>2. \A x \in Result, y \in Nat : y <= now /\ Good(x, y, 0) =>
          /\ x.v <= mem'[x.db]
          /\ x.v < mem'[x.db] => y <= since'[x.db][x.v + 1] + 0
    BY <1>2, CommitAges DEF Good
  <2> QED
    BY <2>1, <2>2 DEF Good
<1>7. CallAge'
  BY <1>1, <1>5, <1>6 DEF Ages, CallAge
<1>8. ServedAge'
  BY <1>1 DEF ServedAge
<1> QED
  BY <1>4, <1>7, <1>8 DEF Ages

LEMMA TickAges ==
  ASSUME Base, Ages, Tick
  PROVE  Ages'
<1>1. /\ now' = now + 1 /\ served' = None /\ UNCHANGED <<mem, since, cache, pc, call>>
      /\ now \in Nat /\ MaxRecall \in Nat
  BY Bounds DEF Tick, NothingServed
<1>2. CacheAge'
  <2>1. \A p \in Procs, e \in Epochs : cache[p][e] # None =>
          /\ cache[p][e].created \in Nat /\ cache[p][e].created <= now
          /\ Good(cache[p][e].val, cache[p][e].created, MaxRecall)
    BY Stored DEF Ages, CacheAge
  <2>2. \A n \in Nat : n <= now => n <= now'
    BY <1>1
  <2> QED
    BY <1>1, <2>1, <2>2 DEF CacheAge, Good
<1>3. CallAge'
  <2>1. ASSUME NEW t \in Threads, pc[t] \in {"compute", "publish"}
        PROVE  call[t].at <= now + 1 /\ now + 1 <= call[t].at + MaxRecall
    <3>1. call[t].at \in Nat /\ call[t].at <= now
      BY <2>1, Stored DEF Ages, CallAge
    <3>2. now - call[t].at < MaxRecall
      BY <2>1 DEF Tick
    <3> QED
      BY <1>1, <3>1, <3>2
  <2> QED
    BY <1>1, <2>1 DEF Ages, CallAge, Good
<1> QED
  BY <1>1, <1>2, <1>3 DEF Ages, ServedAge

LEMMA NextAges == Base /\ Ages /\ [Next]_vars => Ages'
<1> SUFFICES ASSUME Base, Ages, [Next]_vars PROVE Ages'
  OBVIOUS
<1>1. CASE UNCHANGED vars
  BY <1>1 DEF vars, Ages, CacheAge, CallAge, ServedAge, Good
<1> QED
  BY <1>1, RecallAges, ComputeAges, PublishAges, BeginAges, CommitKeepsAges, TickAges DEF Next

\* Type correctness, whatever the processes, their threads and the databases.
THEOREM TypeCorrect == Spec => []TypeOK
<1>1. Init => Base
  BY InitBase
<1>2. Base /\ [Next]_vars => Base'
  BY NextBase
<1>3. Base => TypeOK
  BY DEF Base
<1> QED
  BY <1>1, <1>2, <1>3, PTL DEF Spec

\* What recall returns was current at most one ttl and one recall ago: an entry
\* ages from its insertion, however often it is hit and whoever else writes.
THEOREM StaleBounded == Spec => []StaleAtMostTtl
<1>1. Init => Base /\ Ages
  <2>1. Init => Ages
    BY DEF Init, Ages, CacheAge, CallAge, ServedAge
  <2> QED
    BY <2>1, InitBase
<1>2. Base /\ Ages /\ [Next]_vars => (Base /\ Ages)'
  BY NextBase, NextAges
<1>3. Base /\ Ages => StaleAtMostTtl
  <2> SUFFICES ASSUME Base, Ages PROVE StaleAtMostTtl
    OBVIOUS
  <2>1. TypeOK
    BY DEF Base
  <2>2. ASSUME served # None, served.val.v < mem[served.val.db]
        PROVE  served.at <= since[served.val.db][served.val.v + 1] + Ttl + MaxRecall
    <3> DEFINE s == since[served.val.db][served.val.v + 1]
    <3>1. served.val \in Result /\ served.at <= s + (Ttl + MaxRecall)
      BY <2>2 DEF Ages, ServedAge, Good
    <3>2. s \in Nat /\ Ttl \in Nat /\ MaxRecall \in Nat
      BY <2>2, <3>1, Stored, Bounds
    <3> HIDE DEF s
    <3>3. s + (Ttl + MaxRecall) = s + Ttl + MaxRecall
      BY <3>2
    <3> QED
      BY <3>1, <3>3 DEF s
  <2> QED
    BY <2>1, <2>2 DEF StaleAtMostTtl
<1> QED
  BY <1>1, <1>2, <1>3, PTL DEF Spec

-----------------------------------------------------------------------------
OneThreadEach == \A s, t \in Threads : ProcOf[s] = ProcOf[t] => s = t

\* Result r misses nothing that process p itself committed through a flush.
Own(r, p) == r.v >= wrote[p][r.db]

CacheOwn ==
  /\ \A p \in Procs, e \in Epochs : cache[p][e] # None => Own(cache[p][e].val, p)
  /\ \A t \in Threads, e \in Epochs : pc[t] = "store" => cache[ProcOf[t]][e] = None

CallOwn ==
  \A t \in Threads :
    /\ pc[t] \in {"compute", "publish"} => call[t].floor <= wrote[ProcOf[t]][call[t].db]
    /\ pc[t] = "publish" => call[t].val.db = call[t].db /\ Own(call[t].val, ProcOf[t])

Owns == CacheOwn /\ CallOwn /\ OwnWritesSeen

LEMMA OwnTypes ==
  ASSUME Base
  PROVE  /\ pc \in [Threads -> Places] /\ call \in [Threads -> Call \cup {None}]
         /\ cache \in [Procs -> [Epochs -> Entry \cup {None}]]
         /\ wrote \in [Procs -> [Projects -> 0..MaxChanges]]
         /\ \A p \in Procs, d \in Projects :
              wrote[p][d] \in Nat /\ mem[d] \in Nat /\ wrote[p][d] <= mem[d]
         /\ \A c \in Call : c.floor \in Nat /\ c.db \in Projects
<1>1. MaxChanges \in Nat /\ wrote \in [Procs -> [Projects -> 0..MaxChanges]]
      /\ mem \in [Projects -> 0..MaxChanges]
  BY RecallAssumption DEF Base, TypeOK
<1>2. \A p \in Procs, d \in Projects : wrote[p][d] \in Nat /\ mem[d] \in Nat
  BY <1>1
<1>3. \A c \in Call : c.floor \in Nat /\ c.db \in Projects
  BY <1>1 DEF Call
<1> QED
  BY <1>1, <1>2, <1>3 DEF Base, TypeOK, Begun, Places

LEMMA RecallOwns ==
  ASSUME Base, Owns, NEW t \in Threads, Recall(t)
  PROVE  Owns'
<1> DEFINE p == ProcOf[t]
           key == epoch[p]
           near == cache[p][key]
           C(d) == [db |-> d, key |-> key, floor |-> wrote[p][d], val |-> None, at |-> now]
<1>1. /\ p \in Procs /\ key \in Epochs /\ wrote' = wrote /\ pc[t] = "idle"
  BY Bounds DEF Recall, Base, TypeOK
<1>2. PICK d \in Projects :
        \/ /\ Fresh(near) /\ Serve(t, C(d), near.val) /\ cache' = cache
        \/ /\ cache' = [cache EXCEPT ![p][key] = None]
           /\ call' = [call EXCEPT ![t] = C(d)]
           /\ pc' = [pc EXCEPT ![t] = "compute"] /\ served' = None
  BY DEF Recall, Key, Accept, NothingServed
<1>3. C(d).floor = wrote[p][d] /\ C(d).db = d /\ wrote[p][d] \in Nat
  BY <1>1, OwnTypes
<1>4. CASE Fresh(near) /\ Serve(t, C(d), near.val) /\ cache' = cache
  <2>1. near # None /\ Own(near.val, p)
    BY <1>1, <1>4 DEF Fresh, Owns, CacheOwn
  <2>2. served'.val = near.val /\ served'.db = d /\ served'.floor = wrote[p][d]
    BY <1>4 DEF Serve
  <2>3. OwnWritesSeen'
    BY <1>1, <2>1, <2>2 DEF OwnWritesSeen, Own
  <2>4. pc' = [pc EXCEPT ![t] = "idle"] /\ call' = [call EXCEPT ![t] = None]
    BY <1>4 DEF Serve
  <2>5. CallOwn'
    BY <1>1, <2>4, OwnTypes DEF Owns, CallOwn, Own, Places
  <2>6. CacheOwn'
    BY <1>1, <1>4, <2>4, OwnTypes DEF Owns, CacheOwn, Own, Places
  <2> QED
    BY <2>3, <2>5, <2>6 DEF Owns
<1>5. CASE /\ cache' = [cache EXCEPT ![p][key] = None]
           /\ call' = [call EXCEPT ![t] = C(d)]
           /\ pc' = [pc EXCEPT ![t] = "compute"] /\ served' = None
  <2> HIDE DEF C
  <2>1. \A q \in Procs, e \in Epochs : cache'[q][e] = cache[q][e] \/ cache'[q][e] = None
    BY <1>1, <1>5, OwnTypes
  <2>2. \A s \in Threads : \/ pc'[s] = pc[s] /\ call'[s] = call[s]
                           \/ s = t /\ pc'[s] = "compute" /\ call'[s] = C(d)
    BY <1>5, OwnTypes
  <2>3. \A s \in Threads : ProcOf[s] \in Procs
    BY Bounds
  <2>4. CacheOwn'
    BY <1>1, <2>1, <2>2, <2>3 DEF Owns, CacheOwn, Own
  <2>5. C(d).floor <= wrote[p][C(d).db]
    BY <1>3
  <2>6. CallOwn'
    BY <1>1, <2>2, <2>5 DEF Owns, CallOwn, Own
  <2> QED
    BY <1>5, <2>4, <2>6 DEF Owns, OwnWritesSeen
<1> QED
  BY <1>2, <1>4, <1>5

LEMMA ComputeOwns ==
  ASSUME Base, Owns, NEW t \in Threads, Compute(t)
  PROVE  Owns'
<1> DEFINE d == call[t].db
           r == [db |-> d, v |-> mem[d]]
<1>1. /\ pc[t] = "compute" /\ pc' = [pc EXCEPT ![t] = "publish"]
      /\ call' = [call EXCEPT ![t].val = r] /\ served' = None
      /\ UNCHANGED <<cache, wrote>>
  BY DEF Compute, NothingServed
<1>2. call[t] \in Call /\ d \in Projects /\ ProcOf[t] \in Procs
  BY <1>1, Stored, Bounds
<1>3. r.db = d /\ Own(r, ProcOf[t])
  BY <1>2, OwnTypes DEF Own
<1>4. call'[t].db = d /\ call'[t].floor = call[t].floor /\ call'[t].val = r
  BY <1>1, <1>2, OwnTypes DEF Call
<1> HIDE DEF r
<1>5. pc'[t] = "publish" /\ \A s \in Threads : s # t => pc'[s] = pc[s] /\ call'[s] = call[s]
  BY <1>1, OwnTypes
<1>6. CallOwn'
  BY <1>1, <1>3, <1>4, <1>5 DEF Owns, CallOwn, Own
<1>7. CacheOwn'
  BY <1>1, <1>5 DEF Owns, CacheOwn, Own
<1> QED
  BY <1>1, <1>6, <1>7 DEF Owns, OwnWritesSeen

LEMMA PublishOwns ==
  ASSUME OneThreadEach, Base, Owns, NEW t \in Threads, Publish(t)
  PROVE  Owns'
<1> DEFINE c == call[t]
           p == ProcOf[t]
           x == [val |-> c.val, created |-> now]
<1>1. /\ pc[t] = "publish" /\ cache' = [cache EXCEPT ![p][c.key] = x]
      /\ p \in Procs /\ wrote' = wrote
  BY Bounds DEF Publish
<1>2. c \in Call /\ c.floor \in Nat /\ c.db \in Projects /\ c.floor <= wrote[p][c.db]
      /\ c.val.db = c.db /\ Own(c.val, p) /\ c.val \in Result /\ c.key \in Epochs
  BY <1>1, Stored, OwnTypes DEF Owns, CallOwn
<1>3. /\ pc' = [pc EXCEPT ![t] = "idle"] /\ call' = [call EXCEPT ![t] = None]
      /\ served' = [c EXCEPT !.val = c.val, !.at = now]
  BY DEF Publish, Serve
<1>4. served'.val = c.val /\ served'.db = c.db /\ served'.floor = c.floor
  BY <1>2, <1>3 DEF Call
<1>5. OwnWritesSeen'
  <2>1. c.val.v \in Nat /\ wrote[p][c.db] \in Nat
    BY <1>1, <1>2, Stored, OwnTypes
  <2> QED
    BY <1>2, <1>4, <2>1 DEF OwnWritesSeen, Own
<1>6. \A s \in Threads : (s # t => pc'[s] = pc[s] /\ call'[s] = call[s]) /\ pc'[t] = "idle"
  BY <1>3, OwnTypes
<1>7. x.val = c.val
  OBVIOUS
<1> HIDE DEF x, c
<1>8. CacheOwn'
  <2>1. \A q \in Procs, e \in Epochs :
          cache'[q][e] = cache[q][e] \/ (q = p /\ cache'[q][e] = x)
    BY <1>1, <1>2, OwnTypes
  <2>2. \A s \in Threads : pc'[s] = "store" => ProcOf[s] \in Procs /\ ProcOf[s] # p
    BY <1>6, Bounds DEF OneThreadEach
  <2>3. \A s \in Threads : pc'[s] = "store" => pc[s] = "store"
    BY <1>6
  <2>4. \A s \in Threads, e \in Epochs : pc'[s] = "store" => cache'[ProcOf[s]][e] = None
    BY <2>1, <2>2, <2>3 DEF Owns, CacheOwn
  <2>5. \A q \in Procs, e \in Epochs : cache'[q][e] # None => Own(cache'[q][e].val, q)
    BY <1>2, <1>7, <2>1 DEF Owns, CacheOwn
  <2> QED
    BY <1>1, <2>4, <2>5 DEF CacheOwn, Own
<1>9. CallOwn'
  BY <1>1, <1>6 DEF Owns, CallOwn, Own
<1> QED
  BY <1>5, <1>8, <1>9 DEF Owns

LEMMA BeginOwns ==
  ASSUME Base, Owns, NEW t \in Threads, BeginStore(t) \/ BeginUpdate(t)
  PROVE  Owns'
<1>1. \/ /\ \E d \in Projects : BeginWrite(t, d, "store")
         /\ cache' = [cache EXCEPT ![ProcOf[t]] = [e \in Epochs |-> None]]
      \/ /\ \E d \in Projects : BeginWrite(t, d, "update")
         /\ cache' = cache
  BY DEF BeginStore, BeginUpdate, FlushOnWrite
<1>2. PICK l \in {"store", "update"} :
        /\ pc' = [pc EXCEPT ![t] = l]
        /\ \/ l = "store" /\ cache' = [cache EXCEPT ![ProcOf[t]] = [e \in Epochs |-> None]]
           \/ l = "update" /\ cache' = cache
  BY <1>1 DEF BeginWrite
<1>3. /\ served' = None /\ wrote' = wrote
      /\ \A s \in Threads : s # t => call'[s] = call[s]
  BY <1>1, OwnTypes DEF BeginWrite, NothingServed
<1>4. /\ pc'[t] = l /\ \A s \in Threads : s # t => pc'[s] = pc[s]
      /\ ProcOf[t] \in Procs
      /\ \A s \in Threads : ProcOf[s] \in Procs
  BY <1>2, OwnTypes, Bounds
<1>5. /\ \A q \in Procs, e \in Epochs : cache'[q][e] = cache[q][e] \/ cache'[q][e] = None
      /\ l = "store" => \A e \in Epochs : cache'[ProcOf[t]][e] = None
  <2>1. cache \in [Procs -> [Epochs -> Entry \cup {None}]] /\ ProcOf[t] \in Procs
    BY <1>4, OwnTypes
  <2>2. CASE cache' = cache /\ l = "update"
    BY <2>2
  <2>3. CASE cache' = [cache EXCEPT ![ProcOf[t]] = [e \in Epochs |-> None]]
    BY <2>1, <2>3
  <2> QED
    BY <1>2, <2>2, <2>3
<1>6. CacheOwn'
  BY <1>3, <1>4, <1>5 DEF Owns, CacheOwn, Own
<1>7. CallOwn'
  BY <1>3, <1>4 DEF Owns, CallOwn, Own
<1> QED
  BY <1>3, <1>6, <1>7 DEF Owns, OwnWritesSeen

LEMMA CommitOwns ==
  ASSUME OneThreadEach, Base, Owns, NEW t \in Threads, Commit(t)
  PROVE  Owns'
<1> DEFINE d == call[t].db
           p == ProcOf[t]
<1>1. /\ pc[t] \in {"store", "update"} /\ pc' = [pc EXCEPT ![t] = "idle"]
      /\ call' = [call EXCEPT ![t] = None] /\ served' = None /\ cache' = cache
      /\ wrote' = wrote \/ (pc[t] = "store" /\ wrote' = [wrote EXCEPT ![p][d] = mem[d] + 1])
  BY DEF Commit, NothingServed
<1>2. d \in Projects /\ p \in Procs /\ \A s \in Threads : ProcOf[s] \in Procs
  BY <1>1, Stored, Bounds
<1>3. pc'[t] = "idle" /\ \A s \in Threads : s # t => pc'[s] = pc[s] /\ call'[s] = call[s]
  BY <1>1, OwnTypes
<1>4. \A q \in Procs : q # p \/ pc[t] # "store" => wrote'[q] = wrote[q]
  BY <1>1, OwnTypes
<1>5. \A s \in Threads : s # t => ProcOf[s] # p
  BY DEF OneThreadEach
<1> HIDE DEF p, d
<1>6. CacheOwn'
  <2>1. ASSUME NEW q \in Procs, NEW e \in Epochs, cache[q][e] # None
        PROVE  wrote'[q] = wrote[q]
    <3>1. q = p => pc[t] # "store"
      BY <2>1 DEF Owns, CacheOwn, p
    <3> QED
      BY <1>4, <3>1
  <2> QED
    BY <1>1, <1>3, <2>1 DEF Owns, CacheOwn, Own
<1>7. CallOwn'
  <2>1. \A s \in Threads : s # t => wrote'[ProcOf[s]] = wrote[ProcOf[s]]
    BY <1>2, <1>4, <1>5
  <2> QED
    BY <1>3, <2>1 DEF Owns, CallOwn, Own
<1> QED
  BY <1>1, <1>6, <1>7 DEF Owns, OwnWritesSeen

\* With one thread in each process, a process sees its own committed writes, of
\* those that flush: its caches stay empty from the flush until the commit, and
\* what it computes afterwards is at least as new.
THEOREM SeesOwnWrites ==
  ASSUME OneThreadEach
  PROVE  Spec => []OwnWritesSeen
<1>1. Init => Base /\ Owns
  <2>1. Init => Owns
    BY DEF Init, Owns, CacheOwn, CallOwn, OwnWritesSeen
  <2> QED
    BY <2>1, InitBase
<1>2. Base /\ Owns /\ [Next]_vars => (Base /\ Owns)'
  <2> SUFFICES ASSUME Base, Owns, [Next]_vars PROVE Owns'
    BY NextBase
  <2>1. CASE Tick
    BY <2>1 DEF Tick, NothingServed, Owns, CacheOwn, CallOwn, OwnWritesSeen, Own
  <2>2. CASE UNCHANGED vars
    BY <2>2 DEF vars, Owns, CacheOwn, CallOwn, OwnWritesSeen, Own
  <2> QED
    BY <2>1, <2>2, OneThreadEach, RecallOwns, ComputeOwns, PublishOwns, BeginOwns, CommitOwns
       DEF Next
<1>3. Owns => OwnWritesSeen
  BY DEF Owns
<1> QED
  BY <1>1, <1>2, <1>3, PTL DEF Spec

-----------------------------------------------------------------------------
(***************************************************************************)
(* SharedCache, for any keys, workers and number of PUTs.                  *)
(*                                                                         *)
(* That the table catches up with RAM holds for any number of workers: the *)
(* entry and its row's job are made in one step, so the newest word on a   *)
(* key is the last job queued for it, or else the job in hand, or else its *)
(* row, and it says what RAM says.  The two properties of GET need a       *)
(* single worker: until it has hydrated the scope nothing has been put,    *)
(* and rows and promises agree; afterwards RAM holds what was promised.    *)
(***************************************************************************)

\* What the queue, the job in hand and the table say of a key, newest first.
LastQueued(k, i) ==
  i \in 1..Len(queue) /\ queue[i].k = k
  /\ \A j \in 1..Len(queue) : j > i => queue[j].k # k

Unqueued(k) == \A i \in 1..Len(queue) : queue[i].k # k

Newest(k, v) ==
  \/ \E i \in 1..Len(queue) : LastQueued(k, i) /\ queue[i].v = v
  \/ Unqueued(k) /\ job # Absent /\ job.k = k /\ job.v = v
  \/ Unqueued(k) /\ (job = Absent \/ job.k # k) /\ rows[k] = v

CaughtUp == \A k \in Keys : ram[k] # Absent => Newest(k, ram[k])

CacheIInv == CacheTypeOK /\ CaughtUp

-----------------------------------------------------------------------------
\* Initially RAM is empty.
LEMMA CacheInitInv == CacheInit => CacheIInv
<1> SUFFICES ASSUME CacheInit PROVE CacheIInv
  OBVIOUS
<1> USE SharedCacheAssumption DEF CacheInit, CacheTypeOK, Value, Slot, Pair
<1>1. 0 \in Value /\ "get" \in Ops /\ Absent \in Slot
  OBVIOUS
<1>2. PICK k \in Keys : k = (CHOOSE x \in Keys : TRUE)
  OBVIOUS
<1>3. rows \in [Keys -> {0, Absent}] /\ {0, Absent} \subseteq Slot
  BY <1>1
<1>4. \A S, T : S \subseteq T => [Keys -> S] \subseteq [Keys -> T]
  OBVIOUS
<1>5. ram \in [Keys -> Slot] /\ puts \in Value
  OBVIOUS
<1>6. hydrated \in BOOLEAN /\ job \in Pair \cup {Absent}
  BY Zenon
<1>7. rows \in [Keys -> Slot] /\ latest \in [Keys -> Slot]
  BY <1>3, <1>4
<1>8. queue \in Seq(Pair)
  BY EmptySeq
<1>9. /\ stage \in [Workers -> {"idle", "check", "query", "hydrate", "apply"}]
      /\ todo \in [Workers -> SUBSET Pair]
  OBVIOUS
<1>10. req \in [Workers -> [op : Ops, k : Keys, v : Value]]
  <2>1. req = [w \in Workers |-> [op |-> "get", k |-> k, v |-> 0]]
    BY <1>2
  <2>2. [op |-> "get", k |-> k, v |-> 0] \in [op : Ops, k : Keys, v : Value]
    BY <1>1
  <2> QED
    BY <2>1, <2>2
<1>11. answer \in [k : Keys, v : Slot]
  BY <1>1, <1>2
<1>12. CaughtUp
  BY DEF CaughtUp
<1> QED
  BY <1>5, <1>6, <1>7, <1>8, <1>9, <1>10, <1>11, <1>12 DEF CacheIInv

\* The parts of the types the write-through is about, when a key is put.
LEMMA PutKeeps ==
  ASSUME CacheIInv, NEW k \in Keys, NEW v \in Value, Put(k, v), UNCHANGED <<rows, job>>
  PROVE  ram' \in [Keys -> Slot] /\ queue' \in Seq(Pair) /\ CaughtUp'
<1> USE DEF Slot, Pair
<1>0. queue \in Seq(Pair) /\ ram \in [Keys -> Slot]
  BY DEF CacheIInv, CacheTypeOK
<1>1. [k |-> k, v |-> v] \in Pair
  OBVIOUS
<1>2. ram' = [ram EXCEPT ![k] = v] /\ queue' = Append(queue, [k |-> k, v |-> v])
  BY DEF Put
<1>3. /\ queue' \in Seq(Pair) /\ Len(queue') = Len(queue) + 1
      /\ Len(queue) \in Nat
      /\ \A i \in 1..Len(queue) : queue'[i] = queue[i]
      /\ queue'[Len(queue) + 1] = [k |-> k, v |-> v]
  BY <1>0, <1>1, <1>2, AppendProperties, LenProperties
<1>4. ram' \in [Keys -> Slot]
  BY <1>0, <1>2
<1>5. ASSUME NEW x \in Keys, ram'[x] # Absent PROVE Newest(x, ram[x])'
  <2>1. CASE x = k
    <3>1. ram'[x] = v
      BY <1>0, <1>2, <2>1
    <3>2. Len(queue') \in 1..Len(queue') /\ queue'[Len(queue')].k = k
          /\ queue'[Len(queue')].v = v
      BY <1>3
    <3>3. \A j \in 1..Len(queue') : ~(j > Len(queue'))
      BY <1>3
    <3> QED
      BY <2>1, <3>1, <3>2, <3>3 DEF Newest, LastQueued
  <2>2. CASE x # k
    <3>1. ram'[x] = ram[x]
      BY <1>0, <1>2, <2>2
    <3>2. Newest(x, ram[x])
      BY <1>5, <3>1 DEF CacheIInv, CaughtUp
    <3>3. CASE \E i \in 1..Len(queue) : LastQueued(x, i) /\ queue[i].v = ram[x]
      <4>1. PICK i \in 1..Len(queue) : LastQueued(x, i) /\ queue[i].v = ram[x]
        BY <3>3
      <4>2. i \in 1..Len(queue') /\ queue'[i] = queue[i]
        BY <1>3
      <4>3. \A j \in 1..Len(queue') : j > i => queue'[j].k # x
        BY <1>3, <2>2, <4>1 DEF LastQueued
      <4> QED
        BY <3>1, <4>1, <4>2, <4>3 DEF Newest, LastQueued
    <3>4. CASE /\ Unqueued(x)
               /\ \/ job # Absent /\ job.k = x /\ job.v = ram[x]
                  \/ (job = Absent \/ job.k # x) /\ rows[x] = ram[x]
      <4>1. Unqueued(x)'
        BY <1>3, <2>2, <3>4 DEF Unqueued
      <4> QED
        BY <3>1, <3>4, <4>1 DEF Newest
    <3> QED
      BY <3>2, <3>3, <3>4 DEF Newest
  <2> QED
    BY <2>1, <2>2
<1> QED
  BY <1>3, <1>4, <1>5 DEF CaughtUp
\* The worker of the write queue takes the oldest job: it stays the newest word
\* on its key only if no other is queued.
LEMMA PopKeeps ==
  ASSUME CacheIInv, Pop
  PROVE  queue' \in Seq(Pair) /\ job' \in Pair /\ CaughtUp'
<1>1. /\ queue \in Seq(Pair) /\ queue # <<>> /\ job = Absent
      /\ queue' = Tail(queue) /\ job' = Head(queue) /\ UNCHANGED <<ram, rows>>
  BY DEF Pop, CacheIInv, CacheTypeOK
<1>2. /\ queue' \in Seq(Pair) /\ Len(queue) \in Nat \ {0}
      /\ Len(queue') = Len(queue) - 1
      /\ \A i \in 1..Len(queue') : queue'[i] = queue[i + 1]
  BY <1>1, HeadTailProperties, EmptySeq
<1>3. job' = queue[1] /\ job' \in Pair /\ job' # Absent
  <2>1. job' = queue[1] /\ job' \in Pair
    BY <1>1, <1>2
  <2>2. Absent \notin Pair
    BY SharedCacheAssumption, Zenon DEF Pair, Value
  <2> QED
    BY <2>1, <2>2
<1>4. ASSUME NEW k \in Keys, ram[k] # Absent PROVE Newest(k, ram[k])'
  <2>0. ram'[k] = ram[k]
    BY <1>1
  <2>1. Newest(k, ram[k])
    BY <1>4 DEF CacheIInv, CaughtUp
  <2>2. CASE \E i \in 1..Len(queue) : LastQueued(k, i) /\ queue[i].v = ram[k]
    <3>1. PICK i \in 1..Len(queue) : LastQueued(k, i) /\ queue[i].v = ram[k]
      BY <2>2
    <3>2. CASE i = 1
      <4>1. \A j \in 1..Len(queue') : queue'[j].k # k
        BY <1>2, <3>1, <3>2 DEF LastQueued
      <4>2. job'.k = k /\ job'.v = ram[k]
        BY <1>3, <3>1, <3>2 DEF LastQueued
      <4> QED
        BY <1>3, <2>0, <4>1, <4>2 DEF Newest, Unqueued
    <3>3. CASE i # 1
      <4>1. i - 1 \in 1..Len(queue') /\ queue'[i - 1] = queue[i]
        BY <1>2, <3>3
      <4>2. \A j \in 1..Len(queue') : j > i - 1 => queue'[j].k # k
        BY <1>2, <3>1, <3>3 DEF LastQueued
      <4> QED
        BY <2>0, <3>1, <4>1, <4>2 DEF Newest, LastQueued
    <3> QED
      BY <3>2, <3>3
  <2>3. CASE Unqueued(k) /\ rows[k] = ram[k]
    <3>1. Unqueued(k)' /\ job'.k # k
      BY <1>2, <1>3, <2>3 DEF Unqueued
    <3> QED
      BY <1>1, <2>0, <2>3, <3>1 DEF Newest
  <2> QED
    BY <1>1, <2>1, <2>2, <2>3 DEF Newest
<1> QED
  BY <1>1, <1>2, <1>3, <1>4 DEF CaughtUp

\* A job that has run leaves its value in the row.
LEMMA RunJobKeeps ==
  ASSUME CacheIInv, RunJob
  PROVE  rows' \in [Keys -> Slot] /\ CaughtUp'
<1>1. /\ job \in Pair /\ job' = Absent /\ rows \in [Keys -> Slot]
      /\ rows' = [rows EXCEPT ![job.k] = job.v] /\ UNCHANGED <<ram, queue>>
  BY DEF RunJob, WriteThrough, CacheIInv, CacheTypeOK
<1>2. rows' \in [Keys -> Slot]
  BY <1>1 DEF Pair, Slot
<1>3. ASSUME NEW k \in Keys, ram[k] # Absent PROVE Newest(k, ram[k])'
  <2>1. Newest(k, ram[k])
    BY <1>3 DEF CacheIInv, CaughtUp
  <2>2. CASE \E i \in 1..Len(queue) : LastQueued(k, i) /\ queue[i].v = ram[k]
    BY <1>1, <2>2 DEF Newest, LastQueued
  <2>3. CASE Unqueued(k) /\ job.k = k /\ job.v = ram[k]
    BY <1>1, <2>3 DEF Newest, Unqueued
  <2>4. CASE Unqueued(k) /\ job.k # k /\ rows[k] = ram[k]
    BY <1>1, <2>4 DEF Newest, Unqueued
  <2>5. job # Absent
    BY DEF RunJob
  <2> QED
    BY <2>1, <2>2, <2>3, <2>4, <2>5 DEF Newest
<1> QED
  BY <1>1, <1>2, <1>3 DEF CaughtUp

\* A worker's steps, but for those that put a value, leave the write-through alone.
LEMMA WorkerKeeps ==
  ASSUME CacheIInv, NEW w \in Workers, Take(w) \/ Handle(w)
  PROVE  CacheIInv'
<1> USE SharedCacheAssumption
<1> USE DEF CacheIInv
<1>1. CASE Take(w)
  <2>1. PICK o \in Ops, k \in Keys :
          /\ o = "put" => puts < MaxPuts
          /\ puts' = IF o = "put" THEN puts + 1 ELSE puts
          /\ req' = [req EXCEPT ![w] = [op |-> o, k |-> k, v |-> puts']]
          /\ Goto(w, IF NeedsScope(o) THEN "check" ELSE "apply")
    BY <1>1 DEF Take
  <2>2. UNCHANGED <<ram, hydrated, rows, queue, job, todo, latest, answer>>
    BY <1>1 DEF Take
  <2>3. puts' \in Value
    BY <2>1 DEF CacheTypeOK, Value
  <2>4. req' \in [Workers -> [op : Ops, k : Keys, v : Value]]
    BY <2>1, <2>3 DEF CacheTypeOK
  <2>5. stage' \in [Workers -> {"idle", "check", "query", "hydrate", "apply"}]
    BY <2>1 DEF CacheTypeOK, Goto
  <2>6. CacheTypeOK'
    BY <2>2, <2>3, <2>4, <2>5 DEF CacheTypeOK
  <2>7. CaughtUp'
    BY <2>2 DEF CaughtUp, Newest, LastQueued, Unqueued
  <2> QED
    BY <2>6, <2>7
<1>2. CASE EnsureScope(w)
  <2>1. /\ UNCHANGED <<ram, rows, queue, job, puts, req, todo, latest, answer>>
        /\ hydrated' \in BOOLEAN
    BY <1>2 DEF EnsureScope, Check
  <2>2. stage' \in [Workers -> {"idle", "check", "query", "hydrate", "apply"}]
    BY <1>2 DEF EnsureScope, Check, CacheTypeOK, Goto
  <2>3. CacheTypeOK'
    BY <2>1, <2>2 DEF CacheTypeOK
  <2>4. CaughtUp'
    BY <2>1 DEF CaughtUp, Newest, LastQueued, Unqueued
  <2> QED
    BY <2>3, <2>4
<1>3. CASE Query(w)
  <2>1. UNCHANGED <<ram, hydrated, rows, queue, job, puts, req, latest, answer>>
    BY <1>3 DEF Query
  <2>2. {[k |-> k, v |-> rows[k]] : k \in {k \in Keys : rows[k] # Absent}} \subseteq Pair
    BY DEF CacheTypeOK, Pair, Slot
  <2>3. todo' \in [Workers -> SUBSET Pair]
    BY <1>3, <2>2 DEF Query, CacheTypeOK
  <2>4. stage' \in [Workers -> {"idle", "check", "query", "hydrate", "apply"}]
    BY <1>3 DEF Query, CacheTypeOK, Goto
  <2>5. CacheTypeOK'
    BY <2>1, <2>3, <2>4 DEF CacheTypeOK
  <2>6. CaughtUp'
    BY <2>1 DEF CaughtUp, Newest, LastQueued, Unqueued
  <2> QED
    BY <2>5, <2>6
<1>4. CASE Hydrate(w)
  <2>1. UNCHANGED <<hydrated, rows, job, puts, req, latest, answer>>
    BY <1>4 DEF Hydrate
  <2>2. CASE todo[w] = {} /\ Goto(w, "apply") /\ UNCHANGED <<ram, queue, todo>>
    <3>1. stage' \in [Workers -> {"idle", "check", "query", "hydrate", "apply"}]
      BY <2>2 DEF CacheTypeOK, Goto
    <3>2. CacheTypeOK'
      BY <2>1, <2>2, <3>1 DEF CacheTypeOK
    <3>3. CaughtUp'
      BY <2>1, <2>2 DEF CaughtUp, Newest, LastQueued, Unqueued
    <3> QED
      BY <3>2, <3>3
  <2>3. ASSUME NEW e \in todo[w], Put(e.k, e.v), UNCHANGED stage,
               todo' = [todo EXCEPT ![w] = @ \ {e}]
        PROVE  CacheIInv'
    <3>1. e.k \in Keys /\ e.v \in Value
      BY DEF CacheTypeOK, Pair
    <3>2. ram' \in [Keys -> Slot] /\ queue' \in Seq(Pair) /\ CaughtUp'
      BY <2>1, <2>3, <3>1, PutKeeps
    <3>3. todo' \in [Workers -> SUBSET Pair]
      BY <2>3 DEF CacheTypeOK
    <3> QED
      BY <2>1, <2>3, <3>2, <3>3 DEF CacheTypeOK
  <2> QED
    BY <1>4, <2>2, <2>3 DEF Hydrate
<1>5. CASE ApplyPut(w)
  <2>1. /\ UNCHANGED <<hydrated, rows, job, puts, req, todo, answer>>
        /\ req[w].k \in Keys /\ req[w].v \in Value
        /\ latest' = [latest EXCEPT ![req[w].k] = req[w].v]
    BY <1>5 DEF ApplyPut, CacheTypeOK
  <2>2. ram' \in [Keys -> Slot] /\ queue' \in Seq(Pair) /\ CaughtUp'
    BY <1>5, <2>1, PutKeeps DEF ApplyPut
  <2>3. latest' \in [Keys -> Slot]
    BY <2>1 DEF CacheTypeOK, Slot
  <2>4. stage' \in [Workers -> {"idle", "check", "query", "hydrate", "apply"}]
    BY <1>5 DEF ApplyPut, CacheTypeOK, Goto
  <2> QED
    BY <2>1, <2>2, <2>3, <2>4 DEF CacheTypeOK
<1>6. CASE ApplyGet(w)
  <2>1. /\ UNCHANGED <<ram, hydrated, rows, queue, job, puts, req, todo, latest>>
        /\ answer' = [k |-> req[w].k, v |-> ram[req[w].k]] /\ Goto(w, "idle")
    BY <1>6 DEF ApplyGet
  <2>2. answer' \in [k : Keys, v : Slot]
    BY <2>1 DEF CacheTypeOK
  <2>3. stage' \in [Workers -> {"idle", "check", "query", "hydrate", "apply"}]
    BY <2>1 DEF CacheTypeOK, Goto
  <2>4. CacheTypeOK'
    BY <2>1, <2>2, <2>3 DEF CacheTypeOK
  <2>5. CaughtUp'
    BY <2>1 DEF CaughtUp, Newest, LastQueued, Unqueued
  <2> QED
    BY <2>4, <2>5
<1>7. CASE ApplyFlush(w)
  <2>1. /\ UNCHANGED <<hydrated, rows, queue, job, puts, req, todo, answer>>
        /\ ram' = [k \in Keys |-> Absent]
        /\ latest' = (IF hydrated THEN [k \in Keys |-> Absent] ELSE latest)
        /\ Goto(w, "idle")
    BY <1>7 DEF ApplyFlush
  <2>2. ram' \in [Keys -> Slot] /\ latest' \in [Keys -> Slot]
    BY <2>1 DEF CacheTypeOK, Slot
  <2>3. stage' \in [Workers -> {"idle", "check", "query", "hydrate", "apply"}]
    BY <2>1 DEF CacheTypeOK, Goto
  <2>4. CacheTypeOK'
    BY <2>1, <2>2, <2>3 DEF CacheTypeOK
  <2>5. CaughtUp'
    BY <2>1 DEF CaughtUp
  <2> QED
    BY <2>4, <2>5
<1> QED
  BY <1>1, <1>2, <1>3, <1>4, <1>5, <1>6, <1>7 DEF Handle

\* Every step keeps the invariant.
LEMMA NextKeeps ==
  ASSUME CacheIInv, [CacheNext]_cacheVars
  PROVE  CacheIInv'
<1>1. CASE UNCHANGED cacheVars
  BY <1>1 DEF CacheIInv, CacheTypeOK, CaughtUp, Newest, LastQueued, Unqueued, cacheVars
<1>2. ASSUME NEW w \in Workers, Take(w) \/ Handle(w) PROVE CacheIInv'
  BY <1>2, WorkerKeeps
<1>3. CASE Pop
  BY <1>3, PopKeeps DEF Pop, CacheIInv, CacheTypeOK
<1>4. CASE RunJob
  BY <1>4, RunJobKeeps DEF RunJob, CacheIInv, CacheTypeOK
<1> QED
  BY <1>1, <1>2, <1>3, <1>4 DEF CacheNext

\* The invariant holds throughout every behaviour of the daemon's cache.
THEOREM CacheInvariance == CacheSpec => []CacheIInv
<1>1. CacheInit => CacheIInv
  BY CacheInitInv
<1>2. CacheIInv /\ [CacheNext]_cacheVars => CacheIInv'
  BY NextKeeps
<1> QED
  BY <1>1, <1>2, PTL DEF CacheSpec

\* When the write queue has caught up, RAM and table agree, for any number of
\* workers (putAt's sink and drainLocked's upserts).
THEOREM CatchesUp == CacheSpec => []WriteThroughCatchesUp
<1>1. CacheIInv => WriteThroughCatchesUp
  <2> SUFFICES ASSUME CacheIInv, queue = <<>>, job = Absent, NEW k \in Keys, ram[k] # Absent
               PROVE  rows[k] = ram[k]
    BY DEF WriteThroughCatchesUp, CacheIInv
  <2>1. Newest(k, ram[k])
    BY DEF CacheIInv, CaughtUp
  <2>2. Len(queue) = 0
    BY EmptySeq
  <2> QED
    BY <2>1, <2>2 DEF Newest
<1> QED
  BY <1>1, CacheInvariance, PTL
-----------------------------------------------------------------------------
(* A daemon with a single worker: servePipe, or one connection at a time.  *)

OneWorker == \A u, w \in Workers : u = w

\* The scope is as an earlier daemon left it.
Cold ==
  /\ \A k \in Keys : ram[k] = Absent /\ rows[k] = latest[k]
  /\ queue = <<>> /\ job = Absent

Warm == \A k \in Keys : ram[k] = latest[k]

\* Half of the rows are in RAM, the others are still to come.
Warming(w) ==
  /\ \A e \in todo[w] : e.v = latest[e.k]
  /\ \A k \in Keys : ram[k] # latest[k] => [k |-> k, v |-> latest[k]] \in todo[w]

Hydration ==
  \A w \in Workers :
    /\ ~hydrated => /\ Cold
                    /\ stage[w] \in {"idle", "check", "apply"}
                    /\ stage[w] = "apply" => req[w].op = "flush"
    /\ stage[w] = "query" => Cold
    /\ stage[w] = "hydrate" => Warming(w)
    /\ hydrated /\ stage[w] \in {"idle", "check", "apply"} => Warm

\* A new daemon has touched no scope.
LEMMA InitHydration == CacheInit => Hydration
BY DEF CacheInit, Hydration, Cold

\* The worker's steps.
LEMMA WorkerHydrates ==
  ASSUME OneWorker, CacheTypeOK, Hydration, NEW w \in Workers, Take(w) \/ Handle(w)
  PROVE  Hydration'
<1> DEFINE H(u) == /\ ~hydrated => /\ Cold
                                   /\ stage[u] \in {"idle", "check", "apply"}
                                   /\ stage[u] = "apply" => req[u].op = "flush"
                   /\ stage[u] = "query" => Cold
                   /\ stage[u] = "hydrate" => Warming(u)
                   /\ hydrated /\ stage[u] \in {"idle", "check", "apply"} => Warm
<1>0. H(w)
  BY DEF Hydration
<1>1. SUFFICES H(w)'
  BY DEF OneWorker, Hydration
<1>2. CASE Take(w)
  <2>1. PICK o \in Ops, k \in Keys :
          /\ req' = [req EXCEPT ![w] = [op |-> o, k |-> k, v |-> puts']]
          /\ Goto(w, IF NeedsScope(o) THEN "check" ELSE "apply")
    BY <1>2 DEF Take
  <2>2. /\ UNCHANGED <<ram, hydrated, rows, queue, job, todo, latest, answer>>
        /\ stage[w] = "idle"
    BY <1>2 DEF Take
  <2>3. /\ stage'[w] \in {"check", "apply"}
        /\ stage'[w] = "apply" => req'[w].op = "flush"
    BY <2>1 DEF CacheTypeOK, Goto, NeedsScope
  <2> QED
    BY <1>0, <2>2, <2>3 DEF Cold, Warm
<1>3. CASE EnsureScope(w)
  <2>1. /\ UNCHANGED <<ram, rows, queue, job, puts, req, todo, latest, answer>>
        /\ stage[w] = "check" /\ hydrated' = TRUE
        /\ stage'[w] = IF hydrated THEN "apply" ELSE "query"
    BY <1>3 DEF EnsureScope, Check, CacheTypeOK, Goto
  <2> QED
    BY <1>0, <2>1 DEF Cold, Warm
<1>4. CASE Query(w)
  <2>1. /\ UNCHANGED <<ram, hydrated, rows, queue, job, puts, req, latest, answer>>
        /\ stage[w] = "query" /\ stage'[w] = "hydrate"
        /\ todo'[w] = {[k |-> k, v |-> rows[k]] : k \in {k \in Keys : rows[k] # Absent}}
    BY <1>4 DEF Query, CacheTypeOK, Goto
  <2>2. Cold
    BY <1>0, <2>1
  <2>3. Warming(w)'
    BY <2>1, <2>2 DEF Warming, Cold
  <2> QED
    BY <1>0, <2>1, <2>3
<1>5. CASE Hydrate(w)
  <2>1. /\ UNCHANGED <<hydrated, rows, job, puts, req, latest, answer>>
        /\ stage[w] = "hydrate"
    BY <1>5 DEF Hydrate
  <2>2. Warming(w) /\ hydrated
    BY <1>0, <2>1
  <2>3. CASE todo[w] = {} /\ Goto(w, "apply") /\ UNCHANGED <<ram, queue, todo>>
    <3>1. stage'[w] = "apply"
      BY <2>3 DEF CacheTypeOK, Goto
    <3>2. Warm'
      BY <2>1, <2>2, <2>3 DEF Warming, Warm
    <3> QED
      BY <2>1, <2>2, <3>1, <3>2
  <2>4. ASSUME NEW e \in todo[w], Put(e.k, e.v), UNCHANGED stage,
               todo' = [todo EXCEPT ![w] = @ \ {e}]
        PROVE  H(w)'
    <3>1. e.k \in Keys /\ e.v = latest[e.k]
      BY <2>2 DEF CacheTypeOK, Pair, Warming
    <3>2. /\ todo'[w] = todo[w] \ {e}
          /\ ram'[e.k] = e.v /\ \A k \in Keys \ {e.k} : ram'[k] = ram[k]
      BY <2>4, <3>1 DEF CacheTypeOK, Put
    <3>3. \A k \in Keys \ {e.k} : [k |-> k, v |-> latest[k]] # e
      OBVIOUS
    <3>4. Warming(w)'
      BY <2>1, <2>2, <3>1, <3>2, <3>3 DEF Warming
    <3> QED
      BY <2>1, <2>2, <2>4, <3>4
  <2> QED
    BY <1>5, <2>3, <2>4 DEF Hydrate
<1>6. CASE ApplyPut(w)
  <2>1. /\ UNCHANGED <<hydrated, rows, job, puts, req, todo, answer>>
        /\ stage[w] = "apply" /\ req[w].op = "put" /\ stage'[w] = "idle"
        /\ ram' = [ram EXCEPT ![req[w].k] = req[w].v]
        /\ latest' = [latest EXCEPT ![req[w].k] = req[w].v]
    BY <1>6 DEF ApplyPut, Put, CacheTypeOK, Goto
  <2>2. hydrated /\ Warm
    BY <1>0, <2>1
  <2>3. Warm'
    BY <2>1, <2>2 DEF Warm, CacheTypeOK
  <2> QED
    BY <2>1, <2>2, <2>3
<1>7. CASE ApplyGet(w)
  <2>1. /\ UNCHANGED <<ram, hydrated, rows, queue, job, puts, req, todo, latest>>
        /\ stage[w] = "apply" /\ stage'[w] = "idle"
    BY <1>7 DEF ApplyGet, CacheTypeOK, Goto
  <2> QED
    BY <1>0, <2>1 DEF Cold, Warm
<1>8. CASE ApplyFlush(w)
  <2>1. /\ UNCHANGED <<hydrated, rows, queue, job, puts, req, todo, answer>>
        /\ ram' = [k \in Keys |-> Absent]
        /\ latest' = (IF hydrated THEN [k \in Keys |-> Absent] ELSE latest)
        /\ stage[w] = "apply" /\ stage'[w] = "idle"
    BY <1>8 DEF ApplyFlush, CacheTypeOK, Goto
  <2>2. CASE hydrated
    <3>1. Warm'
      BY <2>1, <2>2 DEF Warm
    <3> QED
      BY <2>1, <2>2, <3>1
  <2>3. CASE ~hydrated
    <3>1. Cold'
      BY <1>0, <2>1, <2>3 DEF Cold
    <3> QED
      BY <2>1, <2>3, <3>1
  <2> QED
    BY <2>2, <2>3
<1> QED
  BY <1>2, <1>3, <1>4, <1>5, <1>6, <1>7, <1>8 DEF Handle

\* The write queue's worker finds nothing to do before the scope is touched, and
\* changes neither RAM nor what was promised.
LEMMA NextHydrates ==
  ASSUME OneWorker, CacheTypeOK, Hydration, [CacheNext]_cacheVars
  PROVE  Hydration'
<1>1. CASE UNCHANGED cacheVars
  BY <1>1 DEF Hydration, Cold, Warm, Warming, cacheVars
<1>2. ASSUME NEW w \in Workers, Take(w) \/ Handle(w) PROVE Hydration'
  BY <1>2, WorkerHydrates
<1>3. CASE Pop
  <2>1. ~Cold /\ UNCHANGED <<ram, hydrated, rows, stage, req, todo, latest>>
    BY <1>3 DEF Pop, Cold
  <2> QED
    BY <2>1 DEF Hydration, Warm, Warming
<1>4. CASE RunJob
  <2>1. ~Cold /\ UNCHANGED <<ram, hydrated, stage, req, todo, latest>>
    BY <1>4 DEF RunJob, Cold
  <2> QED
    BY <2>1 DEF Hydration, Warm, Warming
<1> QED
  BY <1>1, <1>2, <1>3, <1>4 DEF CacheNext

\* With one worker, the scope is cold, warming or warm at all times.
THEOREM HydrationInvariance ==
  ASSUME OneWorker
  PROVE  CacheSpec => []Hydration
<1>1. CacheInit => Hydration
  BY InitHydration
<1>2. CacheTypeOK /\ Hydration /\ [CacheNext]_cacheVars => Hydration'
  BY NextHydrates
<1>3. CacheIInv => CacheTypeOK
  BY DEF CacheIInv
<1> QED
  BY <1>1, <1>2, <1>3, CacheInvariance, PTL DEF CacheSpec

\* A GET of a warm scope reads what was promised.
LEMMA GetReads ==
  ASSUME CacheTypeOK, Hydration, NEW w \in Workers, ApplyGet(w)
  PROVE  answer'.k = req[w].k /\ answer'.v = latest[req[w].k] /\ UNCHANGED latest
<1>1. stage[w] = "apply" /\ req[w].op = "get" /\ req[w].k \in Keys
  BY DEF ApplyGet, CacheTypeOK
<1>2. Warm
  BY <1>1 DEF Hydration
<1> QED
  BY <1>1, <1>2 DEF ApplyGet, Warm

\* With one worker, a GET brings back nothing that was replaced or flushed
\* (RCACHE_GET after ensureScopeHydrated).
THEOREM AnswersAreCurrent ==
  ASSUME OneWorker
  PROVE  CacheSpec => AnswersCurrent
<1>1. CacheTypeOK /\ Hydration /\ [CacheNext]_cacheVars =>
        [\A w \in Workers :
           ApplyGet(w) => answer'.v \in {latest[answer'.k], Absent}]_cacheVars
  BY GetReads
<1>2. CacheIInv => CacheTypeOK
  BY DEF CacheIInv
<1> QED
  BY <1>1, <1>2, CacheInvariance, HydrationInvariance, PTL DEF CacheSpec, AnswersCurrent

\* With one worker, a GET misses nothing that was stored and not flushed.
THEOREM TouchWarms ==
  ASSUME OneWorker
  PROVE  CacheSpec => FirstTouchWarms
<1>1. CacheTypeOK /\ Hydration /\ [CacheNext]_cacheVars =>
        [\A w \in Workers :
           ApplyGet(w) => (latest[req[w].k] # Absent => answer'.v # Absent)]_cacheVars
  BY GetReads
<1>2. CacheIInv => CacheTypeOK
  BY DEF CacheIInv
<1> QED
  BY <1>1, <1>2, CacheInvariance, HydrationInvariance, PTL DEF CacheSpec, FirstTouchWarms
=============================================================================
