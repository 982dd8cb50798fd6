-------------------------- MODULE FactStoreProofs -------------------------
(***************************************************************************)
(* Proofs about FactStore, for any commands, facts, pieces and kills.      *)
(*                                                                         *)
(* Every statement but the INSERT of store() rewrites rows that exist, and *)
(* a rewrite only ever moves a row on (Kin): its marks are kept, a changed *)
(* fact or a forgotten row is marked, a successor is never replaced.  The  *)
(* three invariants need little more: what a duplicate check saw remains   *)
(* without an unmarked row of its fact, a consolidation spares a keeper of *)
(* every fact, and a drain has indexed every piece it has gone past.       *)
(***************************************************************************)
EXTENDS FactStore, SequenceTheorems, TLAPS

Forgetful == {"forgotten"} \cup Procs

\* What one statement can make of a row.
Kin(n, m) ==
  /\ m.forced = n.forced /\ m.seen = n.seen
  /\ n.was \subseteq m.was
  /\ m.fact = n.fact \/ "updated" \in m.was
  /\ m.by = n.by \/ (n.by = Nobody /\ m.by \in Ids)
  /\ \/ m.kept = n.kept
     \/ m.kept = "forgotten" /\ m.was \cap Forgetful # {}
     \/ n.kept = "forgotten"

Size == Len(nodes)

RowsKept ==
  /\ nodes' \in Seq(Node) /\ Size' = Size
  /\ \A i \in 1..Size : Kin(nodes[i], nodes'[i])

NodesType == nodes \in Seq(Node) /\ Size <= MaxNodes

-----------------------------------------------------------------------------
\* A statement that rewrites row by row.
LEMMA Rewritten ==
  ASSUME NodesType, NEW F, nodes' = [i \in DOMAIN nodes |-> F[i]],
         \A i \in 1..Size : F[i] \in Node /\ Kin(nodes[i], F[i])
  PROVE  RowsKept
<1>1. nodes \in Seq(Node) /\ Size \in Nat /\ DOMAIN nodes = 1..Size
  BY LenProperties DEF NodesType, Size
<1>2. nodes' \in [1..Size -> Node]
  BY <1>1
<1>3. nodes' \in Seq(Node) /\ Len(nodes') = Size
  BY <1>1, <1>2, IsASeq, LenProperties
<1>4. \A i \in 1..Size : nodes'[i] = F[i]
  BY <1>1
<1> QED
  BY <1>3, <1>4 DEF RowsKept, Size

\* Update, remove, restore, purge, supersede and the steps of a consolidation
\* move rows on.
LEMMA UpdateMoves ==
  ASSUME NodesType, NEW p \in Procs, Update(p)
  PROVE  RowsKept
<1>1. PICK i \in DOMAIN nodes \ Rows("purged"), f \in Facts :
        Rewrite({i}, LAMBDA n : [n EXCEPT !.fact = f], {"updated"})
  BY DEF Update
<1> DEFINE F == [k \in DOMAIN nodes |->
                   IF k \in {i} THEN [[nodes[k] EXCEPT !.fact = f]
                                        EXCEPT !.was = @ \cup {"updated"}]
                   ELSE nodes[k]]
<1>2. nodes' = [k \in DOMAIN nodes |-> F[k]]
  BY <1>1 DEF Rewrite
<1>3. ASSUME NEW n \in Node
      PROVE  LET m == [[n EXCEPT !.fact = f] EXCEPT !.was = @ \cup {"updated"}]
             IN m \in Node /\ Kin(n, m)
  BY DEF Node, Kin
<1>4. ASSUME NEW k \in 1..Size PROVE F[k] \in Node /\ Kin(nodes[k], F[k])
  <2>1. nodes[k] \in Node /\ k \in DOMAIN nodes /\ Kin(nodes[k], nodes[k])
    BY LenProperties DEF NodesType, Size, Kin
  <2> QED
    BY <1>3, <2>1
<1> HIDE DEF F
<1> QED
  BY <1>2, <1>4, Rewritten

\* remove(): the rows are marked.
LEMMA RemoveMoves ==
  ASSUME NodesType, NEW p \in Procs, Remove(p)
  PROVE  RowsKept
<1>1. PICK S : Rewrite(S, LAMBDA n : [n EXCEPT !.kept = "forgotten"], {"forgotten"})
  BY DEF Remove
<1> DEFINE F == [k \in DOMAIN nodes |->
                   IF k \in S THEN [[nodes[k] EXCEPT !.kept = "forgotten"]
                                        EXCEPT !.was = @ \cup {"forgotten"}]
                   ELSE nodes[k]]
<1>2. nodes' = [k \in DOMAIN nodes |-> F[k]]
  BY <1>1 DEF Rewrite
<1>3. ASSUME NEW n \in Node
      PROVE  LET m == [[n EXCEPT !.kept = "forgotten"] EXCEPT !.was = @ \cup {"forgotten"}]
             IN m \in Node /\ Kin(n, m)
  BY <1>3 DEF Node, Kin, Forgetful
<1>4. ASSUME NEW k \in 1..Size PROVE F[k] \in Node /\ Kin(nodes[k], F[k])
  <2>1. nodes[k] \in Node /\ k \in DOMAIN nodes /\ Kin(nodes[k], nodes[k])
    BY LenProperties DEF NodesType, Size, Kin
  <2> QED
    BY <1>1, <1>3, <2>1 DEF Rows
<1> HIDE DEF F
<1> QED
  BY <1>2, <1>4, Rewritten

\* restore(): the row was forgotten, and stays marked.
LEMMA RestoreMoves ==
  ASSUME NodesType, NEW p \in Procs, Restore(p)
  PROVE  RowsKept
<1>1. PICK i \in Rows("forgotten") :
        Rewrite({i}, LAMBDA n : [n EXCEPT !.kept = "kept"], {})
  BY DEF Restore
<1> DEFINE F == [k \in DOMAIN nodes |->
                   IF k \in {i} THEN [[nodes[k] EXCEPT !.kept = "kept"]
                                        EXCEPT !.was = @ \cup {}]
                   ELSE nodes[k]]
<1>2. nodes' = [k \in DOMAIN nodes |-> F[k]]
  BY <1>1 DEF Rewrite
<1>3. ASSUME NEW n \in Node, n.kept = "forgotten"
      PROVE  LET m == [[n EXCEPT !.kept = "kept"] EXCEPT !.was = @ \cup {}]
             IN m \in Node /\ Kin(n, m)
  BY <1>3 DEF Node, Kin, Forgetful
<1>4. ASSUME NEW k \in 1..Size PROVE F[k] \in Node /\ Kin(nodes[k], F[k])
  <2>1. nodes[k] \in Node /\ k \in DOMAIN nodes /\ Kin(nodes[k], nodes[k])
    BY LenProperties DEF NodesType, Size, Kin
  <2> QED
    BY <1>1, <1>3, <2>1 DEF Rows
<1> HIDE DEF F
<1> QED
  BY <1>2, <1>4, Rewritten

\* purge(): the rows were forgotten.
LEMMA PurgeMoves ==
  ASSUME NodesType, NEW p \in Procs, Purge(p)
  PROVE  RowsKept
<1>1. PICK S \in SUBSET Rows("forgotten") :
        Rewrite(S, LAMBDA n : [n EXCEPT !.kept = "purged"], {})
  BY DEF Purge
<1> DEFINE F == [k \in DOMAIN nodes |->
                   IF k \in S THEN [[nodes[k] EXCEPT !.kept = "purged"]
                                        EXCEPT !.was = @ \cup {}]
                   ELSE nodes[k]]
<1>2. nodes' = [k \in DOMAIN nodes |-> F[k]]
  BY <1>1 DEF Rewrite
<1>3. ASSUME NEW n \in Node, n.kept = "forgotten"
      PROVE  LET m == [[n EXCEPT !.kept = "purged"] EXCEPT !.was = @ \cup {}]
             IN m \in Node /\ Kin(n, m)
  BY <1>3 DEF Node, Kin, Forgetful
<1>4. ASSUME NEW k \in 1..Size PROVE F[k] \in Node /\ Kin(nodes[k], F[k])
  <2>1. nodes[k] \in Node /\ k \in DOMAIN nodes /\ Kin(nodes[k], nodes[k])
    BY LenProperties DEF NodesType, Size, Kin
  <2> QED
    BY <1>1, <1>3, <2>1 DEF Rows
<1> HIDE DEF F
<1> QED
  BY <1>2, <1>4, Rewritten

\* The UPDATE of invalidate() finds the row not superseded.
LEMMA SupersedeMoves ==
  ASSUME NodesType, NEW p \in Procs, Supersede(p)
  PROVE  RowsKept
<1>0. PICK j \in DOMAIN nodes :
        Rewrite({i \in {job[p].id} : nodes[i].by = Nobody /\ nodes[i].kept # "purged"},
                LAMBDA n : [n EXCEPT !.by = j], {})
  BY DEF Supersede
<1> DEFINE S == {i \in {job[p].id} : nodes[i].by = Nobody /\ nodes[i].kept # "purged"}
<1>1. /\ j \in Ids
      /\ Rewrite(S, LAMBDA n : [n EXCEPT !.by = j], {})
  BY <1>0, LenProperties, FactStoreAssumption DEF NodesType, Size, Ids
<1> DEFINE F == [k \in DOMAIN nodes |->
                   IF k \in S THEN [[nodes[k] EXCEPT !.by = j]
                                        EXCEPT !.was = @ \cup {}]
                   ELSE nodes[k]]
<1>2. nodes' = [k \in DOMAIN nodes |-> F[k]]
  BY <1>1 DEF Rewrite
<1>3. ASSUME NEW n \in Node, n.by = Nobody
      PROVE  LET m == [[n EXCEPT !.by = j] EXCEPT !.was = @ \cup {}]
             IN m \in Node /\ Kin(n, m)
  BY <1>1, <1>3 DEF Node, Kin, Forgetful
<1>4. ASSUME NEW k \in 1..Size PROVE F[k] \in Node /\ Kin(nodes[k], F[k])
  <2>1. nodes[k] \in Node /\ k \in DOMAIN nodes /\ Kin(nodes[k], nodes[k])
    BY LenProperties DEF NodesType, Size, Kin
  <2> QED
    BY <1>1, <1>3, <2>1 DEF Rows
<1> HIDE DEF F
<1> QED
  BY <1>2, <1>4, Rewritten

\* A merge marks its loser.
LEMMA MergeMoves ==
  ASSUME NodesType, NEW p \in Procs, Merge(p)
  PROVE  RowsKept
<1>0. PICK i \in job[p].batch :
        Rewrite({i} \ Rows("purged"), LAMBDA n : [n EXCEPT !.kept = "forgotten"], {p})
  BY DEF Merge
<1> DEFINE S == {i} \ Rows("purged")
<1>1. Rewrite(S, LAMBDA n : [n EXCEPT !.kept = "forgotten"], {p})
  BY <1>0
<1> DEFINE F == [k \in DOMAIN nodes |->
                   IF k \in S THEN [[nodes[k] EXCEPT !.kept = "forgotten"]
                                        EXCEPT !.was = @ \cup {p}]
                   ELSE nodes[k]]
<1>2. nodes' = [k \in DOMAIN nodes |-> F[k]]
  BY <1>1 DEF Rewrite
<1>3. ASSUME NEW n \in Node
      PROVE  LET m == [[n EXCEPT !.kept = "forgotten"] EXCEPT !.was = @ \cup {p}]
             IN m \in Node /\ Kin(n, m)
  BY <1>3 DEF Node, Kin, Forgetful
<1>4. ASSUME NEW k \in 1..Size PROVE F[k] \in Node /\ Kin(nodes[k], F[k])
  <2>1. nodes[k] \in Node /\ k \in DOMAIN nodes /\ Kin(nodes[k], nodes[k])
    BY LenProperties DEF NodesType, Size, Kin
  <2> QED
    BY <1>1, <1>3, <2>1 DEF Rows
<1> HIDE DEF F
<1> QED
  BY <1>2, <1>4, Rewritten

-----------------------------------------------------------------------------
(* Types, and what the places say of the jobs.                             *)

Rewrites(p) == Update(p) \/ Remove(p) \/ Restore(p) \/ Purge(p) \/ Supersede(p) \/ Merge(p)

Others(p) == Check(p) \/ Enqueue(p) \/ Invalidate(p) \/ Consolidate(p) \/ Merged(p)
             \/ Drain(p) \/ Kill(p)

Act(p) == Rewrites(p) \/ InsertNode(p) \/ Others(p)

Draining == {"next", "insert", "index", "dequeue"}

JobShape ==
  \A p \in Procs :
    /\ pc[p] = "enqueue" => job[p].id \in 1..Size
    /\ pc[p] = "insert node" => job[p].seen <= Size
    /\ pc[p] = "merge" => job[p].batch \subseteq 1..Size
    /\ pc[p] \in Draining => job[p].batch \subseteq enqueued
    /\ pc[p] \in Draining \ {"next"} => job[p].id \in job[p].batch

Typed == TypeOK /\ JobShape

\* The next-state relation, action by action.
LEMMA NextIsAct == Next => \E p \in Procs : Act(p)
BY DEF Next, Act, Rewrites, Others, Store, Consolidation

\* Rows are moved on, or one is added.
LEMMA NodesKept ==
  ASSUME TypeOK, NEW p \in Procs, Act(p)
  PROVE  /\ Size \in Nat /\ DOMAIN nodes = 1..Size /\ nodes \in Seq(Node)
         /\ Rewrites(p) \/ Others(p) => RowsKept
         /\ Others(p) => UNCHANGED nodes
<1>1. NodesType
  BY DEF TypeOK, NodesType, Size
<1>2. nodes \in Seq(Node) /\ Size \in Nat /\ DOMAIN nodes = 1..Size
  BY <1>1, LenProperties DEF NodesType, Size
<1>3. Others(p) => UNCHANGED nodes
  BY DEF Others, Check, Enqueue, Invalidate, Consolidate, Merged, Drain, Kill,
         ReadQueue, ReadNode, InsertAtom, IndexAtom, Dequeue, Drained
<1>4. UNCHANGED nodes => RowsKept
  BY <1>2 DEF RowsKept, Kin, Size
<1>5. Rewrites(p) => RowsKept
  BY <1>1, UpdateMoves, RemoveMoves, RestoreMoves, PurgeMoves, SupersedeMoves,
     MergeMoves DEF Rewrites
<1> QED
  BY <1>2, <1>3, <1>4, <1>5 DEF Act

\* A new row is the last one, and says what was checked.
LEMMA NodeAdded ==
  ASSUME TypeOK, NEW p \in Procs, InsertNode(p)
  PROVE  /\ nodes' \in Seq(Node) /\ Size' = Size + 1 /\ Size' <= MaxNodes
         /\ \A i \in 1..Size : nodes'[i] = nodes[i]
         /\ nodes'[Size + 1] = Fresh(job[p].fact, job[p].forced, job[p].seen)
<1>1. Fresh(job[p].fact, job[p].forced, job[p].seen) \in Node
  BY DEF Fresh, Node, TypeOK, Job
<1>2. nodes \in Seq(Node) /\ Size < MaxNodes /\ Size \in Nat
      /\ nodes' = Append(nodes, Fresh(job[p].fact, job[p].forced, job[p].seen))
  BY LenProperties DEF InsertNode, TypeOK, Size
<1> QED
  BY <1>1, <1>2, AppendProperties, FactStoreAssumption DEF Size

\* No job at all is a job.
LEMMA NoJobTyped == NoJob \in Job /\ NoJob.id = 0 /\ NoJob.batch = {} /\ NoJob.seen = 0
<1>1. PICK f \in Facts : f = (CHOOSE x \in Facts : TRUE)
  BY FactStoreAssumption
<1> QED
  BY <1>1, FactStoreAssumption DEF NoJob, Job, NoId

\* The steps that rewrite rows.
LEMMA RewritesTyped ==
  ASSUME Typed, NEW p \in Procs, Rewrites(p)
  PROVE  Typed'
<1>1. RowsKept /\ Size \in Nat
  BY NodesKept DEF Typed, Act
<1>2. /\ UNCHANGED others
      /\ pc' \in [Procs -> {"idle", "insert node", "enqueue", "supersede", "merge",
                            "next", "insert", "index", "dequeue", "gone", "dead"}]
      /\ \A q \in Procs \ {p} : pc'[q] = pc[q] /\ job'[q] = job[q]
      /\ pc'[p] \in {"gone", "merge"}
      /\ pc'[p] = "merge" => pc[p] = "merge" /\ job'[p].batch \subseteq job[p].batch
      /\ job' \in [Procs -> Job]
  <2>1. CASE Update(p)
    BY <2>1 DEF Update, Goto, Typed, TypeOK
  <2>2. CASE Remove(p)
    BY <2>2 DEF Remove, Goto, Typed, TypeOK
  <2>3. CASE Restore(p)
    BY <2>3 DEF Restore, Goto, Typed, TypeOK
  <2>4. CASE Purge(p)
    BY <2>4 DEF Purge, Goto, Typed, TypeOK
  <2>5. CASE Supersede(p)
    BY <2>5, NoJobTyped DEF Supersede, Goto, Typed, TypeOK
  <2>6. CASE Merge(p)
    <3>1. PICK i \in job[p].batch : job' = [job EXCEPT ![p].batch = @ \ {i}]
      BY <2>6 DEF Merge
    <3>2. job[p] \in Job
      BY DEF Typed, TypeOK
    <3>3. [job[p] EXCEPT !.batch = @ \ {i}] \in Job
      BY <3>2 DEF Job
    <3>4. /\ job' = [job EXCEPT ![p] = [job[p] EXCEPT !.batch = @ \ {i}]]
          /\ job'[p] = [job[p] EXCEPT !.batch = @ \ {i}]
          /\ [job[p] EXCEPT !.batch = @ \ {i}].batch = job[p].batch \ {i}
      BY <3>1, <3>2 DEF Typed, TypeOK, Job
    <3>5. pc[p] = "merge" /\ pc' = [pc EXCEPT ![p] = "merge"] /\ UNCHANGED others
      BY <2>6 DEF Merge, Goto
    <3> QED
      BY <3>3, <3>4, <3>5 DEF Typed, TypeOK
  <2> QED
    BY <2>1, <2>2, <2>3, <2>4, <2>5, <2>6 DEF Rewrites
<1>3. DOMAIN nodes' = DOMAIN nodes /\ Size' = Size /\ nodes' \in Seq(Node)
  BY <1>1, LenProperties DEF RowsKept, Size, Typed, TypeOK
<1>4. TypeOK'
  BY <1>2, <1>3 DEF Typed, TypeOK, others, Size
<1>5. JobShape'
  BY <1>2, <1>3 DEF Typed, JobShape, others, Draining
<1> QED
  BY <1>4, <1>5 DEF Typed

\* The types, taken apart.
LEMMA Parts ==
  ASSUME TypeOK, NEW q \in Procs
  PROVE  /\ job[q] \in Job
         /\ job[q].seen \in Nat /\ job[q].id \in Nat /\ job[q].fact \in Facts
         /\ job[q].batch \subseteq Ids /\ job[q].left \subseteq Pieces
         /\ Size \in Nat /\ queue \subseteq enqueued /\ enqueued \subseteq 1..Size
<1>1. job[q] \in Job
  BY DEF TypeOK
<1>2. /\ job[q].seen \in Nat /\ job[q].id \in Nat /\ job[q].fact \in Facts
      /\ job[q].batch \subseteq Ids /\ job[q].left \subseteq Pieces
  BY <1>1, FactStoreAssumption DEF Job
<1>3. DOMAIN nodes = 1..Size /\ Size \in Nat
  BY LenProperties DEF TypeOK, Size
<1>4. queue \subseteq enqueued /\ enqueued \subseteq DOMAIN nodes
  BY Zenon DEF TypeOK
<1> QED
  BY <1>1, <1>2, <1>3, <1>4

\* A new row: its id goes to the command that will queue it.
LEMMA InsertTyped ==
  ASSUME Typed, NEW p \in Procs, InsertNode(p)
  PROVE  Typed'
<1>1. /\ nodes' \in Seq(Node) /\ Size' = Size + 1 /\ Size' <= MaxNodes
      /\ Size \in Nat
  BY NodeAdded, NodesKept DEF Typed, Act
<1>2. DOMAIN nodes = 1..Size /\ DOMAIN nodes' = 1..(Size + 1)
  BY <1>1, LenProperties DEF Size, Typed, TypeOK
<1>3. /\ UNCHANGED <<queue, enqueued, atoms, kills>> /\ pc[p] = "insert node"
      /\ pc' = [pc EXCEPT ![p] = "enqueue"]
      /\ job' = [job EXCEPT ![p] = [NoJob EXCEPT !.id = Size + 1]]
  BY DEF InsertNode, Goto, Size, others
<1>4. [NoJob EXCEPT !.id = Size + 1] \in Job /\ [NoJob EXCEPT !.id = Size + 1].id = Size + 1
  BY <1>1, NoJobTyped, FactStoreAssumption DEF Job
<1>5. TypeOK'
  <2>1. pc' \in [Procs -> {"idle", "insert node", "enqueue", "supersede", "merge",
                            "next", "insert", "index", "dequeue", "gone", "dead"}]
        /\ job' \in [Procs -> Job]
    BY <1>3, <1>4 DEF Typed, TypeOK
  <2>2. enqueued \subseteq 1..Size /\ 1..Size \subseteq 1..(Size + 1)
    BY <1>1, Parts DEF Typed
  <2>3. enqueued' \subseteq DOMAIN nodes'
    BY <1>2, <1>3, <2>2
  <2> QED
    BY <1>1, <1>3, <2>1, <2>3 DEF Typed, TypeOK, Size
<1>6. ASSUME NEW q \in Procs
      PROVE  /\ pc'[q] = "enqueue" => job'[q].id \in 1..Size'
             /\ pc'[q] = "insert node" => job'[q].seen <= Size'
             /\ pc'[q] = "merge" => job'[q].batch \subseteq 1..Size'
             /\ pc'[q] \in Draining => job'[q].batch \subseteq enqueued'
             /\ pc'[q] \in Draining \ {"next"} => job'[q].id \in job'[q].batch
  <2>1. CASE q = p
    <3>1. pc'[q] = "enqueue" /\ job'[q].id = Size + 1
      BY <1>3, <1>4, <2>1 DEF Typed, TypeOK
    <3> QED
      BY <1>1, <3>1 DEF Draining
  <2>2. CASE q # p
    <3>1. pc'[q] = pc[q] /\ job'[q] = job[q]
      BY <1>3, <2>2 DEF Typed, TypeOK
    <3>2. job[q].seen \in Nat
      BY Parts DEF Typed
    <3> QED
      <4>1. /\ pc[q] = "enqueue" => job[q].id \in 1..Size
            /\ pc[q] = "insert node" => job[q].seen <= Size
            /\ pc[q] = "merge" => job[q].batch \subseteq 1..Size
            /\ pc[q] \in Draining => job[q].batch \subseteq enqueued
            /\ pc[q] \in Draining \ {"next"} => job[q].id \in job[q].batch
        BY DEF Typed, JobShape
      <4>2. 1..Size \subseteq 1..Size' /\ \A m \in Nat : m <= Size => m <= Size'
        BY <1>1
      <4> QED
        BY <1>3, <3>1, <3>2, <4>1, <4>2
  <2> QED
    BY <2>1, <2>2
<1> QED
  BY <1>5, <1>6 DEF Typed, JobShape

\* What every step of one command leaves of the others, with the rows as they are.
LEMMA SideTyped ==
  ASSUME Typed, NEW p \in Procs, UNCHANGED nodes,
         NEW at \in {"idle", "insert node", "enqueue", "supersede", "merge",
                     "next", "insert", "index", "dequeue", "gone", "dead"},
         NEW j \in Job,
         pc' = [pc EXCEPT ![p] = at], job' = [job EXCEPT ![p] = j],
         queue' \subseteq enqueued', enqueued \subseteq enqueued',
         enqueued' \subseteq 1..Size, atoms' \subseteq Atom, kills' \in 0..MaxKills,
         at = "enqueue" => j.id \in 1..Size,
         at = "insert node" => j.seen <= Size,
         at = "merge" => j.batch \subseteq 1..Size,
         at \in Draining => j.batch \subseteq enqueued',
         at \in Draining \ {"next"} => j.id \in j.batch
  PROVE  Typed'
<1>1. nodes \in Seq(Node) /\ DOMAIN nodes = 1..Size /\ Size' = Size
  BY LenProperties DEF Typed, TypeOK, Size
<1>2. TypeOK'
  BY <1>1 DEF Typed, TypeOK
<1>3. /\ pc'[p] = at /\ job'[p] = j
      /\ \A q \in Procs \ {p} : pc'[q] = pc[q] /\ job'[q] = job[q]
  BY DEF Typed, TypeOK
<1>4. JobShape'
  BY <1>1, <1>3 DEF Typed, JobShape
<1> QED
  BY <1>2, <1>4 DEF Typed

\* The statements that leave the rows alone.
LEMMA OthersTyped ==
  ASSUME Typed, NEW p \in Procs, Others(p)
  PROVE  Typed'
<1> DEFINE Ats == {"idle", "insert node", "enqueue", "supersede", "merge",
                   "next", "insert", "index", "dequeue", "gone", "dead"}
<1>1. UNCHANGED nodes
  BY NodesKept DEF Typed, Act
<1>2. job[p] \in Job /\ Size \in Nat /\ Size <= MaxNodes /\ DOMAIN nodes = 1..Size
  BY Parts, LenProperties DEF Typed, TypeOK, Size
<1>4. /\ queue \subseteq enqueued /\ enqueued \subseteq 1..Size
      /\ atoms \subseteq Atom /\ kills \in 0..MaxKills
  BY Parts DEF Typed, TypeOK
<1>5. pc \in [Procs -> Ats] /\ job \in [Procs -> Job]
  BY DEF Typed, TypeOK
<1>3. Rows("kept") \subseteq 1..Size /\ Rows("purged") \subseteq 1..Size
  BY <1>2 DEF Rows
<1>a. CASE Check(p)
  <2>1. PICK f \in Facts, forced \in BOOLEAN :
          \/ /\ Goto(p, "idle", "insert node")
             /\ job' = [job EXCEPT ![p] = [NoJob EXCEPT !.fact = f,
                          !.forced = forced, !.seen = Len(nodes)]]
          \/ Goto(p, "idle", "gone") /\ UNCHANGED job
    BY <1>a DEF Check
  <2>2. UNCHANGED <<queue, enqueued, atoms, kills>>
    BY <1>a DEF Check, others
  <2>3. [NoJob EXCEPT !.fact = f, !.forced = forced, !.seen = Size] \in Job
        /\ [NoJob EXCEPT !.fact = f, !.forced = forced, !.seen = Size].seen = Size
    <3>1. Size \in 0..MaxNodes
      BY <1>2, FactStoreAssumption
    <3> QED
      BY <3>1, NoJobTyped DEF Job
  <2>4. CASE Goto(p, "idle", "gone") /\ UNCHANGED job
    <3>1. pc' = [pc EXCEPT ![p] = "gone"] /\ job' = [job EXCEPT ![p] = job[p]]
      BY <1>5, <2>4 DEF Goto
    <3> QED
      BY <1>1, <1>2, <1>4, <2>2, <3>1, SideTyped DEF Draining
  <2>5. CASE /\ Goto(p, "idle", "insert node")
             /\ job' = [job EXCEPT ![p] = [NoJob EXCEPT !.fact = f,
                          !.forced = forced, !.seen = Len(nodes)]]
    <3>1. pc' = [pc EXCEPT ![p] = "insert node"]
          /\ job' = [job EXCEPT ![p] = [NoJob EXCEPT !.fact = f,
                       !.forced = forced, !.seen = Size]]
      BY <2>5 DEF Goto, Size
    <3>2. Size <= Size
      BY <1>2
    <3> HIDE DEF Size
    <3> QED
      BY <1>1, <1>4, <2>2, <2>3, <3>1, <3>2, SideTyped DEF Draining
  <2> QED
    BY <2>1, <2>4, <2>5
<1>b. CASE Enqueue(p)
  <2>1. PICK add \in {{}, {job[p].id}} :
          queue' = queue \cup add /\ enqueued' = enqueued \cup add
    BY <1>b DEF Enqueue
  <2>2. pc[p] = "enqueue" /\ pc' = [pc EXCEPT ![p] = "gone"]
        /\ job' = [job EXCEPT ![p] = NoJob] /\ UNCHANGED <<atoms, kills>>
    BY <1>b DEF Enqueue, Goto
  <2>3. job[p].id \in 1..Size
    BY <2>2 DEF Typed, JobShape
  <2>4. queue' \subseteq enqueued' /\ enqueued \subseteq enqueued'
        /\ enqueued' \subseteq 1..Size
    BY <1>4, <2>1, <2>3
  <2> QED
    BY <1>1, <1>4, <2>2, <2>4, NoJobTyped, SideTyped DEF Draining
<1>c. CASE Invalidate(p)
  <2>1. PICK i \in 1..Size : job' = [job EXCEPT ![p].id = i]
    BY <1>c, <1>2 DEF Invalidate
  <2>2. [job[p] EXCEPT !.id = i] \in Job
        /\ job' = [job EXCEPT ![p] = [job[p] EXCEPT !.id = i]]
    BY <1>2, <2>1, FactStoreAssumption DEF Job
  <2>3. pc' = [pc EXCEPT ![p] = "supersede"] /\ UNCHANGED <<queue, enqueued, atoms, kills>>
    BY <1>c DEF Invalidate, Goto, others
  <2> QED
    BY <1>1, <1>4, <2>2, <2>3, SideTyped DEF Draining
<1>d. CASE Consolidate(p)
  <2>1. PICK K \in Keepers : job' = [job EXCEPT ![p].batch = Losers(K)]
    BY <1>d DEF Consolidate
  <2>2. Losers(K) \subseteq 1..Size /\ 1..Size \subseteq Ids
    BY <1>2, <1>3, FactStoreAssumption DEF Losers, Live, Ids
  <2>3. [job[p] EXCEPT !.batch = Losers(K)] \in Job
        /\ [job[p] EXCEPT !.batch = Losers(K)].batch = Losers(K)
        /\ job' = [job EXCEPT ![p] = [job[p] EXCEPT !.batch = Losers(K)]]
    BY <1>2, <2>1, <2>2 DEF Job
  <2>4. pc' = [pc EXCEPT ![p] = "merge"] /\ UNCHANGED <<queue, enqueued, atoms, kills>>
    BY <1>d DEF Consolidate, Goto, others
  <2> QED
    BY <1>1, <1>4, <2>2, <2>3, <2>4, SideTyped DEF Draining
<1>e. CASE Merged(p) \/ Drained(p)
  <2>1. pc' = [pc EXCEPT ![p] = "gone"] /\ job' = [job EXCEPT ![p] = job[p]]
        /\ UNCHANGED <<queue, enqueued, atoms, kills>>
    BY <1>e, <1>5 DEF Merged, Drained, Goto, others
  <2> QED
    BY <1>1, <1>2, <1>4, <2>1, SideTyped DEF Draining
<1>f. CASE ReadQueue(p)
  <2>1. PICK B \in SUBSET queue : job' = [job EXCEPT ![p].batch = B]
    BY <1>f DEF ReadQueue
  <2>2. B \subseteq enqueued /\ B \subseteq Ids
    BY <1>2, <1>4, <2>1, FactStoreAssumption DEF Ids
  <2>3. [job[p] EXCEPT !.batch = B] \in Job /\ [job[p] EXCEPT !.batch = B].batch = B
        /\ job' = [job EXCEPT ![p] = [job[p] EXCEPT !.batch = B]]
    BY <1>2, <2>1, <2>2 DEF Job
  <2>4. pc' = [pc EXCEPT ![p] = "next"] /\ UNCHANGED <<queue, enqueued, atoms, kills>>
    BY <1>f DEF ReadQueue, Goto, others
  <2> QED
    BY <1>1, <1>4, <2>2, <2>3, <2>4, SideTyped DEF Draining
<1>g. CASE ReadNode(p)
  <2>1. PICK i \in job[p].batch, at \in {"insert", "dequeue"} :
          /\ Goto(p, "next", at)
          /\ job' = [job EXCEPT ![p].id = i, ![p].left = Pieces, ![p].fact = nodes[i].fact]
    BY <1>g DEF ReadNode
  <2>2. pc[p] = "next" /\ pc' = [pc EXCEPT ![p] = at]
        /\ UNCHANGED <<queue, enqueued, atoms, kills>>
    BY <1>g, <2>1 DEF ReadNode, Goto, others
  <2>3. job[p].batch \subseteq enqueued
    BY <2>2 DEF Typed, JobShape, Draining
  <2>4. i \in 1..Size /\ nodes[i] \in Node /\ nodes[i].fact \in Facts
    <3>1. i \in 1..Size /\ nodes \in Seq(Node)
      BY <1>4, <2>1, <2>3 DEF Typed, TypeOK
    <3>2. nodes[i] \in Node
      BY <1>2, <3>1, ElementOfSeq DEF Size
    <3> QED
      BY <3>1, <3>2 DEF Node
  <2> DEFINE j == [job[p] EXCEPT !.id = i, !.left = Pieces, !.fact = nodes[i].fact]
  <2>5. j \in Job /\ j.batch = job[p].batch /\ j.id = i
    <3>1. i \in 0..MaxNodes
      BY <1>2, <2>4, FactStoreAssumption
    <3> QED
      BY <1>2, <2>4, <3>1 DEF Job
  <2>6. job' = [job EXCEPT ![p] = j]
    BY <1>5, <2>1
  <2> HIDE DEF j
  <2> QED
    BY <1>1, <1>4, <2>1, <2>2, <2>3, <2>5, <2>6, SideTyped DEF Draining
<1>h. CASE InsertAtom(p)
  <2>1. PICK k \in job[p].left :
          /\ atoms' = atoms \cup {[node |-> job[p].id, fact |-> job[p].fact,
                                   piece |-> k, by |-> p, indexed |-> FALSE]}
          /\ job' = [job EXCEPT ![p].left = @ \ {k}]
    BY <1>h DEF InsertAtom
  <2>2. pc[p] = "insert" /\ pc' = [pc EXCEPT ![p] = "index"]
        /\ UNCHANGED <<queue, enqueued, kills>>
    BY <1>h DEF InsertAtom, Goto
  <2>3. job[p].batch \subseteq enqueued /\ job[p].id \in job[p].batch
    BY <2>2 DEF Typed, JobShape, Draining
  <2>4. job[p].id \in Ids
    <3>1. job[p].id \in 1..Size
      BY <1>4, <2>3
    <3> QED
      BY <1>2, <3>1, FactStoreAssumption DEF Ids
  <2> DEFINE j == [job[p] EXCEPT !.left = @ \ {k}]
  <2>5. j \in Job /\ j.batch = job[p].batch /\ j.id = job[p].id
    BY <1>2 DEF Job
  <2>6. job' = [job EXCEPT ![p] = j]
    BY <1>5, <2>1 DEF Job
  <2>7. atoms' \subseteq Atom
    <3>1. job[p].fact \in Facts /\ k \in Pieces
      BY <1>2, <2>1 DEF Job
    <3>2. [node |-> job[p].id, fact |-> job[p].fact, piece |-> k, by |-> p,
           indexed |-> FALSE] \in Atom
      BY <2>4, <3>1 DEF Atom
    <3> QED
      BY <1>4, <2>1, <3>2
  <2> HIDE DEF j
  <2> QED
    BY <1>1, <1>4, <2>2, <2>3, <2>5, <2>6, <2>7, SideTyped DEF Draining
<1>i. CASE IndexAtom(p)
  <2>1. PICK at \in {"insert", "dequeue"} : Goto(p, "index", at)
    BY <1>i DEF IndexAtom, AfterIndex
  <2>2. pc[p] = "index" /\ pc' = [pc EXCEPT ![p] = at]
        /\ job' = [job EXCEPT ![p] = job[p]] /\ UNCHANGED <<queue, enqueued, kills>>
    BY <1>i, <1>5, <2>1 DEF IndexAtom, Goto
  <2>3. job[p].batch \subseteq enqueued /\ job[p].id \in job[p].batch
    BY <2>2 DEF Typed, JobShape, Draining
  <2>4. ASSUME NEW a \in Atom PROVE [a EXCEPT !.indexed = TRUE] \in Atom
    BY DEF Atom
  <2>5. Mine(p) \subseteq atoms
        /\ atoms' = (atoms \ Mine(p)) \cup {[a EXCEPT !.indexed = TRUE] : a \in Mine(p)}
    BY <1>i DEF IndexAtom, Mine
  <2>6. atoms' \subseteq Atom
    BY <1>4, <2>4, <2>5
  <2> QED
    BY <1>1, <1>2, <1>4, <2>1, <2>2, <2>3, <2>6, SideTyped DEF Draining
<1>j. CASE Dequeue(p)
  <2> DEFINE j == [NoJob EXCEPT !.batch = job[p].batch \ {job[p].id}]
  <2>1. pc[p] = "dequeue" /\ pc' = [pc EXCEPT ![p] = "next"]
        /\ queue' = queue \ {job[p].id} /\ job' = [job EXCEPT ![p] = j]
        /\ UNCHANGED <<enqueued, atoms, kills>>
    BY <1>j DEF Dequeue, Goto
  <2>2. job[p].batch \subseteq enqueued
    BY <2>1 DEF Typed, JobShape, Draining
  <2>3. j \in Job /\ j.batch \subseteq enqueued
    BY <1>2, <2>2, NoJobTyped DEF Job
  <2>4. queue' \subseteq enqueued
    BY <1>4, <2>1
  <2> HIDE DEF j
  <2> QED
    BY <1>1, <1>4, <2>1, <2>3, <2>4, SideTyped DEF Draining
<1>k. CASE Kill(p)
  <2>1. pc' = [pc EXCEPT ![p] = "dead"] /\ job' = [job EXCEPT ![p] = NoJob]
        /\ UNCHANGED <<queue, enqueued, atoms>> /\ kills' \in 0..MaxKills
    BY <1>k, <1>4, FactStoreAssumption DEF Kill
  <2> QED
    BY <1>1, <1>4, <2>1, NoJobTyped, SideTyped DEF Draining
<1> QED
  BY <1>a, <1>b, <1>c, <1>d, <1>e, <1>f, <1>g, <1>h, <1>i, <1>j, <1>k DEF Others, Drain

\* A sequence of one.
LEMMA OneRow ==
  ASSUME NEW S, NEW x \in S
  PROVE  <<x>> \in Seq(S) /\ Len(<<x>>) = 1 /\ <<x>>[1] = x
OBVIOUS

\* The initial states are typed.
LEMMA InitTyped == Init => Typed
<1> SUFFICES ASSUME Init PROVE Typed
  OBVIOUS
<1>1. pc = [p \in Procs |-> "idle"] /\ job = [p \in Procs |-> NoJob] /\ kills = 0
      /\ atoms = {} /\ enqueued = queue
  BY DEF Init
<1>2. nodes \in Seq(Node) /\ Len(nodes) <= MaxNodes /\ enqueued \subseteq DOMAIN nodes
  <2>1. CASE nodes = <<>> /\ queue = {}
    <3>1. nodes \in Seq(Node) /\ Len(nodes) = 0
      BY <2>1, EmptySeq, Zenon
    <3> QED
      BY <1>1, <2>1, <3>1, FactStoreAssumption
  <2>2. CASE \E f \in Facts : nodes = <<Fresh(f, FALSE, 0)>> /\ queue = {1}
    <3>1. PICK f \in Facts : nodes = <<Fresh(f, FALSE, 0)>> /\ queue = {1}
      BY <2>2
    <3>2. Fresh(f, FALSE, 0) \in Node
      BY FactStoreAssumption DEF Fresh, Node
    <3>3. nodes = <<Fresh(f, FALSE, 0)>>
      BY <3>1
    <3>4. nodes \in Seq(Node) /\ Len(nodes) = 1
      BY <3>2, <3>3, OneRow
    <3>5. DOMAIN nodes = 1..1
      BY <3>4, LenProperties
    <3>6. enqueued \subseteq DOMAIN nodes
      BY <1>1, <3>1, <3>5
    <3> QED
      BY <3>4, <3>6, FactStoreAssumption
  <2> QED
    BY <2>1, <2>2 DEF Init
<1> QED
  BY <1>1, <1>2, NoJobTyped, FactStoreAssumption DEF Typed, TypeOK, JobShape, Draining

\* Every reachable state is typed.
LEMMA StepTyped == Typed /\ [Next]_vars => Typed'
<1> SUFFICES ASSUME Typed, [Next]_vars PROVE Typed'
  OBVIOUS
<1>1. CASE Next
  <2>1. PICK p \in Procs : Act(p)
    BY <1>1, NextIsAct
  <2> QED
    BY <2>1, RewritesTyped, InsertTyped, OthersTyped DEF Act
<1>2. CASE UNCHANGED vars
  BY <1>2 DEF vars, Typed, TypeOK, JobShape, Size, Job, Atom, Node
<1> QED
  BY <1>1, <1>2

-----------------------------------------------------------------------------
(* Who marks a row, and where a step leads.                                *)

\* A row gets the mark of a command only when that command merges it.
LEMMA Marks ==
  ASSUME Typed, NEW q \in Procs, Rewrites(q), NEW p \in Procs, NEW k \in 1..Size,
         p \in nodes'[k].was, p \notin nodes[k].was
  PROVE  p = q /\ pc[q] = "merge" /\ k \in job[q].batch
<1>0. nodes \in Seq(Node)
  BY DEF Typed, TypeOK
<1>a. k \in DOMAIN nodes /\ nodes[k] \in Node
  BY <1>0, LenProperties, ElementOfSeq DEF Size
<1>b. p # "forgotten" /\ p # "updated"
  BY FactStoreAssumption
<1>1. k \in DOMAIN nodes /\ nodes[k] \in Node /\ p # "forgotten" /\ p # "updated"
  BY <1>a, <1>b
<1>2. CASE Update(q)
  <2>1. PICK i \in DOMAIN nodes \ Rows("purged"), f \in Facts :
          Rewrite({i}, LAMBDA n : [n EXCEPT !.fact = f], {"updated"})
    BY <1>2 DEF Update
  <2>2. nodes'[k] = nodes[k] \/
        nodes'[k] = [[nodes[k] EXCEPT !.fact = f] EXCEPT !.was = @ \cup {"updated"}]
    BY <1>1, <2>1 DEF Rewrite
  <2>3. nodes'[k].was = nodes[k].was \/ nodes'[k].was = nodes[k].was \cup {"updated"}
    BY <1>1, <2>2 DEF Node
  <2> QED
    BY <1>1, <2>3
<1>3. CASE Remove(q)
  <2>1. PICK S : Rewrite(S, LAMBDA n : [n EXCEPT !.kept = "forgotten"], {"forgotten"})
    BY <1>3 DEF Remove
  <2>2. nodes'[k] = nodes[k] \/
        nodes'[k] = [[nodes[k] EXCEPT !.kept = "forgotten"] EXCEPT !.was = @ \cup {"forgotten"}]
    BY <1>1, <2>1 DEF Rewrite
  <2>3. nodes'[k].was = nodes[k].was \/ nodes'[k].was = nodes[k].was \cup {"forgotten"}
    BY <1>1, <2>2 DEF Node
  <2> QED
    BY <1>1, <2>3
<1>4. CASE Restore(q)
  <2>1. PICK i : Rewrite({i}, LAMBDA n : [n EXCEPT !.kept = "kept"], {})
    BY <1>4 DEF Restore
  <2>2. nodes'[k] = nodes[k] \/
        nodes'[k] = [[nodes[k] EXCEPT !.kept = "kept"] EXCEPT !.was = @ \cup {}]
    BY <1>1, <2>1 DEF Rewrite
  <2>3. nodes'[k].was = nodes[k].was \/ nodes'[k].was = nodes[k].was \cup {}
    BY <1>1, <2>2 DEF Node
  <2> QED
    BY <1>1, <2>3
<1>5. CASE Purge(q)
  <2>1. PICK S : Rewrite(S, LAMBDA n : [n EXCEPT !.kept = "purged"], {})
    BY <1>5 DEF Purge
  <2>2. nodes'[k] = nodes[k] \/
        nodes'[k] = [[nodes[k] EXCEPT !.kept = "purged"] EXCEPT !.was = @ \cup {}]
    BY <1>1, <2>1 DEF Rewrite
  <2>3. nodes'[k].was = nodes[k].was \/ nodes'[k].was = nodes[k].was \cup {}
    BY <1>1, <2>2 DEF Node
  <2> QED
    BY <1>1, <2>3
<1>6. CASE Supersede(q)
  <2>0. PICK j \in DOMAIN nodes :
          Rewrite({i \in {job[q].id} : nodes[i].by = Nobody /\ nodes[i].kept # "purged"},
                  LAMBDA n : [n EXCEPT !.by = j], {})
    BY <1>6 DEF Supersede
  <2> DEFINE S == {i \in {job[q].id} : nodes[i].by = Nobody /\ nodes[i].kept # "purged"}
  <2>1. Rewrite(S, LAMBDA n : [n EXCEPT !.by = j], {})
    BY <2>0
  <2>2. nodes'[k] = nodes[k] \/
        nodes'[k] = [[nodes[k] EXCEPT !.by = j] EXCEPT !.was = @ \cup {}]
    BY <1>1, <2>1 DEF Rewrite
  <2>3. nodes'[k].was = nodes[k].was \/ nodes'[k].was = nodes[k].was \cup {}
    BY <1>1, <2>2 DEF Node
  <2> QED
    BY <1>1, <2>3
<1>7. CASE Merge(q)
  <2>1. PICK i \in job[q].batch :
          Rewrite({i} \ Rows("purged"), LAMBDA n : [n EXCEPT !.kept = "forgotten"], {q})
    BY <1>7 DEF Merge
  <2>2. nodes'[k] = nodes[k] \/ (k = i /\
        nodes'[k] = [[nodes[k] EXCEPT !.kept = "forgotten"] EXCEPT !.was = @ \cup {q}])
    BY <1>1, <2>1 DEF Rewrite
  <2>3. pc[q] = "merge"
    BY <1>7 DEF Merge, Goto
  <2>4. nodes'[k].was = nodes[k].was \/ (k = i /\ nodes'[k].was = nodes[k].was \cup {q})
    BY <1>1, <2>2 DEF Node
  <2> QED
    BY <2>1, <2>3, <2>4
<1> QED
  BY <1>2, <1>3, <1>4, <1>5, <1>6, <1>7 DEF Rewrites

\* Nobody becomes idle, and two places are entered by one statement each.
LEMMA Places ==
  ASSUME Typed, NEW q \in Procs, Act(q)
  PROVE  /\ \A p \in Procs \ {q} : pc'[p] = pc[p] /\ job'[p] = job[p]
         /\ pc'[q] # "idle"
         /\ pc'[q] = "insert node" => Check(q)
         /\ pc'[q] = "merge" =>
              (Consolidate(q) \/ (pc[q] = "merge" /\ job'[q].batch \subseteq job[q].batch))
<1>1. pc \in [Procs -> {"idle", "insert node", "enqueue", "supersede", "merge",
                       "next", "insert", "index", "dequeue", "gone", "dead"}]
      /\ job \in [Procs -> Job]
  BY DEF Typed, TypeOK
<1>2. CASE Check(q)
  BY <1>1, <1>2 DEF Check, Goto
<1>3. CASE InsertNode(q) \/ Enqueue(q) \/ Update(q) \/ Remove(q) \/ Restore(q) \/ Purge(q)
  BY <1>1, <1>3 DEF InsertNode, Enqueue, Update, Remove, Restore, Purge, Goto
<1>4. CASE Invalidate(q) \/ Supersede(q) \/ Merged(q)
  BY <1>1, <1>4 DEF Invalidate, Supersede, Merged, Goto
<1>d. CASE Consolidate(q)
  <2>1. PICK K \in Keepers : job' = [job EXCEPT ![q].batch = Losers(K)]
    BY <1>d DEF Consolidate
  <2>2. pc[q] = "idle" /\ pc' = [pc EXCEPT ![q] = "merge"]
    BY <1>d DEF Consolidate, Goto
  <2>3. \A x \in Procs \ {q} : pc'[x] = pc[x] /\ job'[x] = job[x]
    BY <1>1, <2>1, <2>2
  <2>4. pc'[q] = "merge"
    BY <1>1, <2>2
  <2>5. pc'[q] # "idle" /\ pc'[q] # "insert node"
    BY <2>4
  <2> QED
    BY <1>d, <2>3, <2>5
<1>5. CASE Merge(q)
  <2>1. PICK i \in job[q].batch : job' = [job EXCEPT ![q].batch = @ \ {i}]
    BY <1>5 DEF Merge
  <2>2. pc[q] = "merge" /\ pc' = [pc EXCEPT ![q] = "merge"]
    BY <1>5 DEF Merge, Goto
  <2>3. job[q] \in Job
    BY <1>1
  <2>4. job' = [job EXCEPT ![q] = [job[q] EXCEPT !.batch = @ \ {i}]]
        /\ [job[q] EXCEPT !.batch = @ \ {i}].batch = job[q].batch \ {i}
    BY <1>1, <2>1, <2>3 DEF Job
  <2> QED
    BY <1>1, <2>2, <2>4
<1>6. CASE ReadQueue(q) \/ InsertAtom(q) \/ Dequeue(q) \/ Drained(q)
  BY <1>1, <1>6 DEF ReadQueue, InsertAtom, Dequeue, Drained, Goto
<1>7. CASE ReadNode(q)
  <2>1. PICK i \in job[q].batch, at \in {"insert", "dequeue"} :
          /\ Goto(q, "next", at)
          /\ job' = [job EXCEPT ![q].id = i, ![q].left = Pieces, ![q].fact = nodes[i].fact]
    BY <1>7 DEF ReadNode
  <2> QED
    BY <1>1, <2>1 DEF Goto
<1>8. CASE IndexAtom(q)
  <2>1. PICK at \in {"insert", "dequeue"} : Goto(q, "index", at) /\ UNCHANGED job
    BY <1>8 DEF IndexAtom, AfterIndex
  <2> QED
    BY <1>1, <2>1 DEF Goto
<1>9. CASE Kill(q)
  BY <1>1, <1>9 DEF Kill
<1> QED
  BY <1>2, <1>3, <1>4, <1>d, <1>5, <1>6, <1>7, <1>8, <1>9 DEF Act, Rewrites, Others, Drain

-----------------------------------------------------------------------------
(* What store() checked.                                                   *)

\* A row that is not kept was forgotten by somebody.
Marked == \A i \in 1..Size : nodes[i].kept # "kept" => nodes[i].was \cap Forgetful # {}

\* What a duplicate check saw, before and after the INSERT it allowed.
Checked ==
  /\ \A p \in Procs : \A i \in 1..Size :
       (pc[p] = "insert node" /\ ~job[p].forced /\ i <= job[p].seen
        /\ nodes[i].fact = job[p].fact) => nodes[i].was # {}
  /\ \A i, j \in 1..Size :
       (i < j /\ i <= nodes[j].seen /\ ~nodes[j].forced /\ nodes[i].fact = nodes[j].fact)
         => nodes[i].was # {} \/ nodes[j].was # {}

Saw == Typed /\ Marked /\ Checked

\* The rows, taken apart.
LEMMA RowParts ==
  ASSUME Typed, NEW i \in 1..Size
  PROVE  /\ nodes[i] \in Node /\ nodes[i].seen \in Nat
         /\ nodes[i].by \in Ids \cup {Nobody} /\ Nobody \notin Ids
         /\ nodes[i].kept \in {"kept", "forgotten", "purged"}
         /\ i \in DOMAIN nodes /\ Size \in Nat
<1>1. nodes \in Seq(Node)
  BY DEF Typed, TypeOK
<1>2. nodes[i] \in Node /\ i \in DOMAIN nodes /\ Size \in Nat
  BY <1>1, LenProperties, ElementOfSeq DEF Size
<1> QED
  BY <1>2, FactStoreAssumption DEF Node, Ids

\* The first command finds nothing, or nothing but a row nobody touched.
LEMMA SawInit == Init => Saw
<1> SUFFICES ASSUME Init PROVE Saw
  OBVIOUS
<1>1. Typed
  BY InitTyped
<1>2. \A i \in 1..Size : i = 1 /\ nodes[i].kept = "kept"
  <2>1. CASE nodes = <<>>
    <3>1. Size = 0
      BY <2>1, EmptySeq, Zenon DEF Size
    <3> QED
      BY <3>1
  <2>2. CASE \E f \in Facts : nodes = <<Fresh(f, FALSE, 0)>>
    <3>1. PICK f \in Facts : nodes = <<Fresh(f, FALSE, 0)>>
      BY <2>2
    <3>2. Len(nodes) = 1 /\ nodes[1] = Fresh(f, FALSE, 0)
      BY <3>1, OneRow
    <3> QED
      BY <3>2 DEF Fresh, Size
  <2> QED
    BY <2>1, <2>2 DEF Init
<1>3. \A p \in Procs : pc[p] = "idle"
  BY DEF Init
<1> QED
  <2>1. Marked
    BY <1>2 DEF Marked
  <2>2. \A i, j \in 1..Size : ~(i < j)
    BY <1>2
  <2>3. Checked
    BY <1>3, <2>2 DEF Checked
  <2> QED
    BY <1>1, <2>1, <2>3 DEF Saw

\* The check: every row of the fact is marked.
LEMMA CheckSees ==
  ASSUME Typed, Marked, NEW p \in Procs, Check(p), pc'[p] = "insert node",
         ~job'[p].forced
  PROVE  \A i \in 1..Size : nodes[i].fact = job'[p].fact => nodes[i].was # {}
<1>1. PICK f \in Facts, forced \in BOOLEAN :
        /\ Passes(f, forced)
        /\ job' = [job EXCEPT ![p] = [NoJob EXCEPT !.fact = f,
                      !.forced = forced, !.seen = Len(nodes)]]
  <2>1. PICK f \in Facts, forced \in BOOLEAN :
          IF Passes(f, forced)
          THEN /\ Goto(p, "idle", "insert node")
               /\ job' = [job EXCEPT ![p] = [NoJob EXCEPT !.fact = f,
                            !.forced = forced, !.seen = Len(nodes)]]
          ELSE Goto(p, "idle", "gone") /\ UNCHANGED job
    BY DEF Check
  <2>2. ~Goto(p, "idle", "gone")
    BY DEF Goto, Typed, TypeOK
  <2> QED
    BY <2>1, <2>2
<1>2. job'[p].fact = f /\ job'[p].forced = forced
  BY <1>1, NoJobTyped DEF Typed, TypeOK, Job
<1>3. Similar(f) = {}
  BY <1>1, <1>2 DEF Passes
<1> QED
  <2> SUFFICES ASSUME NEW i \in 1..Size, nodes[i].fact = f PROVE nodes[i].was # {}
    BY <1>2
  <2>1. i \in DOMAIN nodes
    BY RowParts
  <2>2. nodes[i].kept # "kept"
    BY <1>3, <2>1 DEF Similar, Rows
  <2> QED
    BY <2>2 DEF Marked

\* A check is held against what is inserted, whoever runs between.
LEMMA SawStep == Saw /\ [Next]_vars => Saw'
<1> SUFFICES ASSUME Saw, [Next]_vars PROVE Saw'
  OBVIOUS
<1>0. Typed /\ Marked /\ Checked /\ Typed'
  BY StepTyped DEF Saw
<1>1. CASE Next
  <2>0. PICK q \in Procs : Act(q)
    BY <1>1, NextIsAct
  <2>1. \A p \in Procs \ {q} : pc'[p] = pc[p] /\ job'[p] = job[p]
    BY <1>0, <2>0, Places
  <2>2. CASE Rewrites(q) \/ Others(q)
    <3>1. RowsKept /\ Size' = Size /\ \A i \in 1..Size : Kin(nodes[i], nodes'[i])
      BY <1>0, <2>0, <2>2, NodesKept DEF Typed, RowsKept
    <3>2. Marked'
      <4> SUFFICES ASSUME NEW i \in 1..Size, nodes'[i].kept # "kept"
                   PROVE  nodes'[i].was \cap Forgetful # {}
        BY <3>1 DEF Marked
      <4>1. Kin(nodes[i], nodes'[i])
        BY <3>1
      <4>2. nodes[i].kept # "kept" => nodes[i].was \cap Forgetful # {}
        BY <1>0 DEF Marked
      <4> QED
        BY <4>1, <4>2 DEF Kin
    <3>3. ASSUME NEW p \in Procs, NEW i \in 1..Size, pc'[p] = "insert node",
                 ~job'[p].forced, i <= job'[p].seen, nodes'[i].fact = job'[p].fact
          PROVE  nodes'[i].was # {}
      <4>1. Kin(nodes[i], nodes'[i])
        BY <3>1
      <4>2. CASE p # q
        <5>1. nodes[i].fact = job[p].fact => nodes[i].was # {}
          BY <1>0, <2>1, <3>3, <4>2 DEF Checked
        <5>2. nodes'[i].fact = job[p].fact
          BY <2>1, <3>3, <4>2
        <5> QED
          BY <4>1, <5>1, <5>2 DEF Kin
      <4>3. CASE p = q
        <5>1. Check(p)
          BY <1>0, <2>0, <3>3, <4>3, Places
        <5>2. nodes' = nodes
          BY <5>1 DEF Check
        <5> QED
          BY <1>0, <3>3, <5>1, <5>2, CheckSees
      <4> QED
        BY <4>2, <4>3
    <3>4. ASSUME NEW i \in 1..Size, NEW j \in 1..Size, i < j, i <= nodes'[j].seen,
                 ~nodes'[j].forced, nodes'[i].fact = nodes'[j].fact
          PROVE  nodes'[i].was # {} \/ nodes'[j].was # {}
      <4>1. Kin(nodes[i], nodes'[i]) /\ Kin(nodes[j], nodes'[j])
        BY <3>1
      <4>2. nodes[i].fact = nodes[j].fact => nodes[i].was # {} \/ nodes[j].was # {}
        BY <1>0, <3>4, <4>1 DEF Checked, Kin
      <4> QED
        BY <3>4, <4>1, <4>2 DEF Kin
    <3>5. Checked'
      BY <3>1, <3>3, <3>4 DEF Checked
    <3> QED
      BY <1>0, <3>2, <3>5 DEF Saw
  <2>3. CASE InsertNode(q)
    <3>1. /\ Size \in Nat /\ Size' = Size + 1
          /\ \A i \in 1..Size : nodes'[i] = nodes[i]
          /\ nodes'[Size + 1] = Fresh(job[q].fact, job[q].forced, job[q].seen)
      BY <1>0, <2>0, <2>3, NodeAdded, NodesKept DEF Typed
    <3>2. pc[q] = "insert node" /\ pc' = [pc EXCEPT ![q] = "enqueue"]
      BY <2>3 DEF InsertNode, Goto
    <3>3. pc'[q] = "enqueue"
      BY <1>0, <3>2 DEF Typed, TypeOK
    <3>4. \A i \in 1..Size' : i \in 1..Size \/ i = Size + 1
      BY <3>1
    <3>5. Marked'
      BY <1>0, <3>1, <3>4 DEF Marked, Fresh
    <3>6. ASSUME NEW p \in Procs, NEW i \in 1..Size', pc'[p] = "insert node",
                 ~job'[p].forced, i <= job'[p].seen, nodes'[i].fact = job'[p].fact
          PROVE  nodes'[i].was # {}
      <4>1. p # q /\ pc[p] = "insert node" /\ job'[p] = job[p]
        BY <2>1, <3>3, <3>6
      <4>2. job[p].seen <= Size /\ job[p].seen \in Nat
        BY <1>0, <4>1, Parts DEF Typed, JobShape
      <4>3. i <= job[p].seen
        BY <3>6, <4>1
      <4>4. i \in 1..Size
        BY <3>1, <4>2, <4>3
      <4>5. nodes'[i] = nodes[i]
        BY <3>1, <4>4
      <4> QED
        BY <1>0, <3>6, <4>1, <4>3, <4>4, <4>5 DEF Checked
    <3>7. ASSUME NEW i \in 1..Size', NEW j \in 1..Size', i < j, i <= nodes'[j].seen,
                 ~nodes'[j].forced, nodes'[i].fact = nodes'[j].fact
          PROVE  nodes'[i].was # {} \/ nodes'[j].was # {}
      <4>1. i \in 1..Size /\ nodes'[i] = nodes[i]
        BY <3>1, <3>7
      <4>2. CASE j \in 1..Size
        BY <1>0, <3>1, <3>7, <4>1, <4>2 DEF Checked
      <4>3. CASE j = Size + 1
        <5>1. nodes'[j].seen = job[q].seen /\ nodes'[j].forced = job[q].forced
              /\ nodes'[j].fact = job[q].fact
          BY <3>1, <4>3 DEF Fresh
        <5> QED
          BY <1>0, <3>2, <3>7, <4>1, <5>1 DEF Checked
      <4> QED
        BY <3>4, <4>2, <4>3
    <3>8. Checked'
      BY <3>6, <3>7 DEF Checked
    <3> QED
      BY <1>0, <3>5, <3>8 DEF Saw
  <2> QED
    BY <2>0, <2>2, <2>3 DEF Act
<1>2. CASE UNCHANGED vars
  BY <1>0, <1>2 DEF vars, Saw, Marked, Checked, Size
<1> QED
  BY <1>1, <1>2

\* Two kept rows state one fact only when the check could not tell: the race of
\* two store() is the only one, for any number of commands and rows.
THEOREM DuplicatesAreExplained == Spec => []DuplicatesExplained
<1>1. Saw => DuplicatesExplained
  <2> SUFFICES ASSUME Saw, NEW i \in Rows("kept"), NEW j \in Rows("kept"),
                      i < j, nodes[i].fact = nodes[j].fact, nodes[i].was = {},
                      nodes[j].was = {}, ~nodes[j].forced
               PROVE  nodes[j].seen < i
    BY DEF DuplicatesExplained
  <2>1. nodes \in Seq(Node) /\ Rows("kept") \subseteq DOMAIN nodes
    BY DEF Saw, Typed, TypeOK, Rows
  <2>2. DOMAIN nodes = 1..Size /\ Size \in Nat
    BY <2>1, LenProperties DEF Size
  <2>3. i \in 1..Size /\ j \in 1..Size
    BY <2>1, <2>2
  <2>4. ~(i <= nodes[j].seen)
    BY <2>3 DEF Saw, Checked
  <2>5. nodes[j].seen \in Nat
    BY <2>3, RowParts DEF Saw
  <2> QED
    BY <2>3, <2>4, <2>5
<1> QED
  BY <1>1, SawInit, SawStep, PTL DEF Spec

-----------------------------------------------------------------------------
(* What a consolidation spares.                                            *)

\* Nothing but the consolidation of p happened to the rows of f.
Only(p, f) ==
  \A i \in 1..Size :
    /\ "updated" \notin nodes[i].was
    /\ nodes[i].fact = f => nodes[i].by = Nobody /\ nodes[i].was \subseteq {p}

\* A row that p neither has merged nor is going to.
Keeps(p, f, k) ==
  /\ nodes[k].fact = f /\ nodes[k].kept = "kept" /\ nodes[k].was = {}
  /\ pc[p] = "merge" => k \notin job[p].batch

Spared ==
  /\ \A p \in Procs : \A i \in 1..Size : p \in nodes[i].was => pc[p] # "idle"
  /\ \A p \in Procs, f \in Facts :
       (Only(p, f) /\ \E i \in 1..Size : nodes[i].fact = f)
         => \E k \in 1..Size : Keeps(p, f, k)

Sparing == Saw /\ Spared

\* At first there is nothing, or one row that is kept.
LEMMA SparedInit == Init => Sparing
<1> SUFFICES ASSUME Init PROVE Sparing
  OBVIOUS
<1>1. \A i \in 1..Size : nodes[i].kept = "kept" /\ nodes[i].was = {}
  <2>1. CASE nodes = <<>>
    <3>1. Size = 0
      BY <2>1, EmptySeq, Zenon DEF Size
    <3> QED
      BY <3>1
  <2>2. CASE \E f \in Facts : nodes = <<Fresh(f, FALSE, 0)>>
    <3>1. PICK f \in Facts : nodes = <<Fresh(f, FALSE, 0)>>
      BY <2>2
    <3>2. Len(nodes) = 1 /\ nodes[1] = Fresh(f, FALSE, 0)
      BY <3>1, OneRow
    <3> QED
      BY <3>2 DEF Fresh, Size
  <2> QED
    BY <2>1, <2>2 DEF Init
<1>2. \A p \in Procs : pc[p] = "idle"
  BY DEF Init
<1> QED
  BY <1>1, <1>2, SawInit DEF Sparing, Spared, Keeps

\* The plan of a consolidation leaves a kept row of every fact it sees.
LEMMA ConsolidateSpares ==
  ASSUME Typed, NEW p \in Procs, Consolidate(p), NEW f \in Facts,
         NEW k \in 1..Size, nodes[k].fact = f, nodes[k].kept = "kept",
         \A i \in 1..Size : nodes[i].fact = f => nodes[i].by = Nobody
  PROVE  \E i \in 1..Size : nodes[i].fact = f /\ nodes[i].kept = "kept"
                            /\ i \notin job'[p].batch
<1>1. PICK K \in Keepers : job' = [job EXCEPT ![p].batch = Losers(K)]
  BY DEF Consolidate
<1>2. job[p] \in Job /\ job \in [Procs -> Job]
  BY DEF Typed, TypeOK
<1>3. job'[p].batch = Losers(K)
  BY <1>1, <1>2 DEF Job
<1>4. k \in Live
  BY RowParts DEF Live, Rows
<1>5. K \subseteq Live /\ {nodes[i].fact : i \in K} = {nodes[i].fact : i \in Live}
  BY DEF Keepers
<1>6. f \in {nodes[i].fact : i \in K}
  BY <1>4, <1>5
<1>7. PICK i \in K : nodes[i].fact = f
  BY <1>6
<1>8. i \in DOMAIN nodes /\ nodes[i].kept = "kept" /\ i \notin Losers(K)
  BY <1>5, <1>7 DEF Live, Rows, Losers
<1>9. i \in 1..Size
  BY <1>8, LenProperties DEF Typed, TypeOK, Size
<1> QED
  BY <1>3, <1>7, <1>8, <1>9

\* A statement that is not p's merge of k leaves k spared.
LEMMA SparedStep == Sparing /\ [Next]_vars => Sparing'
<1> SUFFICES ASSUME Sparing, [Next]_vars PROVE Sparing'
  OBVIOUS
<1>0. Typed /\ Saw /\ Spared /\ Saw' /\ Typed'
  BY SawStep, StepTyped DEF Sparing, Saw
<1>1. CASE Next
  <2>0. PICK q \in Procs : Act(q)
    BY <1>1, NextIsAct
  <2>1. /\ \A p \in Procs \ {q} : pc'[p] = pc[p] /\ job'[p] = job[p]
        /\ pc'[q] # "idle"
        /\ pc'[q] = "merge" =>
             (Consolidate(q) \/ (pc[q] = "merge" /\ job'[q].batch \subseteq job[q].batch))
    BY <1>0, <2>0, Places
  <2>2. CASE Rewrites(q) \/ Others(q)
    <3>1. RowsKept /\ Size' = Size /\ \A i \in 1..Size : Kin(nodes[i], nodes'[i])
      BY <1>0, <2>0, <2>2, NodesKept DEF Typed, RowsKept
    <3>2. ASSUME NEW p \in Procs, NEW i \in 1..Size, p \in nodes'[i].was,
                 p \notin nodes[i].was
          PROVE  p = q /\ pc[q] = "merge" /\ i \in job[q].batch
      <4>1. Rewrites(q)
        BY <1>0, <2>0, <2>2, <3>2, NodesKept DEF Typed
      <4> QED
        BY <1>0, <3>2, <4>1, Marks
    <3>3. ASSUME NEW p \in Procs, NEW i \in 1..Size, p \in nodes'[i].was
          PROVE  pc'[p] # "idle"
      <4>1. pc[p] # "idle"
        BY <1>0, <3>2, <3>3 DEF Spared
      <4> QED
        BY <2>1, <4>1
    <3>4. ASSUME NEW p \in Procs, NEW f \in Facts, Only(p, f)',
                 \E i \in 1..Size : nodes'[i].fact = f
          PROVE  \E k \in 1..Size : Keeps(p, f, k)'
      <4>1. ASSUME NEW i \in 1..Size
            PROVE  /\ nodes'[i].fact = nodes[i].fact /\ "updated" \notin nodes[i].was
                   /\ nodes[i].fact = f => nodes[i].by = Nobody /\ nodes[i].was \subseteq {p}
        <5>1. Kin(nodes[i], nodes'[i])
          BY <3>1
        <5>2. /\ "updated" \notin nodes'[i].was
              /\ nodes'[i].fact = f => nodes'[i].by = Nobody /\ nodes'[i].was \subseteq {p}
          BY <3>1, <3>4 DEF Only
        <5>3. Nobody \notin Ids
          BY <1>0, RowParts
        <5> QED
          BY <5>1, <5>2, <5>3 DEF Kin
      <4>2. Only(p, f) /\ \E i \in 1..Size : nodes[i].fact = f
        BY <3>4, <4>1 DEF Only
      <4>3. PICK k \in 1..Size : Keeps(p, f, k)
        BY <1>0, <4>2 DEF Spared
      <4>4. ASSUME NEW i \in 1..Size, nodes[i].fact = f, nodes[i].kept = "kept",
                   nodes[i].was = {}, pc[p] = "merge" => i \notin job[p].batch
            PROVE  nodes'[i].fact = f /\ nodes'[i].kept = "kept" /\ nodes'[i].was = {}
        <5>1. Kin(nodes[i], nodes'[i]) /\ nodes'[i].fact = f
          BY <3>1, <4>1, <4>4
        <5>2. nodes'[i].was \subseteq {p}
          BY <3>1, <3>4, <5>1 DEF Only
        <5>3. p \notin nodes'[i].was
          BY <3>2, <4>4
        <5>4. nodes'[i].was = {}
          BY <5>2, <5>3
        <5> QED
          BY <4>4, <5>1, <5>4 DEF Kin
      <4>5. CASE p = q /\ Consolidate(q)
        <5>1. \A i \in 1..Size : nodes[i].fact = f => nodes[i].was = {}
          <6>1. pc[p] = "idle"
            BY <4>5 DEF Consolidate, Goto
          <6> QED
            BY <1>0, <4>1, <6>1 DEF Spared
        <5>2. PICK i \in 1..Size : nodes[i].fact = f /\ nodes[i].kept = "kept"
                                  /\ i \notin job'[p].batch
          BY <1>0, <4>1, <4>3, <4>5, ConsolidateSpares DEF Keeps
        <5>3. nodes' = nodes
          BY <4>5 DEF Consolidate
        <5> QED
          BY <5>1, <5>2, <5>3 DEF Keeps
      <4>6. CASE ~(p = q /\ Consolidate(q))
        <5>1. pc'[p] = "merge" => pc[p] = "merge" /\ job'[p].batch \subseteq job[p].batch
          BY <2>1, <4>6
        <5> QED
          BY <4>3, <4>4, <5>1 DEF Keeps
      <4> QED
        BY <4>5, <4>6
    <3> QED
      BY <1>0, <3>1, <3>3, <3>4 DEF Sparing, Spared
  <2>3. CASE InsertNode(q)
    <3>1. /\ Size \in Nat /\ Size' = Size + 1
          /\ \A i \in 1..Size : nodes'[i] = nodes[i]
          /\ nodes'[Size + 1] = Fresh(job[q].fact, job[q].forced, job[q].seen)
      BY <1>0, <2>0, <2>3, NodeAdded, NodesKept DEF Typed
    <3>2. pc[q] = "insert node" /\ pc'[q] = "enqueue"
      BY <1>0, <2>3 DEF InsertNode, Goto, Typed, TypeOK
    <3>3. \A i \in 1..Size' : i \in 1..Size \/ i = Size + 1
      BY <3>1
    <3>4. \A i \in 1..Size : i \in 1..Size'
      BY <3>1
    <3>5. /\ nodes'[Size + 1].was = {} /\ nodes'[Size + 1].kept = "kept"
          /\ nodes'[Size + 1].fact = job[q].fact /\ Size + 1 \in 1..Size'
      BY <3>1 DEF Fresh
    <3>6. ASSUME NEW p \in Procs, NEW i \in 1..Size', p \in nodes'[i].was
          PROVE  pc'[p] # "idle"
      <4>1. i \in 1..Size /\ p \in nodes[i].was
        BY <3>1, <3>3, <3>5, <3>6
      <4> QED
        BY <1>0, <2>1, <4>1 DEF Spared
    <3>7. ASSUME NEW p \in Procs, NEW f \in Facts, Only(p, f)',
                 \E i \in 1..Size' : nodes'[i].fact = f
          PROVE  \E k \in 1..Size' : Keeps(p, f, k)'
      <4>1. CASE f = job[q].fact
        <5>1. pc'[p] = "merge" => Size + 1 \notin job'[p].batch
          <6>1. SUFFICES ASSUME pc'[p] = "merge" PROVE Size + 1 \notin job'[p].batch
            OBVIOUS
          <6>2. p # q /\ pc[p] = "merge" /\ job'[p] = job[p]
            BY <2>1, <3>2, <6>1
          <6>3. job[p].batch \subseteq 1..Size
            BY <1>0, <6>2 DEF Typed, JobShape
          <6> QED
            BY <3>1, <6>2, <6>3
        <5> QED
          BY <3>5, <4>1, <5>1 DEF Keeps
      <4>2. CASE f # job[q].fact
        <5>1. Only(p, f)
          BY <3>1, <3>4, <3>7 DEF Only
        <5>2. PICK i \in 1..Size : nodes[i].fact = f
          BY <3>1, <3>3, <3>5, <3>7, <4>2
        <5>3. PICK k \in 1..Size : Keeps(p, f, k)
          BY <1>0, <5>1, <5>2 DEF Spared
        <5>4. pc'[p] = "merge" => pc[p] = "merge" /\ job'[p] = job[p]
          BY <2>1, <3>2
        <5> QED
          BY <3>1, <3>4, <5>3, <5>4 DEF Keeps
      <4> QED
        BY <4>1, <4>2
    <3> QED
      BY <1>0, <3>6, <3>7 DEF Sparing, Spared
  <2> QED
    BY <2>0, <2>2, <2>3 DEF Act
<1>2. CASE UNCHANGED vars
  BY <1>0, <1>2 DEF vars, Sparing, Spared, Only, Keeps, Size
<1> QED
  BY <1>1, <1>2

\* One consolidation, killed or not and with any stores beside it, forgets the
\* last row of no fact.
THEOREM ConsolidationSpares == Spec => []ConsolidationKeepsOne
<1>1. Sparing => ConsolidationKeepsOne
  <2> SUFFICES ASSUME Sparing, NEW f \in Facts,
                      NEW S, S = {i \in DOMAIN nodes : nodes[i].fact = f}, S # {},
                      \A i \in S : nodes[i].by = Nobody,
                      \A i \in DOMAIN nodes : "updated" \notin nodes[i].was,
                      NEW p \in Procs, \A i \in S : nodes[i].was \subseteq {p}
               PROVE  S \cap Rows("kept") # {}
    BY DEF ConsolidationKeepsOne
  <2>1. DOMAIN nodes = 1..Size
    BY LenProperties DEF Sparing, Saw, Typed, TypeOK, Size
  <2>2. Only(p, f) /\ \E i \in 1..Size : nodes[i].fact = f
    BY <2>1 DEF Only
  <2>3. PICK k \in 1..Size : Keeps(p, f, k)
    BY <2>2 DEF Sparing, Spared
  <2> QED
    BY <2>1, <2>3 DEF Keeps, Rows
<1> QED
  BY <1>1, SparedInit, SparedStep, PTL DEF Spec

-----------------------------------------------------------------------------
(* The rows have the history that FactHistory promises.                    *)

Past == [by : Ids \cup {Nobody}, kept : {"kept", "forgotten", "purged"}]

PastOf(n) == [by |-> n.by, kept |-> n.kept]

History == [i \in DOMAIN nodes |-> [by |-> nodes[i].by, kept |-> nodes[i].kept]]

\* The history is a sequence as long as the table.
LEMMA View ==
  ASSUME Typed
  PROVE  /\ History \in Seq(Past) /\ Len(History) = Size /\ DOMAIN History = 1..Size
         /\ Size \in Nat /\ \A i \in 1..Size : History[i] = PastOf(nodes[i])
<1>1. nodes \in Seq(Node)
  BY DEF Typed, TypeOK
<1>2. DOMAIN nodes = 1..Size /\ Size \in Nat
  BY <1>1, LenProperties DEF Size
<1>3. \A i \in 1..Size : PastOf(nodes[i]) \in Past
  BY RowParts DEF PastOf, Past
<1>4. History = [i \in 1..Size |-> PastOf(nodes[i])]
  BY <1>2 DEF History, PastOf
<1>5. History \in [1..Size -> Past]
  BY <1>3, <1>4
<1> QED
  BY <1>2, <1>4, <1>5, IsASeq, LenProperties

\* The history after a statement that rewrites rows.
LEMMA Viewed ==
  ASSUME Typed, RowsKept
  PROVE  /\ DOMAIN History = 1..Size
         /\ History = [i \in 1..Size |-> PastOf(nodes[i])]
         /\ History' = [i \in 1..Size |-> PastOf(nodes'[i])]
<1>1. nodes \in Seq(Node) /\ nodes' \in Seq(Node) /\ Len(nodes') = Len(nodes)
  BY DEF Typed, TypeOK, RowsKept, Size
<1>2. DOMAIN nodes = 1..Size /\ DOMAIN nodes' = 1..Size
  BY <1>1, LenProperties DEF Size
<1> QED
  BY <1>2 DEF History, PastOf

\* A statement that leaves successors and deletions alone.
LEMMA Unseen ==
  ASSUME Typed, RowsKept, \A i \in 1..Size : PastOf(nodes'[i]) = PastOf(nodes[i])
  PROVE  History' = History
BY Viewed

\* One that changes the rows S.
LEMMA SeenIn ==
  ASSUME Typed, RowsKept, NEW S \in SUBSET (1..Size),
         \A i \in (1..Size) \ S : PastOf(nodes'[i]) = PastOf(nodes[i])
  PROVE  /\ S \subseteq DOMAIN History /\ DOMAIN History = 1..Size
         /\ \A i \in 1..Size : History[i] = PastOf(nodes[i])
         /\ History' = [i \in DOMAIN History |->
                         IF i \in S THEN PastOf(nodes'[i]) ELSE History[i]]
<1>1. \A i \in 1..Size : History[i] = PastOf(nodes[i])
  BY Viewed
<1>2. History' = [i \in 1..Size |-> IF i \in S THEN PastOf(nodes'[i]) ELSE History[i]]
  BY <1>1, Viewed
<1> QED
  BY <1>1, <1>2, Viewed

\* A changed column of a history.
LEMMA PastChanged ==
  ASSUME NEW n, NEW x
  PROVE  /\ [PastOf(n) EXCEPT !.kept = x] = [by |-> n.by, kept |-> x]
         /\ [PastOf(n) EXCEPT !.by = x] = [by |-> x, kept |-> n.kept]
BY DEF PastOf

\* Rows are forgotten that were kept.
LEMMA Forgotten ==
  ASSUME Typed, RowsKept, NEW S \in SUBSET (1..Size),
         \A i \in S : /\ nodes[i].kept = "kept" /\ nodes'[i].kept = "forgotten"
                      /\ nodes'[i].by = nodes[i].by,
         \A i \in (1..Size) \ S : PastOf(nodes'[i]) = PastOf(nodes[i])
  PROVE  Promised!Next
<1>1. /\ S \subseteq DOMAIN History /\ DOMAIN History = 1..Size
      /\ \A i \in 1..Size : History[i] = PastOf(nodes[i])
      /\ History' = [i \in DOMAIN History |->
                      IF i \in S THEN PastOf(nodes'[i]) ELSE History[i]]
  BY SeenIn
<1>2. ASSUME NEW i \in S
      PROVE  History[i].kept = "kept"
             /\ PastOf(nodes'[i]) = [History[i] EXCEPT !.kept = "forgotten"]
  <2>1. History[i] = PastOf(nodes[i])
    BY <1>1
  <2>2. [PastOf(nodes[i]) EXCEPT !.kept = "forgotten"] = [by |-> nodes[i].by, kept |-> "forgotten"]
    BY DEF PastOf
  <2>3. PastOf(nodes'[i]) = [by |-> nodes[i].by, kept |-> "forgotten"]
    BY DEF PastOf
  <2>4. PastOf(nodes[i]).kept = "kept"
    BY DEF PastOf
  <2> QED
    BY <2>1, <2>2, <2>3, <2>4
<1>3. /\ \A i \in S : History[i].kept = "kept"
      /\ History' = [i \in DOMAIN History |->
           IF i \in S THEN [History[i] EXCEPT !.kept = "forgotten"] ELSE History[i]]
  BY <1>1, <1>2
<1> QED
  BY <1>1, <1>3 DEF Promised!Next, Promised!Forget, History

\* Rows are purged that were forgotten.
LEMMA Purged ==
  ASSUME Typed, RowsKept, NEW S \in SUBSET (1..Size),
         \A i \in S : /\ nodes[i].kept = "forgotten" /\ nodes'[i].kept = "purged"
                      /\ nodes'[i].by = nodes[i].by,
         \A i \in (1..Size) \ S : PastOf(nodes'[i]) = PastOf(nodes[i])
  PROVE  Promised!Next
<1>1. /\ S \subseteq DOMAIN History /\ DOMAIN History = 1..Size
      /\ \A i \in 1..Size : History[i] = PastOf(nodes[i])
      /\ History' = [i \in DOMAIN History |->
                      IF i \in S THEN PastOf(nodes'[i]) ELSE History[i]]
  BY SeenIn
<1>2. ASSUME NEW i \in S
      PROVE  History[i].kept = "forgotten"
             /\ PastOf(nodes'[i]) = [History[i] EXCEPT !.kept = "purged"]
  <2>1. History[i] = PastOf(nodes[i])
    BY <1>1
  <2>2. [PastOf(nodes[i]) EXCEPT !.kept = "purged"] = [by |-> nodes[i].by, kept |-> "purged"]
    BY DEF PastOf
  <2>3. PastOf(nodes'[i]) = [by |-> nodes[i].by, kept |-> "purged"]
    BY DEF PastOf
  <2>4. PastOf(nodes[i]).kept = "forgotten"
    BY DEF PastOf
  <2> QED
    BY <2>1, <2>2, <2>3, <2>4
<1>3. /\ \A i \in S : History[i].kept = "forgotten"
      /\ History' = [i \in DOMAIN History |->
           IF i \in S THEN [History[i] EXCEPT !.kept = "purged"] ELSE History[i]]
  BY <1>1, <1>2
<1> QED
  BY <1>1, <1>3 DEF Promised!Next, Promised!Purge, History

\* A forgotten row is restored.
LEMMA Restored ==
  ASSUME Typed, RowsKept, NEW k \in 1..Size,
         nodes[k].kept = "forgotten", nodes'[k].kept = "kept",
         nodes'[k].by = nodes[k].by,
         \A i \in (1..Size) \ {k} : PastOf(nodes'[i]) = PastOf(nodes[i])
  PROVE  Promised!Next
<1>1. /\ {k} \subseteq DOMAIN History /\ DOMAIN History = 1..Size
      /\ \A i \in 1..Size : History[i] = PastOf(nodes[i])
      /\ History' = [i \in DOMAIN History |->
                      IF i \in {k} THEN PastOf(nodes'[i]) ELSE History[i]]
  BY SeenIn
<1>2. History[k].kept = "forgotten" /\ PastOf(nodes'[k]) = [History[k] EXCEPT !.kept = "kept"]
  <2>1. History[k] = PastOf(nodes[k])
    BY <1>1
  <2>2. [PastOf(nodes[k]) EXCEPT !.kept = "kept"] = [by |-> nodes[k].by, kept |-> "kept"]
    BY PastChanged
  <2>3. PastOf(nodes'[k]) = [by |-> nodes[k].by, kept |-> "kept"]
    BY DEF PastOf
  <2>4. PastOf(nodes[k]).by = nodes[k].by /\ PastOf(nodes[k]).kept = nodes[k].kept
    BY DEF PastOf
  <2> QED
    BY <2>1, <2>2, <2>3, <2>4
<1>3. History' = [History EXCEPT ![k] = [History[k] EXCEPT !.kept = "kept"]]
  <2>1. History' = [i \in DOMAIN History |->
                      IF i = k THEN [History[k] EXCEPT !.kept = "kept"] ELSE History[i]]
    BY <1>1, <1>2
  <2> QED
    BY <2>1, <1>1
<1> QED
  BY <1>1, <1>2, <1>3 DEF Promised!Next, Promised!Restore, History

\* A row without a successor gets one.
LEMMA Superseded ==
  ASSUME Typed, RowsKept, NEW k \in 1..Size, NEW j \in Ids,
         nodes[k].by = Nobody, nodes[k].kept # "purged", nodes'[k].by = j,
         nodes'[k].kept = nodes[k].kept,
         \A i \in (1..Size) \ {k} : PastOf(nodes'[i]) = PastOf(nodes[i])
  PROVE  Promised!Next
<1>1. /\ {k} \subseteq DOMAIN History /\ DOMAIN History = 1..Size
      /\ \A i \in 1..Size : History[i] = PastOf(nodes[i])
      /\ History' = [i \in DOMAIN History |->
                      IF i \in {k} THEN PastOf(nodes'[i]) ELSE History[i]]
  BY SeenIn
<1>2. History[k].by = Nobody /\ History[k].kept # "purged" /\ PastOf(nodes'[k]) = [History[k] EXCEPT !.by = j]
  <2>1. History[k] = PastOf(nodes[k])
    BY <1>1
  <2>2. [PastOf(nodes[k]) EXCEPT !.by = j] = [by |-> j, kept |-> nodes[k].kept]
    BY PastChanged
  <2>3. PastOf(nodes'[k]) = [by |-> j, kept |-> nodes[k].kept]
    BY DEF PastOf
  <2>4. PastOf(nodes[k]).by = nodes[k].by /\ PastOf(nodes[k]).kept = nodes[k].kept
    BY DEF PastOf
  <2> QED
    BY <2>1, <2>2, <2>3, <2>4
<1>3. History' = [History EXCEPT ![k] = [History[k] EXCEPT !.by = j]]
  <2>1. History' = [i \in DOMAIN History |->
                      IF i = k THEN [History[k] EXCEPT !.by = j] ELSE History[i]]
    BY <1>1, <1>2
  <2> QED
    BY <2>1, <1>1
<1>4. \E i \in Ids : History' = [History EXCEPT ![k].by = i]
  BY <1>3
<1>5. Promised!Supersede(k)
  BY <1>2, <1>4 DEF Promised!Supersede, History
<1> QED
  BY <1>1, <1>5 DEF Promised!Next, History

\* Each statement that rewrites rows is one promised event, or none.
LEMMA RewritesRefine ==
  ASSUME Typed, NEW p \in Procs, Rewrites(p)
  PROVE  Promised!Next \/ History' = History
<1>1. RowsKept /\ Size \in Nat /\ DOMAIN nodes = 1..Size
  BY NodesKept DEF Typed, Act
<1>2. \A i \in 1..Size : nodes[i] \in Node
  BY RowParts
<1>3. CASE Update(p)
  <2>1. PICK k \in DOMAIN nodes \ Rows("purged"), f \in Facts :
          Rewrite({k}, LAMBDA n : [n EXCEPT !.fact = f], {"updated"})
    BY <1>3 DEF Update
  <2>2. ASSUME NEW i \in 1..Size PROVE PastOf(nodes'[i]) = PastOf(nodes[i])
    <3>1. nodes'[i] = nodes[i] \/
          nodes'[i] = [[nodes[i] EXCEPT !.fact = f] EXCEPT !.was = @ \cup {"updated"}]
      BY <1>1, <2>1 DEF Rewrite
    <3> QED
      BY <1>2, <3>1 DEF Node, PastOf
  <2> QED
    BY <1>1, <2>2, Unseen
<1>4. CASE Remove(p)
  <2>1. PICK S \in {{i} : i \in Rows("kept")} \cup {Similar(f) : f \in Facts} :
          Rewrite(S, LAMBDA n : [n EXCEPT !.kept = "forgotten"], {"forgotten"})
    BY <1>4 DEF Remove
  <2>2. S \subseteq 1..Size /\ \A i \in S : nodes[i].kept = "kept"
    BY <1>1 DEF Rows, Similar
  <2>3. ASSUME NEW i \in 1..Size
        PROVE  IF i \in S
               THEN nodes'[i] = [[nodes[i] EXCEPT !.kept = "forgotten"]
                                   EXCEPT !.was = @ \cup {"forgotten"}]
               ELSE nodes'[i] = nodes[i]
    BY <1>1, <2>1 DEF Rewrite
  <2>4. \A i \in S : nodes'[i].kept = "forgotten" /\ nodes'[i].by = nodes[i].by
    BY <1>2, <2>2, <2>3 DEF Node
  <2>5. \A i \in (1..Size) \ S : PastOf(nodes'[i]) = PastOf(nodes[i])
    BY <2>3
  <2> QED
    BY <1>1, <2>2, <2>4, <2>5, Forgotten
<1>5. CASE Restore(p)
  <2>1. PICK k \in Rows("forgotten") :
          Rewrite({k}, LAMBDA n : [n EXCEPT !.kept = "kept"], {})
    BY <1>5 DEF Restore
  <2>2. k \in 1..Size /\ nodes[k].kept = "forgotten"
    BY <1>1 DEF Rows
  <2>3. /\ nodes'[k] = [[nodes[k] EXCEPT !.kept = "kept"] EXCEPT !.was = @ \cup {}]
        /\ \A i \in (1..Size) \ {k} : nodes'[i] = nodes[i]
    BY <1>1, <2>1, <2>2 DEF Rewrite
  <2>4. nodes'[k].kept = "kept" /\ nodes'[k].by = nodes[k].by
    BY <1>2, <2>2, <2>3 DEF Node
  <2>5. \A i \in (1..Size) \ {k} : PastOf(nodes'[i]) = PastOf(nodes[i])
    BY <2>3
  <2> QED
    BY <1>1, <2>2, <2>4, <2>5, Restored
<1>6. CASE Purge(p)
  <2>1. PICK S \in SUBSET Rows("forgotten") :
          Rewrite(S, LAMBDA n : [n EXCEPT !.kept = "purged"], {})
    BY <1>6 DEF Purge
  <2>2. S \subseteq 1..Size /\ \A i \in S : nodes[i].kept = "forgotten"
    BY <1>1 DEF Rows
  <2>3. ASSUME NEW i \in 1..Size
        PROVE  IF i \in S
               THEN nodes'[i] = [[nodes[i] EXCEPT !.kept = "purged"] EXCEPT !.was = @ \cup {}]
               ELSE nodes'[i] = nodes[i]
    BY <1>1, <2>1 DEF Rewrite
  <2>4. \A i \in S : nodes'[i].kept = "purged" /\ nodes'[i].by = nodes[i].by
    BY <1>2, <2>2, <2>3 DEF Node
  <2>5. \A i \in (1..Size) \ S : PastOf(nodes'[i]) = PastOf(nodes[i])
    BY <2>3
  <2> QED
    BY <1>1, <2>2, <2>4, <2>5, Purged
<1>7. CASE Supersede(p)
  <2>0. PICK j \in DOMAIN nodes :
          Rewrite({i \in {job[p].id} : nodes[i].by = Nobody /\ nodes[i].kept # "purged"},
                  LAMBDA n : [n EXCEPT !.by = j], {})
    BY <1>7 DEF Supersede
  <2> DEFINE S == {i \in {job[p].id} : nodes[i].by = Nobody /\ nodes[i].kept # "purged"}
             k == job[p].id
  <2>1. Rewrite(S, LAMBDA n : [n EXCEPT !.by = j], {})
    BY <2>0
  <2>2. ASSUME NEW i \in 1..Size
        PROVE  IF i \in S
               THEN nodes'[i] = [[nodes[i] EXCEPT !.by = j] EXCEPT !.was = @ \cup {}]
               ELSE nodes'[i] = nodes[i]
    BY <1>1, <2>1 DEF Rewrite
  <2>3. CASE k \in 1..Size /\ k \in S
    <3>1. nodes'[k].by = j /\ nodes'[k].kept = nodes[k].kept
      BY <1>2, <2>2, <2>3 DEF Node
    <3>2. \A i \in (1..Size) \ {k} : PastOf(nodes'[i]) = PastOf(nodes[i])
      BY <2>2
    <3>3. nodes[k].by = Nobody /\ nodes[k].kept # "purged" /\ j \in 1..Size
      BY <1>1, <2>3
    <3>4. j \in Ids
      <4>1. Size <= MaxNodes
        BY DEF Size, Typed, TypeOK
      <4> QED
        BY <1>1, <3>3, <4>1, FactStoreAssumption DEF Ids
    <3> QED
      BY <1>1, <2>3, <3>1, <3>2, <3>3, <3>4, Superseded
  <2>4. CASE ~(k \in 1..Size /\ k \in S)
    <3>1. \A i \in 1..Size : nodes'[i] = nodes[i]
      BY <2>2, <2>4
    <3> QED
      BY <1>1, <3>1, Unseen
  <2> QED
    BY <2>3, <2>4
<1>8. CASE Merge(p)
  <2>1. PICK k \in job[p].batch :
          Rewrite({k} \ Rows("purged"), LAMBDA n : [n EXCEPT !.kept = "forgotten"], {p})
    BY <1>8 DEF Merge
  <2>2. ASSUME NEW i \in 1..Size
        PROVE  IF i = k /\ i \notin Rows("purged")
               THEN nodes'[i] = [[nodes[i] EXCEPT !.kept = "forgotten"] EXCEPT !.was = @ \cup {p}]
               ELSE nodes'[i] = nodes[i]
    BY <1>1, <2>1 DEF Rewrite
  <2>3. CASE k \in 1..Size /\ nodes[k].kept = "kept"
    <3>1. k \notin Rows("purged")
      BY <2>3 DEF Rows
    <3>2. nodes'[k].kept = "forgotten" /\ nodes'[k].by = nodes[k].by
      BY <1>2, <2>2, <2>3, <3>1 DEF Node
    <3>3. \A i \in (1..Size) \ {k} : PastOf(nodes'[i]) = PastOf(nodes[i])
      BY <2>2
    <3>4. {k} \in SUBSET (1..Size) /\ \A i \in {k} : /\ nodes[i].kept = "kept"
             /\ nodes'[i].kept = "forgotten" /\ nodes'[i].by = nodes[i].by
      BY <2>3, <3>2
    <3> QED
      BY <1>1, <3>3, <3>4, Forgotten
  <2>4. CASE ~(k \in 1..Size /\ nodes[k].kept = "kept")
    <3>1. ASSUME NEW i \in 1..Size PROVE PastOf(nodes'[i]) = PastOf(nodes[i])
      <4>1. CASE nodes'[i] = nodes[i]
        BY <4>1
      <4>2. CASE nodes'[i] # nodes[i]
        <5>1. i = k /\ i \notin Rows("purged")
              /\ nodes'[i] = [[nodes[i] EXCEPT !.kept = "forgotten"] EXCEPT !.was = @ \cup {p}]
          BY <2>2, <4>2
        <5>2. nodes[i].kept = "forgotten"
          BY <1>1, <2>4, <5>1, RowParts DEF Rows
        <5> QED
          BY <1>2, <5>1, <5>2 DEF Node, PastOf
      <4> QED
        BY <4>1, <4>2
    <3> QED
      BY <1>1, <3>1, Unseen
  <2> QED
    BY <2>3, <2>4
<1> QED
  BY <1>3, <1>4, <1>5, <1>6, <1>7, <1>8 DEF Rewrites

\* An INSERT stores a fact that is kept and has no successor.
LEMMA InsertRefines ==
  ASSUME Typed, Typed', NEW p \in Procs, InsertNode(p)
  PROVE  Promised!Next
<1> DEFINE new == [by |-> Nobody, kept |-> "kept"]
<1>1. /\ Size' = Size + 1 /\ Size \in Nat
      /\ \A i \in 1..Size : nodes'[i] = nodes[i]
      /\ nodes'[Size + 1] = Fresh(job[p].fact, job[p].forced, job[p].seen)
  BY NodeAdded, NodesKept DEF Typed, Act
<1>2. History \in Seq(Past) /\ Len(History) = Size
      /\ \A i \in 1..Size : History[i] = PastOf(nodes[i])
  BY View
<1>3. History' \in Seq(Past) /\ Len(History') = Size + 1
      /\ \A i \in 1..(Size + 1) : History'[i] = PastOf(nodes'[i])
  <2>1. (History \in Seq(Past) /\ Len(History) = Size
         /\ \A i \in 1..Size : History[i] = PastOf(nodes[i]))'
    BY View, PTL
  <2> QED
    BY <1>1, <2>1
<1>4. new \in Past
  BY DEF Past
<1>5. PastOf(nodes'[Size + 1]) = new
  BY <1>1 DEF Fresh, PastOf
<1>6. /\ Append(History, new) \in Seq(Past) /\ Len(Append(History, new)) = Size + 1
      /\ \A i \in 1..Size : Append(History, new)[i] = History[i]
      /\ Append(History, new)[Size + 1] = new
  BY <1>2, <1>4, AppendProperties
<1>7. ASSUME NEW i \in 1..(Size + 1) PROVE History'[i] = Append(History, new)[i]
  <2>1. CASE i \in 1..Size
    BY <1>1, <1>2, <1>3, <1>6, <2>1
  <2>2. CASE i = Size + 1
    BY <1>3, <1>5, <1>6, <2>2
  <2>3. i \in 1..Size \/ i = Size + 1
    BY <1>1
  <2> QED
    BY <2>1, <2>2, <2>3
<1>8. History' = Append(History, new)
  BY <1>3, <1>6, <1>7, SeqEqual
<1> QED
  BY <1>8 DEF Promised!Next, Promised!Store, History

\* The first history is empty, or of one fact.
LEMMA InitRefines == Init => Promised!Init
<1> SUFFICES ASSUME Init PROVE Promised!Init
  OBVIOUS
<1>1. History \in Seq(Past) /\ Len(History) = Size
      /\ \A i \in 1..Size : History[i] = PastOf(nodes[i])
  BY InitTyped, View
<1>2. CASE nodes = <<>>
  <2>1. Size = 0
    BY <1>2, EmptySeq, Zenon DEF Size
  <2>2. History = <<>>
    BY <1>1, <2>1, EmptySeq
  <2> QED
    BY <2>2 DEF Promised!Init, History
<1>3. CASE \E f \in Facts : nodes = <<Fresh(f, FALSE, 0)>>
  <2>1. PICK f \in Facts : nodes = <<Fresh(f, FALSE, 0)>>
    BY <1>3
  <2>2. Size = 1 /\ nodes[1] = Fresh(f, FALSE, 0)
    BY <2>1, OneRow DEF Size
  <2>3. Len(History) = 1 /\ History[1] = [by |-> Nobody, kept |-> "kept"]
    BY <1>1, <2>2 DEF Fresh, PastOf
  <2>4. [by |-> Nobody, kept |-> "kept"] \in Past
    BY DEF Past
  <2>5. History = <<[by |-> Nobody, kept |-> "kept"]>>
    BY <1>1, <2>3, <2>4, OneRow, SeqEqual
  <2> QED
    BY <2>5 DEF Promised!Init, History
<1> QED
  BY <1>2, <1>3 DEF Init

\* Whatever the commands do and whoever is killed, each fact has the history the
\* memory promises.
THEOREM ImplementsHistory == Spec => HistorySpec
<1>1. Typed /\ Typed' /\ [Next]_vars => Promised!Next \/ UNCHANGED History
  <2> SUFFICES ASSUME Typed, Typed', [Next]_vars
               PROVE  Promised!Next \/ History' = History
    OBVIOUS
  <2>1. CASE Next
    <3>1. PICK p \in Procs : Act(p)
      BY <2>1, NextIsAct
    <3>2. Others(p) => History' = History
      BY <3>1, NodesKept DEF Typed, History
    <3> QED
      BY <3>1, <3>2, RewritesRefine, InsertRefines DEF Act
  <2>2. CASE UNCHANGED vars
    BY <2>2 DEF vars, History
  <2> QED
    BY <2>1, <2>2
<1>2. Typed /\ Typed' /\ [Next]_vars =>
        [Promised!Next]_[i \in DOMAIN nodes |-> [by |-> nodes[i].by, kept |-> nodes[i].kept]]
  BY <1>1 DEF History
<1> QED
  BY <1>2, InitRefines, InitTyped, StepTyped, PTL DEF Spec, HistorySpec, Promised!Spec

-----------------------------------------------------------------------------
(* The atom queue.                                                         *)

\* The drain p has inserted the piece k of node i; and indexed it.
Some(p, i, k) == \E a \in atoms : a.node = i /\ a.piece = k /\ a.by = p
Has(p, i, k) == \E a \in atoms : a.node = i /\ a.piece = k /\ a.by = p /\ a.indexed

Gone(i) == nodes[i].was \cap Forgetful # {}

\* How far a drain is.
DrainOf(p) ==
  /\ pc[p] = "insert" => \A k \in Pieces \ job[p].left : Has(p, job[p].id, k)
  /\ pc[p] = "index" => \A k \in Pieces \ job[p].left : Some(p, job[p].id, k)
  /\ pc[p] = "dequeue" => Gone(job[p].id) \/ \A k \in Pieces : Has(p, job[p].id, k)

\* What was queued is queued, forgotten or split.
Accounted == \A i \in enqueued : Gone(i) \/ i \in queue
               \/ \E p \in Procs : \A k \in Pieces : Has(p, i, k)

\* A node is queued at most once, by the command that stored it.
Once ==
  /\ \A p \in Procs : pc[p] = "enqueue" => job[p].id \notin enqueued
  /\ \A p, q \in Procs : (p # q /\ pc[p] = "enqueue" /\ pc[q] = "enqueue")
                            => job[p].id # job[q].id

\* A drain that split a node still queued has it in its batch.
Pending == \A a \in atoms :
  /\ a.node \in enqueued
  /\ (a.node \in queue /\ pc[a.by] # "dead")
       => pc[a.by] \in Draining /\ a.node \in job[a.by].batch

Drains == (\A p \in Procs : DrainOf(p)) /\ Accounted /\ Once /\ Pending

Atomizing == Saw /\ Drains

\* The steps that leave the queue and the atoms alone.
Quiet(q) == Rewrites(q) \/ InsertNode(q) \/ Check(q) \/ Invalidate(q) \/ Consolidate(q)
            \/ Merged(q) \/ ReadQueue(q) \/ ReadNode(q) \/ Drained(q) \/ Kill(q)

\* Nothing is queued before a node is, and nothing is split.
LEMMA AtomizingInit == Init => Atomizing
<1> SUFFICES ASSUME Init PROVE Atomizing
  OBVIOUS
<1>1. atoms = {} /\ enqueued = queue /\ \A p \in Procs : pc[p] = "idle"
  BY DEF Init
<1> QED
  BY <1>1, SawInit DEF Atomizing, Drains, DrainOf, Accounted, Once, Pending

\* Where a quiet step leads.
LEMMA Landing ==
  ASSUME Typed, NEW q \in Procs, Quiet(q)
  PROVE  /\ UNCHANGED <<queue, enqueued, atoms>>
         /\ pc'[q] # "index"
         /\ pc'[q] = "insert" => job'[q].left = Pieces
         /\ pc'[q] = "dequeue" => job'[q].id \in enqueued /\ nodes[job'[q].id].kept # "kept"
         /\ pc'[q] = "enqueue" => InsertNode(q) /\ job'[q].id = Size + 1
         /\ (pc[q] \in Draining /\ job[q].batch # {}) =>
              (pc'[q] = "dead" \/ (pc'[q] \in Draining /\ job'[q].batch = job[q].batch))
<1>1. pc \in [Procs -> {"idle", "insert node", "enqueue", "supersede", "merge",
                       "next", "insert", "index", "dequeue", "gone", "dead"}]
      /\ job \in [Procs -> Job] /\ Size \in Nat
  BY Parts DEF Typed, TypeOK
<1>2. CASE Update(q) \/ Remove(q) \/ Restore(q) \/ Purge(q) \/ Supersede(q)
  BY <1>1, <1>2 DEF Update, Remove, Restore, Purge, Supersede, Goto, others, Draining
<1>3. CASE Merge(q) \/ Invalidate(q) \/ Consolidate(q) \/ Merged(q)
  BY <1>1, <1>3 DEF Merge, Invalidate, Consolidate, Merged, Goto, others, Draining
<1>4. CASE InsertNode(q)
  <2>1. /\ pc[q] = "insert node" /\ pc' = [pc EXCEPT ![q] = "enqueue"]
        /\ job' = [job EXCEPT ![q] = [NoJob EXCEPT !.id = Size + 1]]
        /\ UNCHANGED <<queue, enqueued, atoms>>
    BY <1>4 DEF InsertNode, Goto, others, Size
  <2>2. [NoJob EXCEPT !.id = Size + 1].id = Size + 1
    BY NoJobTyped DEF Job
  <2>3. pc'[q] = "enqueue" /\ job'[q].id = Size + 1
    BY <1>1, <2>1, <2>2
  <2> QED
    BY <1>4, <2>1, <2>3 DEF Draining
<1>5. CASE Check(q)
  <2>1. Goto(q, "idle", "insert node") \/ Goto(q, "idle", "gone")
    BY <1>5 DEF Check
  <2>2. pc[q] = "idle" /\ pc'[q] \in {"insert node", "gone"}
    BY <1>1, <2>1 DEF Goto
  <2>3. UNCHANGED <<queue, enqueued, atoms>>
    BY <1>5 DEF Check, others
  <2> QED
    BY <2>2, <2>3 DEF Draining
<1>6. CASE ReadQueue(q)
  <2>1. pc[q] = "idle" /\ pc'[q] = "next" /\ UNCHANGED <<queue, enqueued, atoms>>
    BY <1>1, <1>6 DEF ReadQueue, Goto, others
  <2> QED
    BY <2>1 DEF Draining
<1>7. CASE ReadNode(q)
  <2>1. PICK i \in job[q].batch :
          /\ Goto(q, "next", IF i \in Rows("kept") THEN "insert" ELSE "dequeue")
          /\ job' = [job EXCEPT ![q].id = i, ![q].left = Pieces, ![q].fact = nodes[i].fact]
    BY <1>7 DEF ReadNode
  <2>2. job[q] \in Job
    BY <1>1
  <2> DEFINE j == [job[q] EXCEPT !.id = i, !.left = Pieces, !.fact = nodes[i].fact]
  <2>3. j.batch = job[q].batch /\ j.left = Pieces /\ j.id = i
    BY <2>2 DEF Job
  <2>4. job'[q] = j
    BY <1>1, <2>1
  <2> HIDE DEF j
  <2>5. /\ pc[q] = "next" /\ UNCHANGED <<queue, enqueued, atoms>>
        /\ pc'[q] = IF i \in Rows("kept") THEN "insert" ELSE "dequeue"
    BY <1>1, <1>7, <2>1 DEF ReadNode, Goto, others
  <2>6. i \in enqueued
    BY <2>1, <2>5 DEF Typed, JobShape, Draining
  <2>7. i \in DOMAIN nodes
    BY <2>6, Zenon DEF Typed, TypeOK
  <2>8. i \notin Rows("kept") => nodes[i].kept # "kept"
    BY <2>7 DEF Rows
  <2>9. pc'[q] = "insert" \/ (pc'[q] = "dequeue" /\ i \notin Rows("kept"))
    BY <2>5
  <2> QED
    BY <2>3, <2>4, <2>5, <2>6, <2>8, <2>9 DEF Draining
<1>8. CASE Drained(q)
  <2>1. pc'[q] = "gone" /\ job[q].batch = {} /\ UNCHANGED <<queue, enqueued, atoms>>
    BY <1>1, <1>8 DEF Drained, Goto, others
  <2> QED
    BY <2>1
<1>9. CASE Kill(q)
  <2>1. pc'[q] = "dead" /\ UNCHANGED <<queue, enqueued, atoms>>
    BY <1>1, <1>9 DEF Kill
  <2> QED
    BY <2>1
<1> QED
  BY <1>2, <1>3, <1>4, <1>5, <1>6, <1>7, <1>8, <1>9 DEF Quiet, Rewrites

\* What is split or forgotten stays so, and no drain is set back by another.
LEMMA Behind ==
  ASSUME Typed, Drains, NEW q \in Procs, Act(q),
         \A p \in Procs : \A i, k : Has(p, i, k) => Has(p, i, k)',
         \A p \in Procs : \A i, k : Some(p, i, k) => Some(p, i, k)'
  PROVE  /\ \A i \in 1..Size : Gone(i) => Gone(i)'
         /\ \A p \in Procs \ {q} : DrainOf(p)'
<1>1. \A i \in 1..Size : Gone(i) => Gone(i)'
  <2>1. CASE Rewrites(q) \/ Others(q)
    <3>1. \A i \in 1..Size : Kin(nodes[i], nodes'[i])
      BY <2>1, NodesKept DEF Typed, RowsKept
    <3> QED
      BY <3>1 DEF Gone, Kin
  <2>2. CASE InsertNode(q)
    BY <2>2, NodeAdded DEF Typed, Gone
  <2> QED
    BY <2>1, <2>2 DEF Act
<1>2. ASSUME NEW p \in Procs \ {q} PROVE DrainOf(p)'
  <2>1. pc'[p] = pc[p] /\ job'[p] = job[p] /\ DrainOf(p)
    BY Places DEF Drains
  <2>2. pc[p] = "dequeue" => job[p].id \in 1..Size
    <3>1. pc[p] = "dequeue" => job[p].id \in enqueued
      BY DEF Typed, JobShape, Draining
    <3> QED
      BY <3>1, Parts DEF Typed
  <2>3. (pc[p] = "insert" => \A k \in Pieces \ job[p].left : Has(p, job[p].id, k))'
    BY <2>1 DEF DrainOf, Has
  <2>4. (pc[p] = "index" => \A k \in Pieces \ job[p].left : Some(p, job[p].id, k))'
    BY <2>1 DEF DrainOf, Some
  <2>5. (pc[p] = "dequeue" => Gone(job[p].id) \/ \A k \in Pieces : Has(p, job[p].id, k))'
    <3>1. CASE Gone(job[p].id)
      BY <1>1, <2>1, <2>2, <3>1 DEF Gone
    <3>2. CASE ~Gone(job[p].id)
      BY <2>1, <3>2 DEF DrainOf, Has
    <3> QED
      BY <3>1, <3>2
  <2> QED
    BY <2>3, <2>4, <2>5 DEF DrainOf
<1> QED
  BY <1>1, <1>2

\* A quiet step.
LEMMA QuietDrains ==
  ASSUME Saw, Drains, NEW q \in Procs, Quiet(q)
  PROVE  Drains'
<1>1. Typed /\ Marked /\ Act(q)
  BY DEF Saw, Act, Quiet, Others, Drain
<1>2. UNCHANGED <<queue, enqueued, atoms>> /\ enqueued \subseteq 1..Size /\ Size \in Nat
  BY <1>1, Landing, Parts DEF Typed
<1>3. /\ \A i \in 1..Size : Gone(i) => Gone(i)'
      /\ \A p \in Procs \ {q} : DrainOf(p)'
  BY <1>1, <1>2, Behind DEF Has, Some
<1>4. \A p \in Procs \ {q} : pc'[p] = pc[p] /\ job'[p] = job[p]
  BY <1>1, Places
<1>5. DrainOf(q)'
  <2>1. (pc[q] = "insert" => \A k \in Pieces \ job[q].left : Has(q, job[q].id, k))'
    BY <1>1, Landing
  <2>2. (pc[q] = "dequeue" => Gone(job[q].id))'
    <3>1. SUFFICES ASSUME pc'[q] = "dequeue" PROVE Gone(job[q].id)'
      OBVIOUS
    <3>2. job'[q].id \in 1..Size /\ nodes[job'[q].id].kept # "kept"
      BY <1>1, <1>2, <3>1, Landing
    <3>3. \A i \in 1..Size : nodes[i].kept # "kept" => Gone(i)'
      BY <1>1, <1>3 DEF Marked, Gone
    <3> QED
      BY <3>2, <3>3 DEF Gone
  <2>3. (pc[q] # "index")'
    BY <1>1, Landing
  <2> QED
    BY <2>1, <2>2, <2>3 DEF DrainOf
<1>6. Accounted'
  <2> SUFFICES ASSUME NEW i \in enqueued
               PROVE  Gone(i)' \/ i \in queue \/ \E p \in Procs : \A k \in Pieces : Has(p, i, k)
    BY <1>2 DEF Accounted, Has
  <2> QED
    BY <1>2, <1>3 DEF Accounted, Drains
<1>7. Once'
  <2>1. \A p \in Procs : pc[p] = "enqueue" => job[p].id \in 1..Size
    BY <1>1 DEF Typed, JobShape
  <2>2. pc'[q] = "enqueue" => job'[q].id = Size + 1
    BY <1>1, Landing
  <2>3. Size + 1 \notin 1..Size
    BY <1>2
  <2>4. ASSUME NEW p \in Procs, pc'[p] = "enqueue" PROVE job'[p].id \notin enqueued
    BY <1>2, <1>4, <2>2, <2>3, <2>4 DEF Once, Drains
  <2>5. ASSUME NEW p \in Procs, NEW r \in Procs, p # r, pc'[p] = "enqueue", pc'[r] = "enqueue"
        PROVE  job'[p].id # job'[r].id
    <3>1. CASE p = q
      BY <1>4, <2>1, <2>2, <2>3, <2>5, <3>1
    <3>2. CASE r = q
      BY <1>4, <2>1, <2>2, <2>3, <2>5, <3>2
    <3>3. CASE p # q /\ r # q
      BY <1>4, <2>5, <3>3 DEF Once, Drains
    <3> QED
      BY <3>1, <3>2, <3>3
  <2> QED
    BY <1>2, <2>4, <2>5 DEF Once
<1>8. Pending'
  <2> SUFFICES ASSUME NEW a \in atoms
               PROVE  /\ a.node \in enqueued
                      /\ (a.node \in queue /\ pc'[a.by] # "dead")
                           => pc'[a.by] \in Draining /\ a.node \in job'[a.by].batch
    BY <1>2 DEF Pending
  <2>1. a.by \in Procs
    BY <1>1 DEF Typed, TypeOK, Atom
  <2>2. CASE a.by # q
    BY <1>4, <2>1, <2>2 DEF Pending, Drains
  <2>3. CASE a.by = q
    <3>1. /\ a.node \in enqueued
          /\ (a.node \in queue /\ pc[q] # "dead")
               => pc[q] \in Draining /\ a.node \in job[q].batch
      BY <2>3 DEF Pending, Drains
    <3>2. pc[q] # "dead"
      BY <1>1 DEF Quiet, Rewrites, Update, Remove, Restore, Purge, Supersede, Merge,
         InsertNode, Check, Invalidate, Consolidate, Merged, ReadQueue, ReadNode,
         Drained, Kill, Goto
    <3> QED
      BY <1>1, <2>3, <3>1, <3>2, Landing
  <2> QED
    BY <2>2, <2>3
<1> QED
  BY <1>3, <1>5, <1>6, <1>7, <1>8 DEF Drains

\* A node is put into the queue, or the error is swallowed.
LEMMA EnqueueDrains ==
  ASSUME Saw, Drains, NEW q \in Procs, Enqueue(q)
  PROVE  Drains'
<1>1. Typed /\ Act(q)
  BY DEF Saw, Act, Others
<1>2. PICK add \in {{}, {job[q].id}} :
        queue' = queue \cup add /\ enqueued' = enqueued \cup add
  BY DEF Enqueue
<1>3. pc[q] = "enqueue" /\ pc'[q] = "gone" /\ UNCHANGED <<nodes, atoms>>
  BY <1>1 DEF Enqueue, Goto, Typed, TypeOK
<1>4. /\ \A i \in 1..Size : Gone(i) => Gone(i)'
      /\ \A p \in Procs \ {q} : DrainOf(p)'
  BY <1>1, <1>3, Behind DEF Has, Some
<1>5. \A p \in Procs \ {q} : pc'[p] = pc[p] /\ job'[p] = job[p]
  BY <1>1, Places
<1>6. DrainOf(q)'
  BY <1>3 DEF DrainOf
<1>7. Accounted'
  <2> SUFFICES ASSUME NEW i \in enqueued'
               PROVE  Gone(i)' \/ i \in queue' \/ \E p \in Procs : \A k \in Pieces : Has(p, i, k)
    BY <1>3 DEF Accounted, Has
  <2>1. CASE i \in enqueued
    <3>1. i \in 1..Size
      BY <1>1, <2>1, Parts DEF Typed
    <3> QED
      BY <1>2, <1>4, <2>1, <3>1 DEF Accounted, Drains
  <2>2. CASE i \in add
    BY <1>2, <2>2
  <2> QED
    BY <1>2, <2>1, <2>2
<1>8. job[q].id \notin enqueued
  BY <1>3 DEF Drains, Once
<1>9. Once'
  <2>1. \A p \in Procs : pc'[p] = "enqueue" => p # q
    BY <1>3
  <2>2. ASSUME NEW p \in Procs, pc'[p] = "enqueue" PROVE job'[p].id \notin enqueued'
    BY <1>2, <1>3, <1>5, <2>1, <2>2 DEF Once, Drains
  <2>3. ASSUME NEW p \in Procs, NEW r \in Procs, p # r, pc'[p] = "enqueue", pc'[r] = "enqueue"
        PROVE  job'[p].id # job'[r].id
    BY <1>5, <2>1, <2>3 DEF Once, Drains
  <2> QED
    BY <2>2, <2>3 DEF Once
<1>10. Pending'
  <2> SUFFICES ASSUME NEW a \in atoms
               PROVE  /\ a.node \in enqueued'
                      /\ (a.node \in queue' /\ pc'[a.by] # "dead")
                           => pc'[a.by] \in Draining /\ a.node \in job'[a.by].batch
    BY <1>3 DEF Pending
  <2>1. a.by \in Procs
    BY <1>1 DEF Typed, TypeOK, Atom
  <2>2. /\ a.node \in enqueued
        /\ (a.node \in queue /\ pc[a.by] # "dead")
             => pc[a.by] \in Draining /\ a.node \in job[a.by].batch
    BY DEF Pending, Drains
  <2>3. a.node \in queue' => a.node \in queue
    BY <1>2, <1>8, <2>2
  <2>4. CASE a.by = q
    BY <1>2, <1>3, <2>2, <2>3, <2>4 DEF Draining
  <2>5. CASE a.by # q
    BY <1>2, <1>5, <2>1, <2>2, <2>3, <2>5
  <2> QED
    BY <2>4, <2>5
<1> QED
  BY <1>4, <1>6, <1>7, <1>9, <1>10 DEF Drains

\* A step of a drain that adds to the atoms of its node.
LEMMA AtomDrains ==
  ASSUME Saw, Drains, NEW q \in Procs, Act(q),
         pc[q] \in Draining, pc'[q] \in Draining, job'[q].batch = job[q].batch,
         UNCHANGED <<queue, enqueued>>,
         \A a \in atoms' : (\E b \in atoms : a.node = b.node /\ a.by = b.by)
                           \/ (a.node = job[q].id /\ a.by = q),
         pc[q] # "next",
         \A p \in Procs : \A i, k : Has(p, i, k) => Has(p, i, k)',
         \A p \in Procs : \A i, k : Some(p, i, k) => Some(p, i, k)',
         DrainOf(q)'
  PROVE  Drains'
<1>1. Typed
  BY DEF Saw
<1>2. /\ \A i \in 1..Size : Gone(i) => Gone(i)'
      /\ \A p \in Procs \ {q} : DrainOf(p)'
  BY <1>1, Behind
<1>3. \A p \in Procs \ {q} : pc'[p] = pc[p] /\ job'[p] = job[p]
  BY <1>1, Places
<1>4. Accounted'
  <2> SUFFICES ASSUME NEW i \in enqueued
               PROVE  Gone(i)' \/ i \in queue
                      \/ \E p \in Procs : \A k \in Pieces : Has(p, i, k)'
    BY DEF Accounted
  <2>1. i \in 1..Size
    BY <1>1, Parts DEF Typed
  <2>2. Gone(i) \/ i \in queue \/ \E p \in Procs : \A k \in Pieces : Has(p, i, k)
    BY DEF Accounted, Drains
  <2>3. CASE \E p \in Procs : \A k \in Pieces : Has(p, i, k)
    <3>1. PICK p \in Procs : \A k \in Pieces : Has(p, i, k)
      BY <2>3
    <3>2. \A k \in Pieces : Has(p, i, k)'
      BY <3>1
    <3> QED
      BY <3>2
  <2> QED
    BY <1>2, <2>1, <2>2, <2>3
<1>5. Once'
  <2>1. pc'[q] # "enqueue"
    BY DEF Draining
  <2> QED
    BY <1>3, <2>1 DEF Once, Drains
<1>6. job[q].id \in job[q].batch /\ job[q].batch \subseteq enqueued
  BY <1>1 DEF Typed, JobShape
<1>7. Pending'
  <2> SUFFICES ASSUME NEW a \in atoms'
               PROVE  /\ a.node \in enqueued
                      /\ (a.node \in queue /\ pc'[a.by] # "dead")
                           => pc'[a.by] \in Draining /\ a.node \in job'[a.by].batch
    BY DEF Pending
  <2>1. CASE a.node = job[q].id /\ a.by = q
    BY <1>6, <2>1
  <2>2. CASE \E b \in atoms : a.node = b.node /\ a.by = b.by
    <3>1. PICK b \in atoms : a.node = b.node /\ a.by = b.by
      BY <2>2
    <3>2. b.by \in Procs
      BY <1>1 DEF Typed, TypeOK, Atom
    <3>3. /\ b.node \in enqueued
          /\ (b.node \in queue /\ pc[b.by] # "dead")
               => pc[b.by] \in Draining /\ b.node \in job[b.by].batch
      BY DEF Pending, Drains
    <3>4. CASE b.by = q
      <4>1. pc[q] # "dead"
        BY DEF Draining
      <4> QED
        BY <3>1, <3>3, <3>4, <4>1
    <3>5. CASE b.by # q
      BY <1>3, <3>1, <3>2, <3>3, <3>5
    <3> QED
      BY <3>4, <3>5
  <2> QED
    BY <2>1, <2>2
<1> QED
  BY <1>2, <1>4, <1>5, <1>7 DEF Drains

\* One piece more is inserted.
LEMMA InsertAtomDrains ==
  ASSUME Saw, Drains, NEW q \in Procs, InsertAtom(q)
  PROVE  Drains'
<1>1. Typed /\ Act(q) /\ job \in [Procs -> Job] /\ job[q] \in Job
  BY DEF Saw, Act, Others, Drain, Typed, TypeOK
<1>2. PICK k \in job[q].left :
        /\ atoms' = atoms \cup {[node |-> job[q].id, fact |-> job[q].fact,
                                 piece |-> k, by |-> q, indexed |-> FALSE]}
        /\ job' = [job EXCEPT ![q].left = @ \ {k}]
  BY DEF InsertAtom
<1> DEFINE new == [node |-> job[q].id, fact |-> job[q].fact, piece |-> k, by |-> q,
                   indexed |-> FALSE]
           j == [job[q] EXCEPT !.left = @ \ {k}]
<1>3. pc[q] = "insert" /\ pc'[q] = "index" /\ UNCHANGED <<queue, enqueued>>
  BY <1>1 DEF InsertAtom, Goto, Typed, TypeOK
<1>4. j.batch = job[q].batch /\ j.id = job[q].id /\ j.left = job[q].left \ {k}
  BY <1>1 DEF Job
<1>5. job'[q] = j
  BY <1>1, <1>2
<1>6. new.node = job[q].id /\ new.piece = k /\ new.by = q /\ atoms' = atoms \cup {new}
  BY <1>2
<1> HIDE DEF new, j
<1>7. \A p \in Procs : \A i, x : (Has(p, i, x) => Has(p, i, x)') /\ (Some(p, i, x) => Some(p, i, x)')
  BY <1>6 DEF Has, Some
<1>8. DrainOf(q)'
  <2>1. \A x \in Pieces \ job[q].left : Has(q, job[q].id, x)
    BY <1>3 DEF Drains, DrainOf
  <2>2. ASSUME NEW x \in Pieces \ j.left
        PROVE  \E a \in atoms' : a.node = j.id /\ a.piece = x /\ a.by = q
    <3>1. CASE x = k
      BY <1>4, <1>6, <3>1
    <3>2. CASE x # k
      <4>1. Has(q, job[q].id, x)
        BY <1>4, <2>1, <2>2, <3>2
      <4> QED
        BY <1>4, <1>6, <4>1 DEF Has
    <3> QED
      BY <3>1, <3>2
  <2>3. (\A x \in Pieces \ job[q].left : Some(q, job[q].id, x))'
    BY <1>5, <2>2 DEF Some
  <2> QED
    BY <1>3, <2>3 DEF DrainOf
<1>9. \A a \in atoms' : (\E b \in atoms : a.node = b.node /\ a.by = b.by)
                         \/ (a.node = job[q].id /\ a.by = q)
  BY <1>6
<1> QED
  BY <1>1, <1>3, <1>4, <1>5, <1>7, <1>8, <1>9, AtomDrains DEF Draining

\* The atoms of the node are indexed.
LEMMA IndexAtomDrains ==
  ASSUME Saw, Drains, NEW q \in Procs, IndexAtom(q)
  PROVE  Drains'
<1>1. Typed /\ Act(q) /\ atoms \subseteq Atom
  BY DEF Saw, Act, Others, Drain, Typed, TypeOK
<1>2. /\ pc[q] = "index" /\ pc'[q] = AfterIndex(q) /\ UNCHANGED <<queue, enqueued, job>>
      /\ atoms' = (atoms \ Mine(q)) \cup {[a EXCEPT !.indexed = TRUE] : a \in Mine(q)}
  BY <1>1 DEF IndexAtom, Goto, Typed, TypeOK
<1>3. ASSUME NEW a \in atoms
      PROVE  LET b == [a EXCEPT !.indexed = TRUE]
             IN b.node = a.node /\ b.piece = a.piece /\ b.by = a.by /\ b.indexed
  BY <1>1 DEF Atom
<1>4. Mine(q) \subseteq atoms
  BY DEF Mine
<1>5. ASSUME NEW a \in atoms
      PROVE  \E b \in atoms' : /\ b.node = a.node /\ b.piece = a.piece /\ b.by = a.by
                               /\ a.indexed => b.indexed
                               /\ a \in Mine(q) => b.indexed
  <2>1. CASE a \in Mine(q)
    <3> DEFINE b == [a EXCEPT !.indexed = TRUE]
    <3>1. b \in atoms'
      BY <1>2, <2>1
    <3>2. b.node = a.node /\ b.piece = a.piece /\ b.by = a.by /\ b.indexed
      BY <1>3
    <3> HIDE DEF b
    <3> QED
      BY <3>1, <3>2
  <2>2. CASE a \notin Mine(q)
    <3>1. a \in atoms'
      BY <1>2, <2>2
    <3> QED
      BY <2>2, <3>1
  <2> QED
    BY <2>1, <2>2
<1>6. \A a \in atoms' : \E b \in atoms : a.node = b.node /\ a.by = b.by
  BY <1>2, <1>3, <1>4
<1>7. \A p \in Procs : \A i, x : (Has(p, i, x) => Has(p, i, x)') /\ (Some(p, i, x) => Some(p, i, x)')
  BY <1>5 DEF Has, Some
<1>8. DrainOf(q)'
  <2>1. \A x \in Pieces \ job[q].left : Some(q, job[q].id, x)
    BY <1>2 DEF Drains, DrainOf
  <2>2. ASSUME NEW x \in Pieces \ job[q].left
        PROVE  \E b \in atoms' : b.node = job[q].id /\ b.piece = x /\ b.by = q /\ b.indexed
    <3>1. PICK a \in atoms : a.node = job[q].id /\ a.piece = x /\ a.by = q
      BY <2>1 DEF Some
    <3>2. a \in Mine(q)
      BY <3>1 DEF Mine
    <3> QED
      BY <1>5, <3>1, <3>2
  <2>3. (\A x \in Pieces \ job[q].left : Has(q, job[q].id, x))'
    BY <1>2, <2>2 DEF Has
  <2>4. pc'[q] = "insert" \/ (pc'[q] = "dequeue" /\ job[q].left = {})
    BY <1>2 DEF AfterIndex
  <2>5. (pc[q] = "dequeue" => \A x \in Pieces : Has(q, job[q].id, x))'
    BY <1>2, <2>3, <2>4
  <2> QED
    BY <2>3, <2>4, <2>5 DEF DrainOf
<1>9. pc'[q] \in Draining
  BY <1>2 DEF AfterIndex, Draining
<1> QED
  BY <1>1, <1>2, <1>6, <1>7, <1>8, <1>9, AtomDrains DEF Draining

\* A node leaves the queue when the drain is past it.
LEMMA DequeueDrains ==
  ASSUME Saw, Drains, NEW q \in Procs, Dequeue(q)
  PROVE  Drains'
<1>1. Typed /\ Act(q) /\ job \in [Procs -> Job]
  BY DEF Saw, Act, Others, Drain, Typed, TypeOK
<1> DEFINE j == [NoJob EXCEPT !.batch = job[q].batch \ {job[q].id}]
<1>2. /\ pc[q] = "dequeue" /\ pc'[q] = "next" /\ UNCHANGED <<nodes, enqueued, atoms>>
      /\ queue' = queue \ {job[q].id} /\ job'[q] = j
  BY <1>1 DEF Dequeue, Goto, Typed, TypeOK
<1>3. j.batch = job[q].batch \ {job[q].id}
  BY NoJobTyped DEF Job
<1> HIDE DEF j
<1>4. /\ \A i \in 1..Size : Gone(i) => Gone(i)'
      /\ \A p \in Procs \ {q} : DrainOf(p)'
  BY <1>1, <1>2, Behind DEF Has, Some
<1>5. \A p \in Procs \ {q} : pc'[p] = pc[p] /\ job'[p] = job[p]
  BY <1>1, Places
<1>6. DrainOf(q)'
  BY <1>2 DEF DrainOf
<1>7. Accounted'
  <2> SUFFICES ASSUME NEW i \in enqueued
               PROVE  Gone(i) \/ i \in queue' \/ \E p \in Procs : \A k \in Pieces : Has(p, i, k)
    BY <1>2 DEF Accounted, Has, Gone
  <2>1. Gone(i) \/ i \in queue \/ \E p \in Procs : \A k \in Pieces : Has(p, i, k)
    BY DEF Accounted, Drains
  <2>2. Gone(job[q].id) \/ \A k \in Pieces : Has(q, job[q].id, k)
    BY <1>2 DEF Drains, DrainOf
  <2>3. CASE i = job[q].id
    BY <2>2, <2>3
  <2>4. CASE i # job[q].id
    BY <1>2, <2>1, <2>4
  <2> QED
    BY <2>3, <2>4
<1>8. Once'
  <2>1. \A p \in Procs : pc'[p] = "enqueue" => p # q
    BY <1>2
  <2> QED
    BY <1>2, <1>5, <2>1 DEF Once, Drains
<1>9. Pending'
  <2> SUFFICES ASSUME NEW a \in atoms
               PROVE  /\ a.node \in enqueued
                      /\ (a.node \in queue' /\ pc'[a.by] # "dead")
                           => pc'[a.by] \in Draining /\ a.node \in job'[a.by].batch
    BY <1>2 DEF Pending
  <2>1. a.by \in Procs
    BY <1>1 DEF Typed, TypeOK, Atom
  <2>2. /\ a.node \in enqueued
        /\ (a.node \in queue /\ pc[a.by] # "dead")
             => pc[a.by] \in Draining /\ a.node \in job[a.by].batch
    BY DEF Pending, Drains
  <2>3. a.node \in queue' => a.node \in queue /\ a.node # job[q].id
    BY <1>2
  <2>4. CASE a.by = q
    BY <1>2, <1>3, <2>2, <2>3, <2>4 DEF Draining
  <2>5. CASE a.by # q
    BY <1>5, <2>1, <2>2, <2>3, <2>5
  <2> QED
    BY <2>4, <2>5
<1> QED
  BY <1>4, <1>6, <1>7, <1>8, <1>9 DEF Drains

\* However many drains overlap or are killed, what was queued stays queued until
\* one of them has indexed all of it; and who ended left nothing of its own.
THEOREM QueuedIsAtomized == Spec => []QueuedUntilAtomized
<1>1. Atomizing /\ [Next]_vars => Atomizing'
  <2> SUFFICES ASSUME Saw, Drains, [Next]_vars PROVE Saw' /\ Drains'
    BY DEF Atomizing
  <2>1. CASE Next
    <3>1. PICK q \in Procs : Act(q)
      BY <2>1, NextIsAct
    <3>2. Quiet(q) \/ Enqueue(q) \/ InsertAtom(q) \/ IndexAtom(q) \/ Dequeue(q)
      BY <3>1 DEF Act, Others, Drain, Quiet
    <3> QED
      BY <3>2, SawStep, QuietDrains, EnqueueDrains, InsertAtomDrains, IndexAtomDrains,
         DequeueDrains
  <2>2. CASE UNCHANGED vars
    <3>1. Drains'
      BY <2>2 DEF vars, Drains, DrainOf, Accounted, Once, Pending, Has, Some, Gone
    <3> QED
      BY <3>1, SawStep
  <2> QED
    BY <2>1, <2>2
<1>2. Atomizing => QueuedUntilAtomized
  <2> SUFFICES ASSUME Typed, Marked, Drains PROVE QueuedUntilAtomized
    BY DEF Atomizing, Saw
  <2>1. TypeOK
    BY DEF Typed
  <2>2. ASSUME NEW i \in enqueued
        PROVE  "forgotten" \in nodes[i].was \/ nodes[i].was \cap Procs # {}
               \/ i \in queue
               \/ \E p \in Procs : \A k \in Pieces : \E a \in atoms :
                    a.node = i /\ a.piece = k /\ a.by = p /\ a.indexed
    BY DEF Drains, Accounted, Gone, Forgetful, Has
  <2>3. ASSUME NEW a \in atoms, pc[a.by] = "gone" PROVE a.node \notin queue
    BY <2>3 DEF Drains, Pending, Draining
  <2> QED
    BY <2>1, <2>2, <2>3 DEF QueuedUntilAtomized
<1> QED
  BY <1>1, <1>2, AtomizingInit, PTL DEF Spec

=============================================================================
