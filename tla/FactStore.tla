----------------------------- MODULE FactStore -----------------------------
(***************************************************************************)
(* The memory of a project in its SQLite file: the writes of               *)
(* imem/memory_store, the atom queue of imem/atom_store, and the           *)
(* consolidation of near duplicates, as commands of processes that share   *)
(* the file.  A statement is atomic; no command uses a transaction around  *)
(* more than one, so each statement is an action.                          *)
(*                                                                         *)
(* Two contents are similar (Jaccard or cosine above the threshold) when   *)
(* they state the same fact.  Use counts are left out: which of several    *)
(* similar nodes has the highest one is open whenever it is asked.         *)
(***************************************************************************)
EXTENDS Naturals, Sequences, FiniteSets

CONSTANTS
  Procs,    \* commands, each run once
  Facts,    \* what a node can say
  Pieces,   \* the atoms a content is split into
  MaxNodes, \* bound on the nodes stored
  MaxKills, \* bound on the commands killed
  Nobody    \* superseded_by of a fact that is not superseded

Ids == 1..MaxNodes

ASSUME FactStoreAssumption ==
  /\ MaxNodes \in Nat \ {0} /\ MaxKills \in Nat
  /\ Nobody \notin 0..MaxNodes
  /\ {"forgotten", "updated"} \cap Procs = {}
  /\ Facts # {} /\ Pieces # {}

VARIABLES
  nodes,    \* memory_nodes by id.  History: forced, it was stored with --force;
            \* seen, the ids its duplicate check saw; was, what happened to it
            \* since (a process: the consolidation that merged it)
  queue,    \* memory_atom_queue
  enqueued, \* history: nodes that were put into the queue
  atoms,    \* memory_atoms, with their rows of memory_atoms_fts
  pc,       \* where each command is
  job,      \* what it works on
  kills

vars == <<nodes, queue, enqueued, atoms, pc, job, kills>>
others == <<queue, enqueued, atoms, kills>>

NoId == 0

Node == [fact : Facts, kept : {"kept", "forgotten", "purged"},
         by : Ids \cup {Nobody}, forced : BOOLEAN, seen : 0..MaxNodes,
         was : SUBSET ({"forgotten", "updated"} \cup Procs)]

Job == [fact : Facts, id : 0..MaxNodes, forced : BOOLEAN, seen : 0..MaxNodes,
        batch : SUBSET Ids, left : SUBSET Pieces]

Atom == [node : Ids, fact : Facts, piece : Pieces, by : Procs, indexed : BOOLEAN]

TypeOK ==
  /\ nodes \in Seq(Node) /\ Len(nodes) <= MaxNodes
  /\ queue \subseteq enqueued /\ enqueued \subseteq DOMAIN nodes
  /\ atoms \subseteq Atom
  /\ pc \in [Procs -> {"idle", "insert node", "enqueue", "supersede", "merge",
                       "next", "insert", "index", "dequeue", "gone", "dead"}]
  /\ job \in [Procs -> Job]
  /\ kills \in 0..MaxKills

-----------------------------------------------------------------------------
Fresh(f, forced, seen) == [fact |-> f, kept |-> "kept", by |-> Nobody,
                           forced |-> forced, seen |-> seen, was |-> {}]

NoJob == [fact |-> CHOOSE f \in Facts : TRUE, id |-> NoId, forced |-> FALSE,
          seen |-> 0, batch |-> {}, left |-> {}]

\* A new project, or one with a node stored and not yet split.
Init ==
  /\ \/ nodes = <<>> /\ queue = {}
     \/ \E f \in Facts : nodes = <<Fresh(f, FALSE, 0)>> /\ queue = {1}
  /\ enqueued = queue
  /\ atoms = {}
  /\ pc = [p \in Procs |-> "idle"]
  /\ job = [p \in Procs |-> NoJob]
  /\ kills = 0

Rows(kept) == {i \in DOMAIN nodes : nodes[i].kept = kept}

\* all(): what recall and consolidation see.
Live == {i \in Rows("kept") : nodes[i].by = Nobody}

\* findSimilar: superseded facts count, too.
Similar(f) == {i \in Rows("kept") : nodes[i].fact = f}

\* The statement sets the column of the rows S; each gets a mark in its history.
Rewrite(S, Column(_), mark) ==
  nodes' = [i \in DOMAIN nodes |->
              IF i \in S THEN [Column(nodes[i]) EXCEPT !.was = @ \cup mark]
              ELSE nodes[i]]

Goto(p, from, to) == pc[p] = from /\ pc' = [pc EXCEPT ![p] = to]

-----------------------------------------------------------------------------
(* memory_store: one command each.                                         *)

CheckNothing(f, forced) == TRUE \* mutant: every store is forced

\* The duplicate check; a similar node ends the command, with an error or, in
\* silent mode, with that node's id.
Passes(f, forced) == forced \/ Similar(f) = {}

Check(p) ==
  \E f \in Facts, forced \in BOOLEAN :
    /\ IF Passes(f, forced)
       THEN /\ Goto(p, "idle", "insert node")
            /\ job' = [job EXCEPT ![p] = [NoJob EXCEPT !.fact = f,
                         !.forced = forced, !.seen = Len(nodes)]]
       ELSE Goto(p, "idle", "gone") /\ UNCHANGED job
    /\ UNCHANGED <<nodes, others>>

InsertNode(p) ==
  /\ Len(nodes) < MaxNodes
  /\ Goto(p, "insert node", "enqueue")
  /\ nodes' = Append(nodes, Fresh(job[p].fact, job[p].forced, job[p].seen))
  /\ job' = [job EXCEPT ![p] = [NoJob EXCEPT !.id = Len(nodes) + 1]]
  /\ UNCHANGED others

\* Best effort: not with ICMG_ATOMIZE=0, and an error is swallowed.
Enqueue(p) ==
  /\ Goto(p, "enqueue", "gone")
  /\ \E add \in {{}, {job[p].id}} :
       queue' = queue \cup add /\ enqueued' = enqueued \cup add
  /\ job' = [job EXCEPT ![p] = NoJob]
  /\ UNCHANGED <<nodes, atoms, kills>>

\* update() looks neither at deleted_at nor at invalidated_at.
Update(p) ==
  /\ Goto(p, "idle", "gone")
  /\ \E i \in DOMAIN nodes \ Rows("purged"), f \in Facts :
       Rewrite({i}, LAMBDA n : [n EXCEPT !.fact = f], {"updated"})
  /\ UNCHANGED <<job, others>>

\* remove(), or `forget --pattern`.
Remove(p) ==
  /\ Goto(p, "idle", "gone")
  /\ \E S \in {{i} : i \in Rows("kept")} \cup {Similar(f) : f \in Facts} :
       Rewrite(S, LAMBDA n : [n EXCEPT !.kept = "forgotten"], {"forgotten"})
  /\ UNCHANGED <<job, others>>

Restore(p) ==
  /\ Goto(p, "idle", "gone")
  /\ \E i \in Rows("forgotten") :
       Rewrite({i}, LAMBDA n : [n EXCEPT !.kept = "kept"], {})
  /\ UNCHANGED <<job, others>>

\* Whatever was forgotten before the cutoff.
Purge(p) ==
  /\ Goto(p, "idle", "gone")
  /\ \E S \in SUBSET Rows("forgotten") :
       Rewrite(S, LAMBDA n : [n EXCEPT !.kept = "purged"], {})
  /\ UNCHANGED <<job, others>>

\* invalidate() reads the node, and writes if it is not superseded.
Invalidate(p) ==
  /\ Goto(p, "idle", "supersede")
  /\ \E i \in DOMAIN nodes \ Rows("purged") :
       /\ nodes[i].by = Nobody
       /\ job' = [job EXCEPT ![p].id = i]
  /\ UNCHANGED <<nodes, others>>

SupersedeUnguarded(p) == \* mutant: the UPDATE trusts the read before it
  /\ Goto(p, "supersede", "gone")
  /\ \E j \in DOMAIN nodes :
       Rewrite({job[p].id} \ Rows("purged"), LAMBDA n : [n EXCEPT !.by = j], {})
  /\ job' = [job EXCEPT ![p] = NoJob]
  /\ UNCHANGED others

\* The UPDATE tests invalidated_at again; the command reports success anyway.
Supersede(p) ==
  /\ Goto(p, "supersede", "gone")
  /\ \E j \in DOMAIN nodes :
       Rewrite({i \in {job[p].id} : nodes[i].by = Nobody /\ nodes[i].kept # "purged"},
               LAMBDA n : [n EXCEPT !.by = j], {})
  /\ job' = [job EXCEPT ![p] = NoJob]
  /\ UNCHANGED others

-----------------------------------------------------------------------------
(* memory consolidate.                                                     *)

\* mutant: all pairs are compared both ways, and equal counts lose
LosersBothWays(keepers) == {i \in Live : \E j \in Live \ {i} : nodes[i].fact = nodes[j].fact}

\* Going through the pairs, every node loses to a similar one with a higher count
\* (the earlier of two with the same), so that one of each fact is left.
Losers(keepers) == Live \ keepers

Keepers == {K \in SUBSET Live :
              /\ {nodes[i].fact : i \in K} = {nodes[i].fact : i \in Live}
              /\ \A i, j \in K : nodes[i].fact = nodes[j].fact => i = j}

Consolidate(p) ==
  /\ Goto(p, "idle", "merge")
  /\ \E K \in Keepers : job' = [job EXCEPT ![p].batch = Losers(K)]
  /\ UNCHANGED <<nodes, others>>

\* One loser after the other, whatever became of it or of its keeper meanwhile.
Merge(p) ==
  /\ \E i \in job[p].batch :
       /\ Goto(p, "merge", "merge")
       /\ Rewrite({i} \ Rows("purged"), LAMBDA n : [n EXCEPT !.kept = "forgotten"], {p})
       /\ job' = [job EXCEPT ![p].batch = @ \ {i}]
  /\ UNCHANGED others

Merged(p) ==
  /\ job[p].batch = {}
  /\ Goto(p, "merge", "gone")
  /\ UNCHANGED <<nodes, job, others>>

-----------------------------------------------------------------------------
(* drainQueue: `memory atomize run` and compact-bg.                        *)

\* The oldest rows, up to a limit.
ReadQueue(p) ==
  /\ Goto(p, "idle", "next")
  /\ \E B \in SUBSET queue : job' = [job EXCEPT ![p].batch = B]
  /\ UNCHANGED <<nodes, others>>

\* A node that is forgotten or gone has no content, and is only dequeued.
ReadNode(p) ==
  /\ \E i \in job[p].batch :
       /\ Goto(p, "next", IF i \in Rows("kept") THEN "insert" ELSE "dequeue")
       /\ job' = [job EXCEPT ![p].id = i, ![p].left = Pieces,
                             ![p].fact = nodes[i].fact]
  /\ UNCHANGED <<nodes, others>>

InsertAtom(p) ==
  /\ Goto(p, "insert", "index")
  /\ \E k \in job[p].left :
       /\ atoms' = atoms \cup {[node |-> job[p].id, fact |-> job[p].fact,
                                piece |-> k, by |-> p, indexed |-> FALSE]}
       /\ job' = [job EXCEPT ![p].left = @ \ {k}]
  /\ UNCHANGED <<nodes, queue, enqueued, kills>>

Mine(p) == {a \in atoms : a.by = p /\ a.node = job[p].id}

AfterFirstAtom(p) == "dequeue" \* mutant: the loop over the atoms ends early

AfterIndex(p) == IF job[p].left = {} THEN "dequeue" ELSE "insert"

\* Only an atom with a row in memory_atoms_fts is found by recall.
IndexAtom(p) ==
  /\ Goto(p, "index", AfterIndex(p))
  /\ atoms' = (atoms \ Mine(p)) \cup {[a EXCEPT !.indexed = TRUE] : a \in Mine(p)}
  /\ UNCHANGED <<nodes, queue, enqueued, job, kills>>

Dequeue(p) ==
  /\ Goto(p, "dequeue", "next")
  /\ queue' = queue \ {job[p].id}
  /\ job' = [job EXCEPT ![p] = [NoJob EXCEPT !.batch = job[p].batch \ {job[p].id}]]
  /\ UNCHANGED <<nodes, enqueued, atoms, kills>>

Drained(p) ==
  /\ job[p].batch = {}
  /\ Goto(p, "next", "gone")
  /\ UNCHANGED <<nodes, job, others>>

\* Killed, or stopped by an error of SQLite, between two statements.
Kill(p) ==
  /\ pc[p] \notin {"idle", "gone", "dead"}
  /\ kills < MaxKills /\ kills' = kills + 1
  /\ pc' = [pc EXCEPT ![p] = "dead"]
  /\ job' = [job EXCEPT ![p] = NoJob]
  /\ UNCHANGED <<nodes, queue, enqueued, atoms>>

Store(p) == Check(p) \/ InsertNode(p) \/ Enqueue(p)
Consolidation(p) == Consolidate(p) \/ Merge(p) \/ Merged(p)
Drain(p) == ReadQueue(p) \/ ReadNode(p) \/ InsertAtom(p) \/ IndexAtom(p)
            \/ Dequeue(p) \/ Drained(p)

Next == \E p \in Procs :
  \/ Store(p) \/ Update(p) \/ Remove(p) \/ Restore(p) \/ Purge(p)
  \/ Invalidate(p) \/ Supersede(p) \/ Consolidation(p) \/ Drain(p) \/ Kill(p)

Spec == Init /\ [][Next]_vars

-----------------------------------------------------------------------------
(* Properties.                                                             *)

\* What was put into the atom queue stays there until one drain has inserted and
\* indexed all of its atoms, however many drains overlap or are killed; and a
\* drain that ended leaves none of its nodes queued.  (A node that was ever
\* forgotten is exempt: dequeued while it is, it is not queued again when it is
\* restored.)
QueuedUntilAtomized ==
  /\ TypeOK
  /\ \A i \in enqueued : "forgotten" \in nodes[i].was \/ nodes[i].was \cap Procs # {}
       \/ i \in queue
       \/ \E p \in Procs : \A k \in Pieces : \E a \in atoms :
            a.node = i /\ a.piece = k /\ a.by = p /\ a.indexed
  /\ \A a \in atoms : pc[a.by] = "gone" => a.node \notin queue

\* Two kept nodes state one fact only if the later one was forced, or its check
\* ran before the other was inserted (store() in two processes), or one of them
\* was updated or restored.
DuplicatesExplained ==
  \A i, j \in Rows("kept") :
    (/\ i < j /\ nodes[i].fact = nodes[j].fact
     /\ nodes[i].was = {} /\ nodes[j].was = {} /\ ~nodes[j].forced)
      => nodes[j].seen < i

\* One consolidation, killed or not and with any stores beside it, never forgets
\* the last node of a fact.  (Two at once may: each keeps what the other drops.)
ConsolidationKeepsOne ==
  \A f \in Facts :
    LET S == {i \in DOMAIN nodes : nodes[i].fact = f} IN
    (/\ S # {} /\ \A i \in S : nodes[i].by = Nobody
     /\ \A i \in DOMAIN nodes : "updated" \notin nodes[i].was
     /\ \E p \in Procs : \A i \in S : nodes[i].was \subseteq {p})
      => S \cap Rows("kept") # {}

\* Every fact has the history the memory promises: superseded once, by the first
\* who says so (bi-temporal), whichever processes race; purged only if forgotten.
Promised == INSTANCE FactHistory WITH
  history <- [i \in DOMAIN nodes |-> [by |-> nodes[i].by, kept |-> nodes[i].kept]]

HistorySpec == Promised!Spec
=============================================================================
