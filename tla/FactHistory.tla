---------------------------- MODULE FactHistory ----------------------------
(***************************************************************************)
(* What the memory promises of a fact, without processes: it is superseded *)
(* at most once and keeps its successor, it can be forgotten and restored, *)
(* and only what is forgotten is ever purged.                              *)
(***************************************************************************)
EXTENDS Naturals, Sequences

CONSTANTS
  Ids,   \* ids of memory nodes
  Nobody \* the successor of a fact that is not superseded

VARIABLE history \* per id, its successor and what became of it

Entry == [by : Ids \cup {Nobody}, kept : {"kept", "forgotten", "purged"}]

Init == history \in {<<>>, <<[by |-> Nobody, kept |-> "kept"]>>}

Store == history' = Append(history, [by |-> Nobody, kept |-> "kept"])

Supersede(i) ==
  /\ history[i].by = Nobody /\ history[i].kept # "purged"
  /\ \E j \in Ids : history' = [history EXCEPT ![i].by = j]

Forget(S) ==
  /\ \A i \in S : history[i].kept = "kept"
  /\ history' = [i \in DOMAIN history |->
       IF i \in S THEN [history[i] EXCEPT !.kept = "forgotten"] ELSE history[i]]

Restore(i) ==
  /\ history[i].kept = "forgotten"
  /\ history' = [history EXCEPT ![i].kept = "kept"]

Purge(S) ==
  /\ \A i \in S : history[i].kept = "forgotten"
  /\ history' = [i \in DOMAIN history |->
       IF i \in S THEN [history[i] EXCEPT !.kept = "purged"] ELSE history[i]]

Next ==
  \/ Store
  \/ \E i \in DOMAIN history : Supersede(i) \/ Restore(i)
  \/ \E S \in SUBSET DOMAIN history : Forget(S) \/ Purge(S)

Spec == Init /\ [][Next]_history
=============================================================================
