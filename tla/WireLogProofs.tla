--------------------------- MODULE WireLogProofs --------------------------
(***************************************************************************)
(* Proofs about WireLog, for any sessions, commands, scopes and sizes.     *)
(*                                                                         *)
(* Until a message is appended into a compaction, all compactions under    *)
(* way carry the same lines, and the log is empty or ends in them; so what *)
(* a check reads is all there is, or nothing.  Until two claims overlap or *)
(* a scope is released by another, its last line is its holder's, and a    *)
(* claim that was granted has no rival.                                    *)
(***************************************************************************)
EXTENDS WireLog, FiniteSetTheorems, SequenceTheorems, WellFoundedInduction, TLAPS

Msg == [n : Nat, from : Sessions, to : Sessions \cup {"*"}, ts : Nat]
Lease == [scope : Scopes, owner : Sessions, beat : Int]

Command ==
  [at : {"idle", "readback"}]
  \cup [at : {"append"}, me : Sessions, now : Nat, to : Sessions \cup {"*"}]
  \cup [at : {"truncate", "rewrite"}, kept : Seq(Msg)]
  \cup [at : {"inbox"}, me : Sessions, since : Nat]
  \cup [at : {"advance"}, me : Sessions, newest : Nat]
  \cup [at : {"claim", "lease"}, me : Sessions, now : Nat, scope : Scopes]

\* The log, and what a compaction carries, as a set of lines.
InLog(m) == \E i \in 1..Len(msgs) : m = msgs[i]
Kept(p) == proc[p].kept
Carried(m) == \E p \in Procs : Compacting(p) /\ \E i \in 1..Len(Kept(p)) : m = Kept(p)[i]

Typed ==
  /\ clock \in 1..MaxClock /\ sent \in Nat
  /\ msgs \in Seq(Msg) /\ leases \in Seq(Lease)
  /\ cursor \in [Sessions -> Nat] /\ upto \in [Sessions -> Nat]
  /\ shown \in [Sessions -> SUBSET Nat] /\ late \in [Sessions -> SUBSET Nat]
  /\ held \in [Sessions -> [Scopes -> Int]]
  /\ proc \in [Procs -> Command]
  /\ mishaps \subseteq {"append in compaction", "killed in compaction",
                        "claims at once", "released by another"}

\* A place tells what a command carries.
LEMMA Carries ==
  ASSUME Typed, NEW p \in Procs
  PROVE  /\ At(p, "append") => /\ proc[p].me \in Sessions /\ proc[p].now \in Nat
                               /\ proc[p].to \in Sessions \cup {"*"}
         /\ Compacting(p) => Kept(p) \in Seq(Msg)
         /\ At(p, "inbox") => proc[p].me \in Sessions /\ proc[p].since \in Nat
         /\ At(p, "advance") => proc[p].me \in Sessions /\ proc[p].newest \in Nat
         /\ At(p, "claim") \/ At(p, "lease") =>
              proc[p].me \in Sessions /\ proc[p].now \in Nat /\ proc[p].scope \in Scopes
<1> DEFINE r == proc[p]
<1>1. r \in Command
  BY DEF Typed
<1>2. /\ r.at = "append" => /\ r.me \in Sessions /\ r.now \in Nat
                            /\ r.to \in Sessions \cup {"*"}
      /\ r.at \in {"truncate", "rewrite"} => r.kept \in Seq(Msg)
      /\ r.at = "inbox" => r.me \in Sessions /\ r.since \in Nat
      /\ r.at = "advance" => r.me \in Sessions /\ r.newest \in Nat
      /\ r.at \in {"claim", "lease"} =>
           r.me \in Sessions /\ r.now \in Nat /\ r.scope \in Scopes
  BY <1>1 DEF Command
<1> QED
  BY <1>2 DEF At, Compacting, Kept

\* A set of numbers that has a bound has a maximum.
LEMMA Bounded ==
  ASSUME NEW c \in Nat, NEW S \in SUBSET (0..c), S # {}
  PROVE  Max(S) \in S /\ \A x \in S : x <= Max(S)
<1> DEFINE T == {c - x : x \in S}
           R == OpToRel(<, Nat)
<1>0. \A x \in S : x \in 0..c
  OBVIOUS
<1>1. T \subseteq Nat
  BY <1>0
<1>2. T # {}
  OBVIOUS
<1>3. PICK y \in T : \A z \in T : ~(<<z, y>> \in R)
  <2> HIDE DEF T
  <2> QED
    BY <1>1, <1>2, WFMin, NatLessThanWellFounded, Zenon
<1>4. ASSUME NEW z \in T, z < y PROVE FALSE
  <2>1. z \in Nat /\ y \in Nat
    BY <1>1
  <2>2. <<z, y>> \in R
    BY <2>1, <1>4 DEF OpToRel
  <2> QED
    BY <2>2, <1>3
<1>5. PICK x \in S : y = c - x
  OBVIOUS
<1>6. \A z \in S : x >= z
  <2> SUFFICES ASSUME NEW z \in S, ~(x >= z) PROVE FALSE
    OBVIOUS
  <2>1. c - z < y /\ c - z \in T
    BY <1>0, <1>5
  <2> QED
    BY <2>1, <1>4
<1>7. \E u \in S : \A z \in S : u >= z
  BY <1>6
<1>8. Max(S) \in S /\ \A z \in S : Max(S) >= z
  BY <1>7 DEF Max
<1> QED
  BY <1>8, <1>0

\* A command goes on to a place of its kind, and nobody else moves.
LEMMA Moved ==
  ASSUME Typed, NEW p \in Procs, NEW r \in Command, Goto(p, r)
  PROVE  /\ proc' \in [Procs -> Command] /\ proc'[p] = r
         /\ \A q \in Procs \ {p} : proc'[q] = proc[q]
BY DEF Typed, Goto

LEMMA Places ==
  /\ Idle \in Command /\ [at |-> "readback"] \in Command
  /\ \A me \in Sessions, now \in Nat, to \in Sessions \cup {"*"} :
       [at |-> "append", me |-> me, now |-> now, to |-> to] \in Command
  /\ \A l \in {"truncate", "rewrite"}, k \in Seq(Msg) : [at |-> l, kept |-> k] \in Command
  /\ \A me \in Sessions, t \in Nat :
       /\ [at |-> "inbox", me |-> me, since |-> t] \in Command
       /\ [at |-> "advance", me |-> me, newest |-> t] \in Command
  /\ \A l \in {"claim", "lease"}, me \in Sessions, now \in Nat, x \in Scopes :
       [at |-> l, me |-> me, now |-> now, scope |-> x] \in Command
BY DEF Command, Idle

\* What goes on to another place with what it carries.
LEMMA Onward ==
  ASSUME Typed, NEW p \in Procs
  PROVE  /\ At(p, "truncate") =>
              [proc[p] EXCEPT !.at = "rewrite"] = [at |-> "rewrite", kept |-> Kept(p)]
         /\ At(p, "claim") => [proc[p] EXCEPT !.at = "lease"] =
              [at |-> "lease", me |-> proc[p].me, now |-> proc[p].now, scope |-> proc[p].scope]
<1> DEFINE r == proc[p]
<1>1. r \in Command
  BY DEF Typed
<1>2. ASSUME r.at = "truncate" PROVE r \in [at : {"truncate", "rewrite"}, kept : Seq(Msg)]
  BY <1>1, <1>2 DEF Command
<1>3. ASSUME r.at = "claim"
      PROVE  r \in [at : {"claim", "lease"}, me : Sessions, now : Nat, scope : Scopes]
  BY <1>1, <1>3 DEF Command
<1> QED
  BY <1>2, <1>3 DEF At, Kept

LEMMA LastAreLines ==
  ASSUME msgs \in Seq(Msg), Len(msgs) > MaxLog
  PROVE  /\ LastLines(msgs) \in Seq(Msg) /\ Len(LastLines(msgs)) = Keep
         /\ \A i \in 1..Keep : LastLines(msgs)[i] = msgs[Len(msgs) - Keep + i]
<1>1. Len(msgs) \in Nat /\ Keep \in Nat /\ Keep < Len(msgs) /\ Keep >= 1
  BY WireAssumption
<1> DEFINE m == Len(msgs) - Keep + 1
           n == Len(msgs)
<1>2. m \in 1..n+1 /\ n \in m-1..n
  BY <1>1
<1>3. SubSeq(msgs, m, n) \in Seq(Msg) /\ Len(SubSeq(msgs, m, n)) = Keep
  BY <1>1
<1>4. \A i \in 1..Keep : SubSeq(msgs, m, n)[i] = msgs[m + i - 1]
  BY <1>1, <1>3
<1> QED
  BY <1>1, <1>3, <1>4 DEF LastLines

-----------------------------------------------------------------------------
\* Types, and that nothing carries a time or a number still to come.
TimelyLines == \A m : InLog(m) \/ Carried(m) => m.n \in 1..sent /\ m.ts \in 1..clock

TimelyMarks ==
  \A s \in Sessions : /\ cursor[s] <= upto[s] /\ upto[s] <= clock
                      /\ shown[s] \cup late[s] \subseteq 1..sent
                      /\ \A x \in Scopes : held[s][x] \in {Released} \cup 1..clock

TimelyAt(p) ==
  /\ At(p, "append") \/ At(p, "claim") \/ At(p, "lease") => proc[p].now \in 1..clock
  /\ At(p, "inbox") => proc[p].since <= upto[proc[p].me]
  /\ At(p, "advance") => proc[p].newest <= upto[proc[p].me]

Timely == TimelyLines /\ TimelyMarks /\ \A p \in Procs : TimelyAt(p)

LEMMA Counts ==
  ASSUME Typed
  PROVE  /\ clock \in Nat /\ clock >= 1 /\ sent \in Nat /\ TTL \in Nat
         /\ Len(msgs) \in Nat /\ DOMAIN msgs = 1..Len(msgs) /\ \A i \in 1..Len(msgs) : msgs[i] \in Msg
         /\ Len(leases) \in Nat /\ DOMAIN leases = 1..Len(leases)
         /\ \A i \in 1..Len(leases) : leases[i] \in Lease
<1>1. clock \in 1..MaxClock /\ sent \in Nat /\ msgs \in Seq(Msg) /\ leases \in Seq(Lease)
  BY Zenon DEF Typed
<1>2. MaxClock \in Nat /\ TTL \in Nat
  BY WireAssumption
<1> QED
  BY <1>1, <1>2

LEMMA Lines ==
  ASSUME Typed
  PROVE  \A m : m \in ToSet(msgs) <=> InLog(m)
BY Counts DEF ToSet, InLog

LEMMA Newest ==
  ASSUME Typed, Timely, NEW s \in Sessions, NEW since \in 0..clock
  PROVE  Max({m.ts : m \in Inbox(msgs, s, since)} \cup {since}) \in since..clock
<1> DEFINE S == {m.ts : m \in Inbox(msgs, s, since)} \cup {since}
<1>1. clock \in Nat
  BY Counts
<1>2. S \subseteq 0..clock
  <2>1. \A m \in Inbox(msgs, s, since) : m.ts \in 1..clock
    BY Lines DEF Timely, TimelyLines, Inbox
  <2> QED
    BY <2>1, <1>1
<1>3. since \in S
  OBVIOUS
<1>4. Max(S) \in S /\ since <= Max(S)
  <2> HIDE DEF S
  <2> QED
    BY <1>1, <1>2, <1>3, Bounded
<1> QED
  BY <1>1, <1>2, <1>4

LEMMA InitTyped == Init => Typed /\ Timely
<1> SUFFICES ASSUME Init PROVE Typed /\ Timely
  OBVIOUS
<1> USE WireAssumption DEF Init
<1>1. Typed
  <2>1. Idle \in Command
    BY Places
  <2>2. msgs \in Seq(Msg) /\ leases \in Seq(Lease)
    BY EmptySeq
  <2>3. held \in [Sessions -> [Scopes -> Int]]
    BY DEF Released
  <2> QED
    BY <2>1, <2>2, <2>3 DEF Typed
<1>2. Timely
  <2>1. \A p \in Procs : proc[p].at = "idle"
    BY DEF Idle
  <2>2. \A m : ~InLog(m) /\ ~Carried(m)
    BY <2>1 DEF InLog, Carried, Compacting
  <2> QED
    BY <2>1, <2>2 DEF Timely, TimelyLines, TimelyMarks, TimelyAt, At
<1> QED
  BY <1>1, <1>2

\* A step of p that adds no line: what remains of Typed and Timely is p's.
LEMMA Elsewhere ==
  ASSUME Typed, Timely, NEW p \in Procs, NEW r \in Command, Goto(p, r),
         clock' = clock, sent' = sent,
         \A s \in Sessions : upto'[s] \in Nat /\ upto[s] <= upto'[s],
         \A m : InLog(m)' => InLog(m) \/ Carried(m),
         r.at \in {"truncate", "rewrite"} =>
           \A i \in 1..Len(r.kept) : InLog(r.kept[i]) \/ Carried(r.kept[i])
  PROVE  /\ TimelyLines'
         /\ \A q \in Procs \ {p} : TimelyAt(q)'
<1>1. proc'[p] = r /\ \A q \in Procs \ {p} : proc'[q] = proc[q]
  BY Moved
<1>2. TimelyLines'
  <2>1. \A m : Carried(m)' => InLog(m) \/ Carried(m)
    BY <1>1 DEF Carried, Compacting, Kept
  <2> QED
    BY <2>1 DEF Timely, TimelyLines
<1>3. ASSUME NEW q \in Procs \ {p} PROVE TimelyAt(q)'
  <2>1. TimelyAt(q) /\ proc'[q] = proc[q]
    BY <1>1, <1>3 DEF Timely
  <2>2. /\ At(q, "inbox") => proc[q].me \in Sessions /\ proc[q].since \in Nat
        /\ At(q, "advance") => proc[q].me \in Sessions /\ proc[q].newest \in Nat
    BY Carries
  <2>3. \A s \in Sessions : upto[s] \in Nat
    BY DEF Typed
  <2> QED
    BY <2>1, <2>2, <2>3 DEF TimelyAt, At
<1> QED
  BY <1>2, <1>3

Mishaps == {"append in compaction", "killed in compaction", "claims at once",
            "released by another"}

\* A step that only reads, or ends a command.
LEMMA Quiet ==
  ASSUME Typed, Timely, NEW p \in Procs, NEW r \in Command, Goto(p, r),
         UNCHANGED <<clock, messageVars, lockVars>>, mishaps' \subseteq Mishaps,
         r.at \in {"append", "claim", "lease"} => r.now \in 1..clock,
         r.at = "inbox" => r.since <= upto[r.me],
         r.at # "advance",
         r.at \in {"truncate", "rewrite"} =>
           \A i \in 1..Len(r.kept) : InLog(r.kept[i]) \/ Carried(r.kept[i])
  PROVE  Typed' /\ Timely'
<1> USE DEF messageVars, lockVars
<1>1. proc' \in [Procs -> Command] /\ proc'[p] = r
  BY Moved
<1>2. Typed'
  BY <1>1, Zenon DEF Typed, Mishaps
<1>3. \A m : InLog(m)' => InLog(m)
  BY DEF InLog
<1>4. \A s \in Sessions : upto'[s] \in Nat /\ upto[s] <= upto'[s]
  <2>1. upto \in [Sessions -> Nat]
    BY Zenon DEF Typed
  <2> QED
    BY <2>1
<1>5. TimelyLines' /\ \A q \in Procs \ {p} : TimelyAt(q)'
  BY <1>3, <1>4, Elsewhere
<1>6. TimelyAt(p)'
  BY <1>1 DEF TimelyAt, At
<1>7. TimelyMarks'
  BY DEF Timely, TimelyMarks
<1> QED
  BY <1>2, <1>5, <1>6, <1>7 DEF Timely

LEMMA QuietSteps ==
  ASSUME Typed, Timely, NEW p \in Procs,
         Send(p) \/ ReadBack(p) \/ Check(p) \/ Claim(p) \/ ReadLeases(p) \/ Kill(p)
  PROVE  Typed' /\ Timely'
<1> USE DEF Mishaps
<1>0. mishaps \subseteq Mishaps /\ clock \in 1..clock /\ clock \in Nat
  <2>1. mishaps \subseteq Mishaps
    BY Zenon DEF Typed
  <2>2. clock \in Nat /\ clock >= 1
    BY Counts
  <2>3. clock \in 1..clock
    BY <2>2
  <2> QED
    BY <2>1, <2>2, <2>3
<1>1. CASE Send(p)
  <2>1. PICK s \in Sessions, to \in Sessions \cup {"*"} :
          /\ Goto(p, [at |-> "append", me |-> s, now |-> clock, to |-> to])
          /\ UNCHANGED <<clock, messageVars, lockVars, mishaps>>
    BY <1>1, Zenon DEF Send
  <2>2. [at |-> "append", me |-> s, now |-> clock, to |-> to] \in Command
    BY <1>0, Places
  <2> QED
    BY <1>0, <2>1, <2>2, Quiet
<1>2. CASE ReadBack(p)
  <2>1. CASE Len(msgs) > MaxLog
    <3> DEFINE r == [at |-> "truncate", kept |-> LastLines(msgs)]
    <3>1. Goto(p, r) /\ UNCHANGED <<clock, messageVars, lockVars, mishaps>>
      BY <1>2, <2>1 DEF ReadBack
    <3>2. msgs \in Seq(Msg)
      BY DEF Typed
    <3>3. LastLines(msgs) \in Seq(Msg) /\ Len(LastLines(msgs)) = Keep
          /\ \A i \in 1..Keep : LastLines(msgs)[i] = msgs[Len(msgs) - Keep + i]
      BY <2>1, <3>2, LastAreLines
    <3>4. \A i \in 1..Keep : Len(msgs) - Keep + i \in 1..Len(msgs)
      BY <2>1, WireAssumption, Counts
    <3>5. \A i \in 1..Len(r.kept) : InLog(r.kept[i])
      BY <3>3, <3>4 DEF InLog
    <3>6. r \in Command
      BY <3>3, Places
    <3> HIDE DEF r
    <3>7. r.at = "truncate"
      BY DEF r
    <3> QED
      BY <1>0, <3>1, <3>5, <3>6, <3>7, Quiet
  <2>2. CASE ~(Len(msgs) > MaxLog)
    <3>1. Goto(p, Idle) /\ UNCHANGED <<clock, messageVars, lockVars, mishaps>>
      BY <1>2, <2>2 DEF ReadBack
    <3> QED
      BY <1>0, <3>1, Places, Quiet DEF Idle
  <2> QED
    BY <2>1, <2>2
<1>3. CASE Check(p)
  <2>1. PICK s \in Sessions :
          /\ Goto(p, [at |-> "inbox", me |-> s, since |-> cursor[s]])
          /\ UNCHANGED <<clock, messageVars, lockVars, mishaps>>
    BY <1>3, Zenon DEF Check
  <2>2. cursor[s] \in Nat /\ cursor[s] <= upto[s]
    BY DEF Typed, Timely, TimelyMarks
  <2>3. [at |-> "inbox", me |-> s, since |-> cursor[s]] \in Command
    BY <2>2, Places
  <2> QED
    BY <1>0, <2>1, <2>2, <2>3, Quiet
<1>4. CASE Claim(p)
  <2>1. PICK s \in Sessions, x \in Scopes :
          /\ Goto(p, [at |-> "claim", me |-> s, now |-> clock, scope |-> x])
          /\ UNCHANGED <<clock, messageVars, lockVars, mishaps>>
    BY <1>4, Zenon DEF Claim
  <2>2. [at |-> "claim", me |-> s, now |-> clock, scope |-> x] \in Command
    BY <1>0, Places
  <2> QED
    BY <1>0, <2>1, <2>2, Quiet
<1>5. CASE ReadLeases(p)
  <2>1. At(p, "claim") /\ UNCHANGED <<clock, messageVars, lockVars>> /\ mishaps' \subseteq Mishaps
    BY <1>0, <1>5 DEF ReadLeases
  <2> DEFINE r == [at |-> "lease", me |-> proc[p].me, now |-> proc[p].now, scope |-> proc[p].scope]
  <2>2. [proc[p] EXCEPT !.at = "lease"] = r
    BY <2>1, Onward
  <2>3. Goto(p, r) \/ Goto(p, Idle)
    BY <1>5, <2>2 DEF ReadLeases
  <2>4. r \in Command /\ proc[p].now \in 1..clock
    BY <2>1, Carries, Places DEF Timely, TimelyAt
  <2> QED
    BY <2>1, <2>3, <2>4, Places, Quiet DEF Idle
<1>6. CASE Kill(p)
  <2>1. Goto(p, Idle) /\ UNCHANGED <<clock, messageVars, lockVars>> /\ mishaps' \subseteq Mishaps
    BY <1>0, <1>6 DEF Kill
  <2> QED
    BY <2>1, Places, Quiet DEF Idle
<1> QED
  BY <1>1, <1>2, <1>3, <1>4, <1>5, <1>6

LEMMA TickStep ==
  ASSUME Typed, Timely, Tick
  PROVE  Typed' /\ Timely'
<1> USE DEF Tick, messageVars, lockVars
<1>1. clock \in Nat /\ clock >= 1 /\ clock' = clock + 1 /\ clock' \in 1..MaxClock
  BY Counts, WireAssumption
<1>2. Typed'
  BY <1>1, Zenon DEF Typed
<1>3. \A m : (InLog(m)' => InLog(m)) /\ (Carried(m)' => Carried(m))
  BY DEF InLog, Carried, Compacting, Kept
<1>4. TimelyLines'
  BY <1>1, <1>3 DEF Timely, TimelyLines
<1>5. TimelyMarks'
  <2>1. upto \in [Sessions -> Nat]
    BY Zenon DEF Typed
  <2>2. ASSUME NEW s \in Sessions
        PROVE  upto[s] <= clock' /\ \A x \in Scopes : held[s][x] \in {Released} \cup 1..clock'
    BY <1>1, <2>1 DEF Timely, TimelyMarks
  <2> QED
    BY <2>2 DEF Timely, TimelyMarks
<1>6. \A q \in Procs : TimelyAt(q)'
  BY <1>1 DEF Timely, TimelyAt, At
<1> QED
  BY <1>2, <1>4, <1>5, <1>6 DEF Timely

LEMMA AppendMessageStep ==
  ASSUME Typed, Timely, NEW p \in Procs, AppendMessage(p)
  PROVE  Typed' /\ Timely'
<1> DEFINE new == [n |-> sent + 1, from |-> proc[p].me, to |-> proc[p].to, ts |-> proc[p].now]
<1>1. /\ At(p, "append") /\ sent' = sent + 1 /\ msgs' = Append(msgs, new)
      /\ late' = [s \in Sessions |-> IF proc[p].now <= upto[s] THEN late[s] \cup {sent'} ELSE late[s]]
      /\ Goto(p, [at |-> "readback"])
      /\ UNCHANGED <<clock, cursor, shown, upto, leases, held>>
  BY DEF AppendMessage, lockVars
<1>2. /\ sent \in Nat /\ sent' \in Nat /\ clock \in Nat /\ msgs \in Seq(Msg) /\ new \in Msg
      /\ proc[p].now \in 1..clock
  <2>1. msgs \in Seq(Msg)
    BY Zenon DEF Typed
  <2> QED
    BY <2>1, <1>1, Carries, Counts DEF Timely, TimelyAt, Msg
<1>3. proc' \in [Procs -> Command] /\ proc'[p] = [at |-> "readback"]
      /\ \A q \in Procs \ {p} : proc'[q] = proc[q]
  BY <1>1, Moved, Places
<1>4. late' \in [Sessions -> SUBSET Nat]
  <2>1. late \in [Sessions -> SUBSET Nat]
    BY Zenon DEF Typed
  <2> QED
    BY <2>1, <1>1, <1>2
<1>5. mishaps' \subseteq Mishaps
  <2>1. mishaps \subseteq Mishaps
    BY Zenon DEF Typed, Mishaps
  <2> QED
    BY <2>1 DEF AppendMessage, Mishaps
<1>6. msgs' \in Seq(Msg)
  BY <1>1, <1>2
<1>7. Typed'
  BY <1>1, <1>2, <1>3, <1>4, <1>5, <1>6, Zenon DEF Typed, Mishaps
<1>8. \A m : (InLog(m)' => InLog(m) \/ m = new) /\ (Carried(m)' => Carried(m))
  <2>1. ASSUME NEW i \in 1..Len(msgs') PROVE msgs'[i] = new \/ (i \in 1..Len(msgs) /\ msgs'[i] = msgs[i])
    BY <1>1, <1>2
  <2>2. \A m : Carried(m)' => Carried(m)
    BY <1>3 DEF Carried, Compacting, Kept
  <2> QED
    BY <2>1, <2>2 DEF InLog
<1>9. TimelyLines'
  <2>1. new.n \in 1..sent' /\ new.ts \in 1..clock'
    BY <1>1, <1>2
  <2>2. 1..sent \subseteq 1..sent'
    BY <1>1, <1>2
  <2> QED
    BY <1>1, <1>8, <2>1, <2>2 DEF Timely, TimelyLines
<1>10. TimelyMarks'
  <2>1. ASSUME NEW s \in Sessions PROVE shown'[s] \cup late'[s] \subseteq 1..sent'
    <3>1. shown[s] \cup late[s] \subseteq 1..sent
      BY DEF Timely, TimelyMarks
    <3>2. 1..sent \subseteq 1..sent' /\ sent' \in 1..sent'
      BY <1>1, <1>2
    <3> QED
      BY <1>1, <3>1, <3>2
  <2> QED
    BY <1>1, <2>1 DEF Timely, TimelyMarks
<1>11. \A q \in Procs : TimelyAt(q)'
  BY <1>1, <1>3 DEF Timely, TimelyAt, At
<1> QED
  BY <1>7, <1>9, <1>10, <1>11 DEF Timely

LEMMA CompactStep ==
  ASSUME Typed, Timely, NEW p \in Procs, Compact(p)
  PROVE  Typed' /\ Timely'
<1>1. UNCHANGED <<clock, cursor, sent, shown, upto, late, leases, held, mishaps>>
  BY DEF Compact, lockVars
<1>2. PICK r \in Command :
        /\ Goto(p, r) /\ msgs' \in Seq(Msg)
        /\ r.at # "advance" /\ r.at \notin {"append", "claim", "lease", "inbox"}
        /\ r.at \in {"truncate", "rewrite"} => r.kept = Kept(p)
        /\ Compacting(p)
        /\ \A m : InLog(m)' => Carried(m)
  <2>1. CASE At(p, "truncate") /\ msgs' = <<>> /\ Goto(p, [proc[p] EXCEPT !.at = "rewrite"])
    <3>1. Compacting(p) /\ Kept(p) \in Seq(Msg)
      BY <2>1, Carries DEF At, Compacting
    <3>2. Goto(p, [at |-> "rewrite", kept |-> Kept(p)])
      BY <2>1, Onward
    <3>3. [at |-> "rewrite", kept |-> Kept(p)] \in Command
      BY <3>1, Places
    <3>4. \A m : ~InLog(m)'
      BY <2>1 DEF InLog
    <3> QED
      BY <2>1, <3>1, <3>2, <3>3, <3>4
  <2>2. CASE At(p, "rewrite") /\ msgs' = proc[p].kept /\ Goto(p, Idle)
    <3>1. Compacting(p) /\ Kept(p) \in Seq(Msg)
      BY <2>2, Carries DEF At, Compacting
    <3>2. \A m : InLog(m)' => Carried(m)
      BY <2>2, <3>1 DEF InLog, Carried, Kept
    <3>3. msgs' \in Seq(Msg)
      BY <2>2, <3>1 DEF Kept
    <3> QED
      BY <2>2, <3>1, <3>2, <3>3, Places DEF Idle
  <2> QED
    BY <2>1, <2>2 DEF Compact
<1>3. proc' \in [Procs -> Command] /\ proc'[p] = r
  BY <1>2, Moved
<1>4. Typed'
  BY <1>1, <1>2, <1>3, Zenon DEF Typed
<1>5. upto \in [Sessions -> Nat]
  BY Zenon DEF Typed
<1>6. \A s \in Sessions : upto'[s] \in Nat /\ upto[s] <= upto'[s]
  BY <1>1, <1>5
<1>7. r.at \in {"truncate", "rewrite"} =>
        \A i \in 1..Len(r.kept) : InLog(r.kept[i]) \/ Carried(r.kept[i])
  BY <1>2 DEF Carried
<1>8. TimelyLines' /\ \A q \in Procs \ {p} : TimelyAt(q)'
  BY <1>1, <1>2, <1>6, <1>7, Elsewhere
<1>9. TimelyAt(p)'
  BY <1>2, <1>3 DEF TimelyAt, At
<1>10. TimelyMarks'
  BY <1>1 DEF Timely, TimelyMarks
<1> QED
  BY <1>4, <1>8, <1>9, <1>10 DEF Timely

LEMMA ReadInboxStep ==
  ASSUME Typed, Timely, NEW p \in Procs, ReadInbox(p)
  PROVE  Typed' /\ Timely'
<1> DEFINE s == proc[p].me
           since == proc[p].since
           fresh == Inbox(msgs, s, since)
           newest == Max({m.ts : m \in fresh} \cup {since})
           r == [at |-> "advance", me |-> s, newest |-> newest]
<1>1. /\ At(p, "inbox") /\ Goto(p, r)
      /\ shown' = [shown EXCEPT ![s] = @ \cup {m.n : m \in fresh}]
      /\ upto' = [upto EXCEPT ![s] = Max({@, newest})]
      /\ UNCHANGED <<clock, msgs, cursor, sent, late, leases, held, mishaps>>
  BY DEF ReadInbox, lockVars
<1>2. s \in Sessions /\ since \in 0..clock /\ clock \in Nat
      /\ upto \in [Sessions -> Nat] /\ shown \in [Sessions -> SUBSET Nat] /\ upto[s] <= clock
  <2>1. upto \in [Sessions -> Nat] /\ shown \in [Sessions -> SUBSET Nat]
    BY Zenon DEF Typed
  <2>2. s \in Sessions /\ since \in Nat /\ since <= upto[s]
    BY <1>1, Carries DEF Timely, TimelyAt
  <2>3. upto[s] <= clock
    BY <2>2 DEF Timely, TimelyMarks
  <2> QED
    BY <2>1, <2>2, <2>3, Counts
<1>3. newest \in since..clock
  BY <1>2, Newest
<1>4. newest \in Nat /\ newest <= clock
  BY <1>2, <1>3
<1> HIDE DEF newest
<1>5. Max({upto[s], newest}) \in Nat /\ Max({upto[s], newest}) <= clock
      /\ upto[s] <= Max({upto[s], newest}) /\ newest <= Max({upto[s], newest})
  <2> DEFINE S == {upto[s], newest}
  <2>1. S \in SUBSET (0..clock) /\ S # {}
    BY <1>2, <1>4
  <2>2. Max(S) \in S /\ \A x \in S : x <= Max(S)
    <3> HIDE DEF S
    <3> QED
      BY <1>2, <2>1, Bounded
  <2> QED
    BY <1>2, <1>4, <2>2
<1>6. \A q \in Sessions : upto'[q] \in Nat /\ upto[q] <= upto'[q] /\ upto'[q] <= clock
  BY <1>1, <1>2, <1>5 DEF Timely, TimelyMarks
<1>7. upto' \in [Sessions -> Nat] /\ upto'[s] >= newest
  BY <1>1, <1>2, <1>5
<1>8. r \in Command
  BY <1>2, <1>4, Places
<1>9. proc' \in [Procs -> Command] /\ proc'[p] = r
  BY <1>1, <1>8, Moved
<1>10. {m.n : m \in fresh} \subseteq 1..sent
  BY Lines DEF Timely, TimelyLines, Inbox
<1>11. shown' \in [Sessions -> SUBSET Nat]
  <2>1. {m.n : m \in fresh} \subseteq Nat
    BY <1>10, Counts
  <2> HIDE DEF fresh
  <2> QED
    BY <1>1, <1>2, <2>1
<1>12. Typed'
  BY <1>1, <1>7, <1>9, <1>11, Zenon DEF Typed
<1>13. \A m : InLog(m)' => InLog(m)
  BY <1>1 DEF InLog
<1>14. TimelyLines' /\ \A q \in Procs \ {p} : TimelyAt(q)'
  <2> HIDE DEF r
  <2>1. r.at \notin {"truncate", "rewrite"}
    BY DEF r
  <2> QED
    BY <1>1, <1>6, <1>8, <1>13, <2>1, Elsewhere
<1>15. TimelyAt(p)'
  BY <1>4, <1>7, <1>9 DEF TimelyAt, At
<1>16. TimelyMarks'
  <2>1. ASSUME NEW q \in Sessions PROVE shown'[q] \cup late'[q] \subseteq 1..sent'
    <3>1. shown[q] \cup late[q] \subseteq 1..sent
      BY DEF Timely, TimelyMarks
    <3> HIDE DEF fresh
    <3> QED
      BY <1>1, <1>2, <1>10, <3>1
  <2>2. ASSUME NEW q \in Sessions PROVE cursor'[q] <= upto'[q]
    <3>1. cursor \in [Sessions -> Nat]
      BY Zenon DEF Typed
    <3>2. cursor[q] <= upto[q]
      BY DEF Timely, TimelyMarks
    <3>3. upto[q] <= upto'[q] /\ upto'[q] \in Nat
      BY <1>6
    <3>4. cursor[q] \in Nat /\ upto[q] \in Nat
      BY <1>2, <3>1
    <3> QED
      BY <1>1, <3>2, <3>3, <3>4
  <2> QED
    BY <1>1, <1>6, <2>1, <2>2 DEF Timely, TimelyMarks
<1> QED
  BY <1>12, <1>14, <1>15, <1>16 DEF Timely

LEMMA AdvanceStep ==
  ASSUME Typed, Timely, NEW p \in Procs, Advance(p)
  PROVE  Typed' /\ Timely'
<1>1. /\ At(p, "advance") /\ Goto(p, Idle)
      /\ cursor' = [cursor EXCEPT ![proc[p].me] = proc[p].newest]
      /\ UNCHANGED <<clock, msgs, sent, shown, upto, late, leases, held, mishaps>>
  BY DEF Advance, lockVars
<1>2. /\ proc[p].me \in Sessions /\ proc[p].newest \in Nat /\ proc[p].newest <= upto[proc[p].me]
      /\ cursor \in [Sessions -> Nat] /\ upto \in [Sessions -> Nat]
  <2>1. cursor \in [Sessions -> Nat] /\ upto \in [Sessions -> Nat]
    BY Zenon DEF Typed
  <2> QED
    BY <1>1, <2>1, Carries DEF Timely, TimelyAt
<1>3. proc' \in [Procs -> Command] /\ proc'[p] = Idle
  BY <1>1, Places, Moved
<1>4. cursor' \in [Sessions -> Nat] /\ \A s \in Sessions : cursor'[s] <= upto[s]
  BY <1>1, <1>2 DEF Timely, TimelyMarks
<1>5. Typed'
  BY <1>1, <1>3, <1>4, Zenon DEF Typed
<1>6. \A m : InLog(m)' => InLog(m)
  BY <1>1 DEF InLog
<1>7. TimelyLines' /\ \A q \in Procs \ {p} : TimelyAt(q)'
  BY <1>1, <1>2, <1>6, Places, Elsewhere DEF Idle
<1>8. TimelyAt(p)' /\ TimelyMarks'
  BY <1>1, <1>3, <1>4 DEF TimelyAt, At, Idle, Timely, TimelyMarks
<1> QED
  BY <1>5, <1>7, <1>8 DEF Timely

\* A line of locks.tsv, and the claim it stands for.
LEMMA LeaseStep ==
  ASSUME Typed, Timely, NEW p \in Procs, AppendLease(p) \/ Release(p)
  PROVE  Typed' /\ Timely'
<1>0. /\ leases \in Seq(Lease) /\ held \in [Sessions -> [Scopes -> Int]]
      /\ mishaps \subseteq Mishaps /\ proc \in [Procs -> Command] /\ clock \in Nat
      /\ upto \in [Sessions -> Nat] /\ TTL \in Nat
  <2>1. /\ leases \in Seq(Lease) /\ held \in [Sessions -> [Scopes -> Int]]
        /\ mishaps \subseteq Mishaps /\ proc \in [Procs -> Command] /\ upto \in [Sessions -> Nat]
    BY Zenon DEF Typed, Mishaps
  <2> QED
    BY <2>1, Counts
<1>1. PICK s \in Sessions, x \in Scopes, b \in {Released} \cup 1..clock :
        /\ leases' = Append(leases, [scope |-> x, owner |-> s, beat |-> b])
        /\ held' = [held EXCEPT ![s][x] = b]
        /\ UNCHANGED <<clock, messageVars>> /\ mishaps' \subseteq Mishaps
        /\ proc' = proc \/ Goto(p, Idle)
  <2>1. CASE AppendLease(p)
    <3>1. proc[p].me \in Sessions /\ proc[p].scope \in Scopes /\ proc[p].now \in 1..clock
      BY <2>1, Carries DEF AppendLease, Timely, TimelyAt
    <3> QED
      BY <1>0, <2>1, <3>1 DEF AppendLease
  <2>2. CASE Release(p)
    BY <1>0, <2>2 DEF Release, Mishaps
  <2> QED
    BY <2>1, <2>2
<1>2. b \in Int
  BY <1>0 DEF Released
<1>3. leases' \in Seq(Lease)
  BY <1>0, <1>1, <1>2 DEF Lease
<1>4. held' \in [Sessions -> [Scopes -> Int]]
  BY <1>0, <1>1, <1>2
<1>5. proc' \in [Procs -> Command] /\ \A q \in Procs : proc'[q] = proc[q] \/ proc'[q] = Idle
  BY <1>0, <1>1, Places, Moved
<1>6. Typed'
  BY <1>1, <1>3, <1>4, <1>5, Zenon DEF Typed, Mishaps, messageVars
<1>7. \A m : (InLog(m)' => InLog(m)) /\ (Carried(m)' => Carried(m))
  BY <1>1, <1>5 DEF InLog, Carried, Compacting, Kept, messageVars, Idle
<1>8. TimelyLines'
  BY <1>1, <1>7 DEF Timely, TimelyLines, messageVars
<1>9. \A q \in Sessions, y \in Scopes : held'[q][y] \in {Released} \cup 1..clock
  <2>1. \A q \in Sessions, y \in Scopes : held[q][y] \in {Released} \cup 1..clock
    BY DEF Timely, TimelyMarks
  <2> QED
    BY <1>0, <1>1, <2>1
<1>10. TimelyMarks'
  BY <1>1, <1>9 DEF Timely, TimelyMarks, messageVars, Released
<1>11. \A q \in Procs : TimelyAt(q)'
  BY <1>1, <1>5 DEF Timely, TimelyAt, At, messageVars, Idle
<1> QED
  BY <1>6, <1>8, <1>10, <1>11 DEF Timely

LEMMA StepTyped ==
  ASSUME Typed, Timely, [Next]_vars
  PROVE  Typed' /\ Timely'
<1>1. CASE Tick
  BY <1>1, TickStep
<1>2. ASSUME NEW p \in Procs, Message(p) \/ Lock(p) \/ Kill(p)
      PROVE  Typed' /\ Timely'
  BY <1>2, QuietSteps, AppendMessageStep, CompactStep, ReadInboxStep, AdvanceStep, LeaseStep
     DEF Message, Lock
<1>3. CASE UNCHANGED vars
  <2> USE <1>3 DEF vars
  <2>1. Typed'
    BY Zenon DEF Typed
  <2>2. \A m : (InLog(m)' <=> InLog(m)) /\ (Carried(m)' <=> Carried(m))
    BY DEF InLog, Carried, Compacting, Kept
  <2>3. TimelyLines'
    BY <2>2 DEF Timely, TimelyLines
  <2>4. TimelyMarks' /\ \A p \in Procs : TimelyAt(p)'
    BY DEF Timely, TimelyMarks, TimelyAt, At, Released
  <2> QED
    BY <2>1, <2>3, <2>4 DEF Timely
<1> QED
  BY <1>1, <1>2, <1>3 DEF Next, Finished

-----------------------------------------------------------------------------
\* No more messages than MaxSent are sent: a send counts those still to append.
Appending == {q \in Procs : At(q, "append")}
Counted == sent + Cardinality(Appending) <= MaxSent

LEMMA InitCounted == Init => Counted
<1> SUFFICES ASSUME Init PROVE Counted
  OBVIOUS
<1>1. Appending = {} /\ sent = 0
  BY DEF Init, Idle, Appending, At
<1>2. Cardinality(Appending) = 0
  BY <1>1, FS_EmptySet
<1> QED
  BY <1>1, <1>2, WireAssumption DEF Counted

LEMMA StepCounted ==
  ASSUME Typed, Counted, [Next]_vars
  PROVE  Counted'
<1>1. sent \in Nat /\ MaxSent \in Nat /\ IsFiniteSet(Appending) /\ Cardinality(Appending) \in Nat
  <2>1. IsFiniteSet(Appending)
    BY WireAssumption, FS_Subset DEF Appending
  <2> QED
    BY <2>1, Counts, WireAssumption, FS_CardinalityType
<1>2. ASSUME sent' = sent, Appending' \subseteq Appending PROVE Counted'
  <2>1. Cardinality(Appending') <= Cardinality(Appending) /\ Cardinality(Appending') \in Nat
    BY <1>1, <1>2, FS_Subset, FS_CardinalityType
  <2> QED
    BY <1>1, <1>2, <2>1 DEF Counted
<1>3. ASSUME NEW p \in Procs, NEW r, Goto(p, r)
      PROVE  proc'[p] = r /\ \A q \in Procs \ {p} : proc'[q] = proc[q]
  BY <1>3 DEF Goto, Typed
<1>4. ASSUME NEW p \in Procs, NEW r, Goto(p, r), r.at # "append", sent' = sent PROVE Counted'
  <2>1. Appending' \subseteq Appending
    BY <1>3, <1>4 DEF Appending, At
  <2> QED
    BY <1>2, <1>4, <2>1
<1>5. ASSUME NEW p \in Procs, Send(p) PROVE Counted'
  <2>1. PICK r : /\ sent + Cardinality(Appending) < MaxSent /\ sent' = sent /\ Goto(p, r)
                 /\ At(p, "idle")
    BY <1>5 DEF Send, Appending, messageVars
  <2>2. Appending' \subseteq Appending \cup {p} /\ p \notin Appending
    BY <1>3, <2>1 DEF Appending, At
  <2>3. /\ IsFiniteSet(Appending \cup {p})
        /\ Cardinality(Appending \cup {p}) = Cardinality(Appending) + 1
    BY <1>1, <2>2, FS_AddElement
  <2>4. /\ Cardinality(Appending') <= Cardinality(Appending \cup {p})
        /\ Cardinality(Appending') \in Nat
    BY <2>2, <2>3, FS_Subset, FS_CardinalityType
  <2> QED
    BY <1>1, <2>1, <2>3, <2>4 DEF Counted
<1>6. ASSUME NEW p \in Procs, AppendMessage(p) PROVE Counted'
  <2>1. sent' = sent + 1 /\ Goto(p, [at |-> "readback"]) /\ p \in Appending
    BY <1>6 DEF AppendMessage, Appending
  <2>2. Appending' \subseteq Appending \ {p}
    BY <1>3, <2>1 DEF Appending, At
  <2>3. /\ IsFiniteSet(Appending \ {p})
        /\ Cardinality(Appending \ {p}) = Cardinality(Appending) - 1
    BY <1>1, <2>1, FS_RemoveElement
  <2>4. /\ Cardinality(Appending') <= Cardinality(Appending \ {p})
        /\ Cardinality(Appending') \in Nat
    BY <2>2, <2>3, FS_Subset, FS_CardinalityType
  <2> QED
    BY <1>1, <2>1, <2>3, <2>4 DEF Counted
<1>7. ASSUME NEW p \in Procs,
             \/ ReadBack(p) \/ Compact(p) \/ Check(p) \/ ReadInbox(p) \/ Advance(p)
             \/ Claim(p) \/ ReadLeases(p) \/ AppendLease(p) \/ Kill(p)
      PROVE  Counted'
  <2> USE DEF messageVars
  <2>1. sent' = sent
    BY <1>7 DEF ReadBack, Compact, Check, ReadInbox, Advance, Claim, ReadLeases, AppendLease, Kill
  <2>2. \E r : r.at # "append" /\ Goto(p, r)
    <3>1. CASE ReadBack(p)
      BY <3>1 DEF ReadBack, Idle
    <3>2. CASE Compact(p)
      BY <3>2, Onward DEF Compact, Idle
    <3>3. CASE Check(p)
      <4>1. PICK s \in Sessions : Goto(p, [at |-> "inbox", me |-> s, since |-> cursor[s]])
        BY <3>3, Zenon DEF Check
      <4> QED
        BY <4>1
    <3>4. CASE ReadInbox(p)
      <4>1. PICK s, n : Goto(p, [at |-> "advance", me |-> s, newest |-> n])
        BY <3>4 DEF ReadInbox
      <4> QED
        BY <4>1
    <3>5. CASE Claim(p)
      <4>1. PICK s \in Sessions, x \in Scopes :
              Goto(p, [at |-> "claim", me |-> s, now |-> clock, scope |-> x])
        BY <3>5, Zenon DEF Claim
      <4> QED
        BY <4>1
    <3>6. CASE ReadLeases(p)
      <4> DEFINE r == [at |-> "lease", me |-> proc[p].me, now |-> proc[p].now,
                       scope |-> proc[p].scope]
      <4>1. Goto(p, r) \/ Goto(p, Idle)
        BY <3>6, Onward DEF ReadLeases
      <4> QED
        BY <4>1 DEF Idle
    <3>7. CASE Advance(p) \/ AppendLease(p) \/ Kill(p)
      BY <3>7 DEF Advance, AppendLease, Kill, Idle
    <3> QED
      BY <1>7, <3>1, <3>2, <3>3, <3>4, <3>5, <3>6, <3>7
  <2> QED
    BY <1>4, <2>1, <2>2
<1>8. ASSUME NEW p \in Procs, Release(p) PROVE Counted'
  BY <1>2, <1>8 DEF Release, messageVars, Appending, At
<1>9. CASE Tick \/ UNCHANGED vars
  BY <1>2, <1>9 DEF Tick, vars, messageVars, Appending, At
<1> QED
  BY <1>5, <1>6, <1>7, <1>8, <1>9 DEF Next, Finished, Message, Lock

LEMMA TypesHold == Typed /\ Timely /\ Counted => TypeOK
<1> SUFFICES ASSUME Typed, Timely, Counted PROVE TypeOK
  OBVIOUS
<1>1. /\ cursor \in [Sessions -> Nat] /\ upto \in [Sessions -> Nat]
      /\ shown \in [Sessions -> SUBSET Nat] /\ late \in [Sessions -> SUBSET Nat]
      /\ held \in [Sessions -> [Scopes -> Int]] /\ clock \in 1..MaxClock
      /\ mishaps \subseteq Mishaps
  BY Zenon DEF Typed, Mishaps
<1>2. sent \in 0..MaxSent
  <2>1. IsFiniteSet(Appending)
    BY WireAssumption, FS_Subset DEF Appending
  <2>2. Cardinality(Appending) \in Nat
    BY <2>1, FS_CardinalityType
  <2> QED
    BY <2>2, Counts, WireAssumption DEF Counted
<1>3. \A i \in DOMAIN msgs : msgs[i].n \in 1..sent /\ msgs[i].ts \in 1..clock
  BY Counts DEF Timely, TimelyLines, InLog
<1>4. cursor \in [Sessions -> 0..clock] /\ upto \in [Sessions -> 0..clock]
  <2>1. clock \in Nat
    BY Counts
  <2>2. \A s \in Sessions : upto[s] \in 0..clock /\ cursor[s] \in 0..clock
    BY <1>1, <2>1 DEF Timely, TimelyMarks
  <2> QED
    BY <1>1, <2>2
<1>5. shown \in [Sessions -> SUBSET (1..sent)] /\ late \in [Sessions -> SUBSET (1..sent)]
  BY <1>1 DEF Timely, TimelyMarks
<1>6. held \in [Sessions -> [Scopes -> {Released} \cup 1..clock]]
  <2>1. \A s \in Sessions, x \in Scopes : held[s][x] \in {Released} \cup 1..clock
    BY DEF Timely, TimelyMarks
  <2> QED
    BY <1>1, <2>1
<1> QED
  BY <1>1, <1>2, <1>3, <1>4, <1>5, <1>6 DEF TypeOK, Mishaps

-----------------------------------------------------------------------------
\* msg.tsv: its numbers run up to the last one sent, as do those a compaction
\* carries; the log is empty or ends in what any compaction carries.
Raced == "append in compaction" \in mishaps
Cut == "killed in compaction" \in mishaps

Contiguous == \A i \in 1..Len(msgs) : msgs[i].n = sent - Len(msgs) + i

EndsIn(lines) ==
  msgs = <<>> \/ /\ Len(msgs) >= Keep
                 /\ \A i \in 1..Keep : msgs[Len(msgs) - Keep + i] = lines[i]

KeptAt(p) ==
  Compacting(p) => /\ Len(Kept(p)) = Keep /\ \A i \in 1..Keep : Kept(p)[i].n = sent - Keep + i
                   /\ EndsIn(Kept(p))
                   /\ \A q \in Procs : Compacting(q) => Kept(q) = Kept(p)

\* What lies no later than what a check has found was shown or came too late.
Seen ==
  \A s \in Sessions : \A m :
    (InLog(m) \/ Carried(m)) /\ m.from # s /\ m.to \in {s, "*"} /\ m.ts <= upto[s]
      => m.n \in shown[s] \cup late[s]

LogKept == Contiguous /\ (\A p \in Procs : KeptAt(p)) /\ Seen

LongEnough == Len(msgs) >= Keep \/ Len(msgs) >= sent
Long == LongEnough \/ (msgs = <<>> /\ \E p \in Procs : At(p, "rewrite"))

LogInv == ~Raced => LogKept /\ (~Cut => Long)

\* A step that leaves the log alone.
LEMMA Untouched ==
  ASSUME Typed, LogInv, UNCHANGED <<msgs, sent, shown, upto, late>>, mishaps \subseteq mishaps',
         \A q \in Procs : Compacting(q)' => Compacting(q) /\ Kept(q)' = Kept(q),
         \A q \in Procs : At(q, "rewrite") => At(q, "rewrite")' \/ Cut'
  PROVE  LogInv'
<1> SUFFICES ASSUME ~Raced' PROVE LogKept' /\ (~Cut' => Long')
  BY DEF LogInv
<1>1. ~Raced /\ (~Cut' => ~Cut) /\ LogKept /\ (~Cut => Long)
  BY DEF Raced, Cut, LogInv
<1>2. Contiguous'
  BY <1>1 DEF LogKept, Contiguous
<1>3. ASSUME NEW p \in Procs PROVE KeptAt(p)'
  <2> SUFFICES ASSUME Compacting(p)'
               PROVE  /\ Len(Kept(p)') = Keep /\ \A i \in 1..Keep : Kept(p)'[i].n = sent - Keep + i
                      /\ EndsIn(Kept(p))'
                      /\ \A q \in Procs : Compacting(q)' => Kept(q)' = Kept(p)'
    BY DEF KeptAt
  <2>1. KeptAt(p) /\ Compacting(p) /\ Kept(p)' = Kept(p)
    BY <1>1 DEF LogKept
  <2>2. EndsIn(Kept(p))'
    BY <2>1 DEF KeptAt, EndsIn
  <2> QED
    BY <2>1, <2>2 DEF KeptAt
<1>4. Seen'
  <2>1. \A m : (InLog(m)' => InLog(m)) /\ (Carried(m)' => Carried(m))
    BY DEF InLog, Carried
  <2> QED
    BY <1>1, <2>1 DEF LogKept, Seen
<1>5. ~Cut' => Long'
  BY <1>1 DEF Long, LongEnough
<1> QED
  BY <1>2, <1>3, <1>4, <1>5 DEF LogKept

LEMMA LogInit == Init => LogInv
<1> SUFFICES ASSUME Init PROVE LogInv
  OBVIOUS
<1>1. msgs = <<>> /\ sent = 0 /\ Len(msgs) = 0 /\ \A p \in Procs : ~Compacting(p)
  BY DEF Init, Idle, Compacting
<1>2. \A m : ~InLog(m) /\ ~Carried(m)
  BY <1>1 DEF InLog, Carried
<1> QED
  BY <1>1, <1>2 DEF LogInv, LogKept, Contiguous, KeptAt, Seen, Long, LongEnough

LEMMA LogAppend ==
  ASSUME Typed, Timely, LogInv, NEW p \in Procs, AppendMessage(p)
  PROVE  LogInv'
<1> SUFFICES ASSUME ~Raced' PROVE LogKept' /\ (~Cut' => Long')
  BY DEF LogInv
<1> DEFINE new == [n |-> sent + 1, from |-> proc[p].me, to |-> proc[p].to, ts |-> proc[p].now]
<1>1. /\ At(p, "append") /\ sent' = sent + 1 /\ msgs' = Append(msgs, new)
      /\ late' = [s \in Sessions |-> IF proc[p].now <= upto[s] THEN late[s] \cup {sent'} ELSE late[s]]
      /\ Goto(p, [at |-> "readback"]) /\ UNCHANGED <<shown, upto>>
  BY DEF AppendMessage
<1>2. mishaps' = mishaps /\ \A q \in Procs : ~Compacting(q)
  BY DEF AppendMessage, Raced
<1>3. ~Raced /\ LogKept /\ (~Cut' => Long)
  BY <1>2 DEF LogInv, Raced, Cut
<1>4. \A q \in Procs : ~Compacting(q)'
  BY <1>1, <1>2, Moved, Places DEF Compacting
<1>5. msgs \in Seq(Msg) /\ sent \in Nat /\ Len(msgs) \in Nat /\ Keep \in Nat /\ new \in Msg
  <2>1. msgs \in Seq(Msg)
    BY Zenon DEF Typed
  <2> QED
    BY <2>1, <1>1, Carries, Counts, WireAssumption DEF Msg
<1>6. /\ Len(msgs') = Len(msgs) + 1 /\ msgs'[Len(msgs) + 1] = new
      /\ \A i \in 1..Len(msgs) : msgs'[i] = msgs[i]
  BY <1>1, <1>5
<1>7. Contiguous'
  <2>1. \A i \in 1..Len(msgs) : msgs[i].n = sent - Len(msgs) + i
    BY <1>3 DEF LogKept, Contiguous
  <2>2. ASSUME NEW i \in 1..Len(msgs) + 1 PROVE msgs'[i].n = sent + 1 - (Len(msgs) + 1) + i
    <3>1. CASE i \in 1..Len(msgs)
      BY <1>5, <1>6, <2>1, <3>1
    <3>2. CASE i = Len(msgs) + 1
      BY <1>5, <1>6, <3>2
    <3> QED
      BY <1>5, <3>1, <3>2
  <2>3. \A i \in 1..Len(msgs') : msgs'[i].n = sent' - Len(msgs') + i
    <3>1. Len(msgs') = Len(msgs) + 1 /\ sent' = sent + 1
      BY <1>1, <1>6
    <3> QED
      BY <1>5, <2>2, <3>1
  <2> QED
    BY <2>3 DEF Contiguous
<1>8. Seen'
  <2>1. ASSUME NEW m, InLog(m)' PROVE InLog(m) \/ m = new
    <3>1. PICK i \in 1..Len(msgs') : m = msgs'[i]
      BY <2>1 DEF InLog
    <3>2. i \in 1..Len(msgs) \/ i = Len(msgs) + 1
      BY <1>5, <1>6
    <3> QED
      BY <1>6, <3>1, <3>2 DEF InLog
  <2>2. \A m : ~Carried(m)'
    BY <1>4 DEF Carried
  <2>3. ASSUME NEW s \in Sessions, NEW m, InLog(m)', m.from # s, m.to \in {s, "*"}, m.ts <= upto[s]
        PROVE  m.n \in shown[s] \cup late'[s]
    <3>1. CASE InLog(m)
      <4>1. m.n \in shown[s] \cup late[s]
        BY <1>3, <2>3, <3>1 DEF LogKept, Seen
      <4> QED
        BY <1>1, <4>1
    <3>2. CASE m = new
      BY <1>1, <2>3, <3>2
    <3> QED
      BY <2>1, <2>3, <3>1, <3>2
  <2> QED
    BY <1>1, <2>2, <2>3 DEF Seen
<1>9. ~Cut' => Long'
  <2>1. \A q \in Procs : ~At(q, "rewrite")
    BY <1>2 DEF Compacting, At
  <2> QED
    BY <1>1, <1>3, <1>5, <1>6, <2>1 DEF Long, LongEnough
<1> QED
  BY <1>4, <1>7, <1>8, <1>9 DEF LogKept, KeptAt

LEMMA LogReadBack ==
  ASSUME Typed, Timely, LogInv, NEW p \in Procs, ReadBack(p)
  PROVE  LogInv'
<1>1. UNCHANGED <<msgs, sent, shown, upto, late, mishaps>> /\ At(p, "readback")
  BY DEF ReadBack, messageVars
<1>2. CASE ~(Len(msgs) > MaxLog)
  <2>1. Goto(p, Idle)
    BY <1>2 DEF ReadBack
  <2>2. proc'[p] = Idle /\ \A q \in Procs \ {p} : proc'[q] = proc[q]
    BY <2>1, Moved, Places
  <2> QED
    BY <1>1, <2>2, Untouched DEF Compacting, At, Idle, Kept
<1>3. CASE Len(msgs) > MaxLog
  <2> DEFINE r == [at |-> "truncate", kept |-> LastLines(msgs)]
  <2> SUFFICES ASSUME ~Raced' PROVE LogKept' /\ (~Cut' => Long')
    BY DEF LogInv
  <2>0. LogKept /\ (~Cut' => Long)
    BY <1>1 DEF LogInv, Raced, Cut
  <2>1. msgs \in Seq(Msg)
    BY Zenon DEF Typed
  <2>2. /\ LastLines(msgs) \in Seq(Msg) /\ Len(LastLines(msgs)) = Keep
        /\ \A i \in 1..Keep : LastLines(msgs)[i] = msgs[Len(msgs) - Keep + i]
    BY <1>3, <2>1, LastAreLines
  <2>3. Goto(p, r) /\ r \in Command
    BY <1>3, <2>2, Places DEF ReadBack
  <2>4. proc'[p] = r /\ \A q \in Procs \ {p} : proc'[q] = proc[q]
    BY <2>3, Moved
  <2>5. /\ Keep \in Nat /\ Keep >= 1 /\ Len(msgs) \in Nat /\ Len(msgs) > Keep /\ sent \in Nat
        /\ \A i \in 1..Keep : Len(msgs) - Keep + i \in 1..Len(msgs)
    BY <1>3, WireAssumption, Counts
  <2>6. msgs # <<>>
    BY <2>5
  <2>7. ASSUME NEW q \in Procs, Compacting(q) PROVE Kept(q) = LastLines(msgs)
    <3>1. Len(Kept(q)) = Keep /\ \A i \in 1..Keep : msgs[Len(msgs) - Keep + i] = Kept(q)[i]
      BY <2>0, <2>6, <2>7 DEF LogKept, KeptAt, EndsIn
    <3>2. Kept(q) \in Seq(Msg)
      BY <2>7, Carries
    <3>3. \A i \in 1..Keep : Kept(q)[i] = LastLines(msgs)[i]
      BY <2>2, <3>1
    <3> QED
      BY <2>2, <3>1, <3>2, <3>3, SeqEqual
  <2>8. \A q \in Procs : Compacting(q)' => Kept(q)' = LastLines(msgs)
    BY <2>4, <2>7 DEF Compacting, Kept
  <2>9. Contiguous'
    BY <1>1, <2>0 DEF LogKept, Contiguous
  <2>10. ASSUME NEW i \in 1..Keep PROVE LastLines(msgs)[i].n = sent - Keep + i
    <3> DEFINE j == Len(msgs) - Keep + i
    <3>1. j \in 1..Len(msgs) /\ LastLines(msgs)[i] = msgs[j]
      BY <2>2, <2>5
    <3>2. msgs[j].n = sent - Len(msgs) + j
      BY <2>0, <3>1 DEF LogKept, Contiguous
    <3>3. sent - Len(msgs) + j = sent - Keep + i
      BY <2>5
    <3> QED
      BY <3>1, <3>2, <3>3, Zenon
  <2>11. ASSUME NEW q \in Procs PROVE KeptAt(q)'
    <3> SUFFICES ASSUME Compacting(q)'
                 PROVE  /\ Len(Kept(q)') = Keep /\ \A i \in 1..Keep : Kept(q)'[i].n = sent' - Keep + i
                        /\ EndsIn(Kept(q))'
                        /\ \A u \in Procs : Compacting(u)' => Kept(u)' = Kept(q)'
      BY DEF KeptAt
    <3>1. EndsIn(Kept(q))'
      BY <1>1, <2>2, <2>5, <2>8 DEF EndsIn
    <3> QED
      BY <1>1, <2>2, <2>8, <2>10, <3>1
  <2>12. Seen'
    <3>1. \A m : Carried(m)' => InLog(m)
      <4>1. ASSUME NEW i \in 1..Len(LastLines(msgs)) PROVE InLog(LastLines(msgs)[i])
        BY <2>2, <2>5 DEF InLog
      <4> QED
        BY <2>8, <4>1 DEF Carried
    <3>2. \A m : InLog(m)' => InLog(m)
      BY <1>1 DEF InLog
    <3> QED
      BY <1>1, <2>0, <3>1, <3>2 DEF LogKept, Seen
  <2>13. Long'
    BY <1>1, <2>5 DEF Long, LongEnough
  <2> QED
    BY <2>9, <2>11, <2>12, <2>13 DEF LogKept
<1> QED
  BY <1>2, <1>3

LEMMA LogCompact ==
  ASSUME Typed, Timely, LogInv, NEW p \in Procs, Compact(p)
  PROVE  LogInv'
<1> SUFFICES ASSUME ~Raced' PROVE LogKept' /\ (~Cut' => Long')
  BY DEF LogInv
<1>1. UNCHANGED <<sent, shown, upto, late, mishaps>>
  BY DEF Compact
<1>2. LogKept /\ (~Cut' => Long)
  BY <1>1 DEF LogInv, Raced, Cut
<1>3. Compacting(p) /\ Kept(p) \in Seq(Msg)
  <2>1. Compacting(p)
    BY DEF Compact, Compacting, At
  <2> QED
    BY <2>1, Carries
<1>4. /\ Len(Kept(p)) = Keep /\ \A i \in 1..Keep : Kept(p)[i].n = sent - Keep + i
      /\ \A q \in Procs : Compacting(q) => Kept(q) = Kept(p)
  BY <1>2, <1>3 DEF LogKept, KeptAt
<1>5. /\ (At(p, "truncate") /\ msgs' = <<>> /\ Goto(p, [at |-> "rewrite", kept |-> Kept(p)]))
         \/ (msgs' = Kept(p) /\ Goto(p, Idle))
  BY Onward DEF Compact, Kept
<1>6. /\ \A q \in Procs : Compacting(q)' => Compacting(q) /\ Kept(q)' = Kept(q)
      /\ msgs' = <<>> => At(p, "rewrite")' \/ msgs' = Kept(p)
  <2>1. [at |-> "rewrite", kept |-> Kept(p)] \in Command
    BY <1>3, Places
  <2>2. CASE At(p, "truncate") /\ msgs' = <<>> /\ Goto(p, [at |-> "rewrite", kept |-> Kept(p)])
    <3>1. /\ proc'[p] = [at |-> "rewrite", kept |-> Kept(p)]
          /\ \A q \in Procs \ {p} : proc'[q] = proc[q]
      BY <2>1, <2>2, Moved
    <3>2. At(p, "rewrite")' /\ Kept(p)' = Kept(p)
      BY <3>1 DEF At, Kept
    <3> QED
      BY <1>3, <3>1, <3>2 DEF Compacting, Kept
  <2>3. CASE msgs' = Kept(p) /\ Goto(p, Idle)
    <3>1. proc'[p] = Idle /\ \A q \in Procs \ {p} : proc'[q] = proc[q]
      BY <2>3, Places, Moved
    <3> QED
      BY <2>3, <3>1 DEF Compacting, Kept, Idle
  <2> QED
    BY <1>5, <2>2, <2>3
<1>7. Keep \in Nat /\ Keep >= 1 /\ sent \in Nat
  BY WireAssumption, Counts
<1>8. msgs' = <<>> \/ msgs' = Kept(p)
  BY <1>5
<1>9. Contiguous'
  <2>1. CASE msgs' = <<>>
    <3>1. Len(msgs') = 0
      BY <2>1
    <3> QED
      BY <3>1 DEF Contiguous
  <2>2. CASE msgs' = Kept(p)
    BY <1>1, <1>4, <2>2 DEF Contiguous
  <2> QED
    BY <1>8, <2>1, <2>2
<1>10. \/ msgs' = <<>>
       \/ Len(msgs') >= Keep /\ \A i \in 1..Keep : msgs'[Len(msgs') - Keep + i] = Kept(p)[i]
  <2>1. \A i \in 1..Keep : Keep - Keep + i = i
    BY <1>7
  <2>2. CASE msgs' = Kept(p)
    <3>1. Len(msgs') = Keep /\ Keep >= Keep
      BY <1>4, <1>7, <2>2
    <3>2. \A i \in 1..Keep : msgs'[Len(msgs') - Keep + i] = msgs'[i]
      BY <2>1, <3>1
    <3> QED
      BY <2>2, <3>1, <3>2
  <2> QED
    BY <1>8, <2>2
<1>11. ASSUME NEW q \in Procs PROVE KeptAt(q)'
  <2> SUFFICES ASSUME Compacting(q)'
               PROVE  /\ Len(Kept(q)') = Keep /\ \A i \in 1..Keep : Kept(q)'[i].n = sent' - Keep + i
                      /\ EndsIn(Kept(q))'
                      /\ \A u \in Procs : Compacting(u)' => Kept(u)' = Kept(q)'
    BY DEF KeptAt
  <2>1. \A u \in Procs : Compacting(u)' => Kept(u)' = Kept(p)
    BY <1>4, <1>6
  <2>2. Kept(q)' = Kept(p)
    BY <2>1
  <2>3. EndsIn(Kept(q))'
    BY <1>10, <2>2 DEF EndsIn
  <2> QED
    BY <1>1, <1>4, <2>1, <2>2, <2>3
<1>12. Seen'
  <2>1. \A m : InLog(m)' => Carried(m)
    <3>1. CASE msgs' = <<>>
      <4>1. Len(msgs') = 0
        BY <3>1
      <4> QED
        BY <4>1 DEF InLog
    <3>2. CASE msgs' = Kept(p)
      BY <1>3, <3>2 DEF InLog, Carried
    <3> QED
      BY <1>8, <3>1, <3>2
  <2>2. \A m : Carried(m)' => Carried(m)
    BY <1>6 DEF Carried
  <2> QED
    BY <1>1, <1>2, <2>1, <2>2 DEF LogKept, Seen
<1>13. Long'
  <2>1. CASE msgs' = Kept(p)
    BY <1>4, <1>7, <2>1 DEF Long, LongEnough
  <2>2. CASE msgs' = <<>> /\ At(p, "rewrite")'
    BY <2>2 DEF Long
  <2> QED
    BY <1>6, <1>8, <2>1, <2>2
<1> QED
  BY <1>9, <1>11, <1>12, <1>13 DEF LogKept

LEMMA LogRead ==
  ASSUME Typed, Timely, LogInv, NEW p \in Procs, ReadInbox(p)
  PROVE  LogInv'
<1> SUFFICES ASSUME ~Raced' PROVE LogKept' /\ (~Cut' => Long')
  BY DEF LogInv
<1> DEFINE s == proc[p].me
           since == proc[p].since
           fresh == Inbox(msgs, s, since)
           newest == Max({m.ts : m \in fresh} \cup {since})
           r == [at |-> "advance", me |-> s, newest |-> newest]
<1>1. /\ At(p, "inbox") /\ Goto(p, r)
      /\ shown' = [shown EXCEPT ![s] = @ \cup {m.n : m \in fresh}]
      /\ upto' = [upto EXCEPT ![s] = Max({@, newest})]
      /\ UNCHANGED <<msgs, sent, late, mishaps>>
  BY DEF ReadInbox
<1>2. LogKept /\ (~Cut' => Long)
  BY <1>1 DEF LogInv, Raced, Cut
<1>3. s \in Sessions /\ since \in 0..clock /\ clock \in Nat /\ since <= upto[s]
      /\ upto \in [Sessions -> Nat] /\ shown \in [Sessions -> SUBSET Nat] /\ upto[s] <= clock
  <2>1. upto \in [Sessions -> Nat] /\ shown \in [Sessions -> SUBSET Nat]
    BY Zenon DEF Typed
  <2>2. s \in Sessions /\ since \in Nat /\ since <= upto[s]
    BY <1>1, Carries DEF Timely, TimelyAt
  <2>3. upto[s] <= clock
    BY <2>2 DEF Timely, TimelyMarks
  <2> QED
    BY <2>1, <2>2, <2>3, Counts
<1>4. newest \in since..clock
  BY <1>3, Newest
<1>5. newest = since \/ \E m : InLog(m)
  <2>1. CASE \A m : ~InLog(m)
    <3>1. fresh = {}
      BY <2>1, Lines DEF Inbox
    <3>2. {m.ts : m \in fresh} \cup {since} = {since}
      BY <3>1
    <3>3. Max({since}) \in {since}
      BY <1>3, Bounded
    <3> QED
      BY <3>2, <3>3, Zenon
  <2>2. CASE \E m : InLog(m)
    BY <2>2
  <2> QED
    BY <2>1, <2>2
<1>7. r \in Command
  <2>1. newest \in Nat
    BY <1>3, <1>4
  <2> HIDE DEF newest
  <2> QED
    BY <1>3, <2>1, Places
<1>8. proc'[p] = r /\ \A q \in Procs \ {p} : proc'[q] = proc[q]
  BY <1>1, <1>7, Moved
<1>9. \A q \in Procs : Compacting(q)' => Compacting(q) /\ Kept(q)' = Kept(q)
  BY <1>8 DEF Compacting, Kept
<1>10. \A m : (InLog(m)' => InLog(m)) /\ (Carried(m)' => Carried(m))
  BY <1>1, <1>9 DEF InLog, Carried
<1>11. ASSUME NEW m, Carried(m) PROVE InLog(m) \/ newest = since
  <2>0. PICK q \in Procs : Compacting(q) /\ \E i \in 1..Len(Kept(q)) : m = Kept(q)[i]
    BY <1>11 DEF Carried
  <2>1. PICK i \in 1..Len(Kept(q)) : m = Kept(q)[i]
    BY <2>0
  <2>2. Len(Kept(q)) = Keep /\ EndsIn(Kept(q))
    BY <1>2, <2>0 DEF LogKept, KeptAt
  <2>3. CASE msgs = <<>>
    <3>1. Len(msgs) = 0
      BY <2>3
    <3> QED
      BY <1>5, <3>1 DEF InLog
  <2>4. CASE msgs # <<>>
    <3>1. Len(msgs) - Keep + i \in 1..Len(msgs) /\ msgs[Len(msgs) - Keep + i] = m
      BY <2>1, <2>2, <2>4, Counts, WireAssumption DEF EndsIn
    <3> QED
      BY <3>1 DEF InLog
  <2> QED
    BY <2>3, <2>4
<1>12. /\ Max({upto[s], newest}) \in {upto[s], newest}
       /\ newest <= upto[s] => Max({upto[s], newest}) = upto[s]
  <2> DEFINE S == {upto[s], newest}
  <2> HIDE DEF newest
  <2>1. S \in SUBSET (0..clock) /\ S # {}
    BY <1>3, <1>4
  <2>2. Max(S) \in S /\ \A x \in S : x <= Max(S)
    <3> HIDE DEF S
    <3> QED
      BY <1>3, <2>1, Bounded
  <2> QED
    BY <1>3, <1>4, <2>2
<1>13. Seen'
  <2> SUFFICES ASSUME NEW q \in Sessions, NEW m, InLog(m) \/ Carried(m),
                      m.from # q, m.to \in {q, "*"}, m.ts <= upto'[q]
               PROVE  m.n \in shown'[q] \cup late[q]
    BY <1>1, <1>10 DEF Seen
  <2>0. shown[q] \subseteq shown'[q]
    <3> HIDE DEF fresh
    <3> QED
      BY <1>1, <1>3
  <2>1. CASE m.ts <= upto[q]
    <3>1. m.n \in shown[q] \cup late[q]
      BY <1>2, <2>1 DEF LogKept, Seen
    <3> QED
      BY <2>0, <3>1
  <2>2. CASE ~(m.ts <= upto[q])
    <3>1. q = s /\ ~(upto'[s] = upto[s])
      BY <1>1, <1>3, <2>2
    <3>2. upto'[s] = newest /\ ~(newest <= upto[s])
      BY <1>1, <1>3, <1>12, <3>1
    <3>3. newest # since
      BY <1>3, <3>2
    <3>4. InLog(m)
      BY <1>11, <3>3
    <3>5. m.ts \in 1..clock
      BY <3>4 DEF Timely, TimelyLines
    <3>6. m.ts > since
      BY <1>3, <2>2, <3>1, <3>5
    <3>7. m \in fresh
      BY <3>1, <3>4, <3>6, Lines DEF Inbox
    <3>8. shown'[s] = shown[s] \cup {x.n : x \in fresh}
      <4> HIDE DEF fresh
      <4> QED
        BY <1>1, <1>3
    <3> HIDE DEF fresh
    <3> QED
      BY <3>1, <3>7, <3>8
  <2> QED
    BY <2>1, <2>2
<1>14. Contiguous' /\ \A q \in Procs : KeptAt(q)'
  <2>1. Contiguous'
    BY <1>1, <1>2 DEF LogKept, Contiguous
  <2>2. ASSUME NEW q \in Procs, Compacting(q)'
        PROVE  /\ Len(Kept(q)') = Keep /\ \A i \in 1..Keep : Kept(q)'[i].n = sent' - Keep + i
               /\ EndsIn(Kept(q))'
               /\ \A u \in Procs : Compacting(u)' => Kept(u)' = Kept(q)'
    <3>1. KeptAt(q) /\ Compacting(q) /\ Kept(q)' = Kept(q)
      BY <1>2, <1>9, <2>2 DEF LogKept
    <3>2. EndsIn(Kept(q))'
      BY <1>1, <3>1 DEF KeptAt, EndsIn
    <3> QED
      BY <1>1, <1>9, <3>1, <3>2 DEF KeptAt
  <2> QED
    BY <2>1, <2>2 DEF KeptAt
<1>15. ~Cut' => Long'
  <2>1. \A q \in Procs : At(q, "rewrite") => At(q, "rewrite")'
    BY <1>1, <1>8 DEF At
  <2> QED
    BY <1>1, <1>2, <2>1 DEF Long, LongEnough
<1> QED
  BY <1>13, <1>14, <1>15 DEF LogKept

LEMMA LogStep ==
  ASSUME Typed, Timely, LogInv, [Next]_vars
  PROVE  LogInv'
<1>1. ASSUME NEW p \in Procs, NEW r \in Command, Goto(p, r),
             UNCHANGED <<msgs, sent, shown, upto, late>>, mishaps \subseteq mishaps',
             r.at \notin {"truncate", "rewrite"}, At(p, "rewrite") => Cut'
      PROVE  LogInv'
  <2>1. proc'[p] = r /\ \A q \in Procs \ {p} : proc'[q] = proc[q]
    BY <1>1, Moved
  <2>2. \A q \in Procs : Compacting(q)' => Compacting(q) /\ Kept(q)' = Kept(q)
    BY <1>1, <2>1 DEF Compacting, Kept
  <2>3. \A q \in Procs : At(q, "rewrite") => At(q, "rewrite")' \/ Cut'
    BY <1>1, <2>1 DEF At
  <2> QED
    BY <1>1, <2>2, <2>3, Untouched
<1>2. ASSUME UNCHANGED <<msgs, sent, shown, upto, late, proc>>, mishaps \subseteq mishaps'
      PROVE  LogInv'
  BY <1>2, Untouched DEF Compacting, Kept, At
<1>3. clock \in Nat
  BY Counts
<1> USE DEF messageVars
<1>4. ASSUME NEW p \in Procs, Send(p) PROVE LogInv'
  <2>1. PICK s \in Sessions, to \in Sessions \cup {"*"} :
          /\ Goto(p, [at |-> "append", me |-> s, now |-> clock, to |-> to])
          /\ UNCHANGED <<clock, messageVars, lockVars, mishaps>>
    BY <1>4, Zenon DEF Send
  <2>2. [at |-> "append", me |-> s, now |-> clock, to |-> to] \in Command
    BY <1>3, Places
  <2> QED
    BY <1>1, <1>4, <2>1, <2>2 DEF Send, At
<1>5. ASSUME NEW p \in Procs, Check(p) PROVE LogInv'
  <2>1. PICK s \in Sessions :
          /\ Goto(p, [at |-> "inbox", me |-> s, since |-> cursor[s]])
          /\ UNCHANGED <<clock, messageVars, lockVars, mishaps>>
    BY <1>5, Zenon DEF Check
  <2>2. [at |-> "inbox", me |-> s, since |-> cursor[s]] \in Command
    BY Places DEF Typed
  <2> QED
    BY <1>1, <1>5, <2>1, <2>2 DEF Check, At
<1>6. ASSUME NEW p \in Procs, Claim(p) PROVE LogInv'
  <2>1. PICK s \in Sessions, x \in Scopes :
          /\ Goto(p, [at |-> "claim", me |-> s, now |-> clock, scope |-> x])
          /\ UNCHANGED <<clock, messageVars, lockVars, mishaps>>
    BY <1>6, Zenon DEF Claim
  <2>2. [at |-> "claim", me |-> s, now |-> clock, scope |-> x] \in Command
    BY <1>3, Places
  <2> QED
    BY <1>1, <1>6, <2>1, <2>2 DEF Claim, At
<1>7. ASSUME NEW p \in Procs, ReadLeases(p) PROVE LogInv'
  <2> DEFINE r == [at |-> "lease", me |-> proc[p].me, now |-> proc[p].now,
                   scope |-> proc[p].scope]
  <2>1. At(p, "claim") /\ UNCHANGED <<msgs, sent, shown, upto, late>> /\ mishaps \subseteq mishaps'
    BY <1>7 DEF ReadLeases
  <2>2. Goto(p, r) \/ Goto(p, Idle)
    BY <1>7, <2>1, Onward DEF ReadLeases
  <2>3. r \in Command /\ Idle \in Command
    BY <2>1, Carries, Places
  <2> QED
    BY <1>1, <2>1, <2>2, <2>3 DEF At, Idle
<1>8. ASSUME NEW p \in Procs, Advance(p) \/ AppendLease(p) PROVE LogInv'
  BY <1>1, <1>8, Places DEF Advance, AppendLease, Idle, At
<1>9. ASSUME NEW p \in Procs, Kill(p) PROVE LogInv'
  BY <1>1, <1>9, Places DEF Kill, Idle, Cut
<1>10. ASSUME NEW p \in Procs, Release(p) PROVE LogInv'
  BY <1>2, <1>10 DEF Release
<1>11. CASE Tick \/ UNCHANGED vars
  BY <1>2, <1>11 DEF Tick, vars
<1> QED
  BY <1>4, <1>5, <1>6, <1>7, <1>8, <1>9, <1>10, <1>11, LogAppend, LogReadBack, LogCompact, LogRead
     DEF Next, Finished, Message, Lock

WireInv == Typed /\ Timely /\ Counted /\ LogInv

LEMMA WireInvariant == Spec => []WireInv
<1>1. Init => WireInv
  BY InitTyped, InitCounted, LogInit DEF WireInv
<1>2. WireInv /\ [Next]_vars => WireInv'
  BY StepTyped, StepCounted, LogStep DEF WireInv
<1> QED
  BY <1>1, <1>2, PTL DEF Spec

\* NothingPassedOver: what `msg check` has not shown and did not find too late is
\* past its cursor, unless a message was appended into a compaction.
THEOREM CursorPassesNothing == Spec => []NothingPassedOver
<1>1. WireInv => NothingPassedOver
  <2> SUFFICES ASSUME WireInv PROVE NothingPassedOver
    OBVIOUS
  <2>1. TypeOK
    BY TypesHold DEF WireInv
  <2>2. ASSUME ~Raced, NEW s \in Sessions, NEW m \in Inbox(msgs, s, 0), m.ts <= cursor[s]
        PROVE  m.n \in shown[s] \cup late[s]
    <3>1. InLog(m) /\ m.from # s /\ m.to \in {s, "*"}
      BY <2>2, Lines DEF Inbox, WireInv
    <3>2. cursor[s] \in Nat /\ upto[s] \in Nat /\ cursor[s] <= upto[s]
      <4>1. cursor \in [Sessions -> Nat] /\ upto \in [Sessions -> Nat]
        BY Zenon DEF WireInv, Typed
      <4> QED
        BY <4>1 DEF WireInv, Timely, TimelyMarks
    <3>3. m.ts \in Nat
      <4>1. clock \in Nat /\ m.ts \in 1..clock
        BY <3>1, Counts DEF WireInv, Timely, TimelyLines
      <4> QED
        BY <4>1
    <3>4. m.ts <= upto[s]
      BY <2>2, <3>2, <3>3
    <3> QED
      BY <2>2, <3>1, <3>4 DEF WireInv, LogInv, LogKept, Seen
  <2> QED
    BY <2>1, <2>2 DEF NothingPassedOver, Raced
<1> QED
  BY <1>1, WireInvariant, PTL

\* RecentKept: between compactions the log ends in the lines sent last, however
\* many sends compacted it, unless one was raced or killed.
THEOREM NewestAreKept == Spec => []RecentKept
<1>1. WireInv => RecentKept
  <2> SUFFICES ASSUME WireInv, ~Raced, ~Cut, \A p \in Procs : ~Compacting(p)
               PROVE  /\ Len(msgs) >= IF sent < Keep THEN sent ELSE Keep
                      /\ \A i \in DOMAIN msgs : msgs[i].n = sent - Len(msgs) + i
    BY DEF RecentKept, Raced, Cut
  <2>1. LogKept /\ LongEnough
    BY DEF WireInv, LogInv, Long, At, Compacting
  <2>2. sent \in Nat /\ Keep \in Nat /\ Len(msgs) \in Nat /\ DOMAIN msgs = 1..Len(msgs)
    BY Counts, WireAssumption DEF WireInv
  <2> QED
    BY <2>1, <2>2 DEF LogKept, Contiguous, LongEnough
<1> QED
  BY <1>1, WireInvariant, PTL

-----------------------------------------------------------------------------
\* locks.tsv: the last line of a scope says what its owner holds, and nobody
\* else holds anything; a claim that was granted has no rival.
Disputed == mishaps \cap {"claims at once", "released by another"} # {}

OnlyLive(s, x) == \A t \in Sessions : t # s => ~Live(t, x)

LastSays(x) ==
  /\ Latest(x) = {} => \A s \in Sessions : ~Live(s, x)
  /\ \A i \in Latest(x) : /\ held[leases[i].owner][x] = leases[i].beat
                          /\ OnlyLive(leases[i].owner, x)

Unrivalled(p) ==
  At(p, "lease") => /\ OnlyLive(proc[p].me, proc[p].scope)
                    /\ \A q \in Procs : At(q, "lease") /\ proc[q].scope = proc[p].scope
                                          => proc[q].me = proc[p].me

LeaseInv == ~Disputed => (\A x \in Scopes : LastSays(x)) /\ \A p \in Procs : Unrivalled(p)

LEMMA HeldIsTime ==
  ASSUME Typed, Timely
  PROVE  /\ \A s \in Sessions, x \in Scopes : held[s][x] \in Int
         /\ Released \in Int /\ clock - Released > TTL /\ clock \in Nat /\ TTL \in Nat
<1>1. held \in [Sessions -> [Scopes -> Int]]
  BY Zenon DEF Typed
<1> QED
  BY <1>1, Counts DEF Released

LEMMA LeaseInit == Init => LeaseInv
<1> SUFFICES ASSUME Init PROVE LeaseInv
  OBVIOUS
<1>1. Typed /\ Timely
  BY InitTyped
<1>2. \A s \in Sessions, x \in Scopes : ~Live(s, x)
  BY <1>1, HeldIsTime DEF Init, Live
<1>3. Len(leases) = 0 /\ DOMAIN leases = {}
  BY DEF Init
<1>4. \A p \in Procs : ~At(p, "lease")
  BY DEF Init, At, Idle
<1> QED
  BY <1>2, <1>3, <1>4 DEF LeaseInv, LastSays, Unrivalled, Latest

\* A step that leaves the leases alone.
LEMMA Unclaimed ==
  ASSUME Typed, Timely, LeaseInv, UNCHANGED <<leases, held>>, mishaps \subseteq mishaps',
         clock' \in Nat, clock <= clock',
         \A q \in Procs : At(q, "lease")' => At(q, "lease") /\ proc'[q] = proc[q]
  PROVE  LeaseInv'
<1> SUFFICES ASSUME ~Disputed' PROVE (\A x \in Scopes : LastSays(x)') /\ \A p \in Procs : Unrivalled(p)'
  BY DEF LeaseInv
<1>1. (\A x \in Scopes : LastSays(x)) /\ \A p \in Procs : Unrivalled(p)
  BY DEF Disputed, LeaseInv
<1>2. ASSUME NEW s \in Sessions, NEW x \in Scopes, ~Live(s, x) PROVE ~Live(s, x)'
  BY <1>2, HeldIsTime DEF Live
<1>3. ASSUME NEW x \in Scopes PROVE LastSays(x)'
  <2>1. Latest(x)' = Latest(x)
    BY DEF Latest
  <2>2. LastSays(x)
    BY <1>1
  <2> QED
    BY <1>2, <2>1, <2>2 DEF LastSays, OnlyLive
<1>4. ASSUME NEW p \in Procs, At(p, "lease")'
      PROVE  /\ OnlyLive(proc[p].me, proc[p].scope)'
             /\ \A q \in Procs : At(q, "lease")' /\ proc'[q].scope = proc'[p].scope
                                          => proc'[q].me = proc'[p].me
  <2>1. At(p, "lease") /\ proc'[p] = proc[p] /\ Unrivalled(p) /\ proc[p].scope \in Scopes
    BY <1>1, <1>4, Carries
  <2> QED
    BY <1>2, <2>1 DEF Unrivalled, OnlyLive
<1> QED
  BY <1>3, <1>4 DEF Unrivalled

LEMMA LeaseRead ==
  ASSUME Typed, Timely, LeaseInv, NEW p \in Procs, ReadLeases(p)
  PROVE  LeaseInv'
<1> DEFINE me == proc[p].me
           now == proc[p].now
           x == proc[p].scope
           r == [at |-> "lease", me |-> me, now |-> now, scope |-> x]
<1>1. /\ At(p, "claim") /\ UNCHANGED <<leases, held, clock>> /\ mishaps \subseteq mishaps'
      /\ me \in Sessions /\ now \in Nat /\ x \in Scopes /\ now <= clock
  <2>1. At(p, "claim") /\ UNCHANGED <<leases, held, clock>> /\ mishaps \subseteq mishaps'
    BY DEF ReadLeases, lockVars
  <2> QED
    BY <2>1, Carries, Counts DEF Timely, TimelyAt
<1>2. CASE ~Granted(me, x, now)
  <2>1. Goto(p, Idle)
    BY <1>2 DEF ReadLeases
  <2>2. proc'[p] = Idle /\ \A q \in Procs \ {p} : proc'[q] = proc[q]
    BY <2>1, Places, Moved
  <2>3. \A q \in Procs : At(q, "lease")' => At(q, "lease") /\ proc'[q] = proc[q]
    BY <2>2 DEF At, Idle
  <2> QED
    BY <1>1, <2>3, Unclaimed, Counts
<1>3. CASE Granted(me, x, now)
  <2> SUFFICES ASSUME ~Disputed' PROVE (\A y \in Scopes : LastSays(y)') /\ \A q \in Procs : Unrivalled(q)'
    BY DEF LeaseInv
  <2>1. Goto(p, r) /\ r \in Command
    BY <1>1, <1>3, Onward, Places DEF ReadLeases
  <2>2. proc'[p] = r /\ \A q \in Procs \ {p} : proc'[q] = proc[q]
    BY <2>1, Moved
  <2>3. (\A y \in Scopes : LastSays(y)) /\ \A q \in Procs : Unrivalled(q)
    BY <1>1 DEF Disputed, LeaseInv
  <2>4. \A q \in Procs \ {p} : At(q, "lease") /\ proc[q].scope = x => proc[q].me = me
    BY DEF ReadLeases, Disputed
  <2>5. OnlyLive(me, x)
    <3>1. CASE Latest(x) = {}
      BY <1>1, <2>3, <3>1 DEF LastSays, OnlyLive
    <3>2. ASSUME NEW i \in Latest(x) PROVE OnlyLive(me, x)
      <4> DEFINE o == leases[i].owner
      <4>1. held[o][x] = leases[i].beat /\ OnlyLive(o, x)
        BY <1>1, <2>3, <3>2 DEF LastSays
      <4>2. leases[i].owner \in Sessions /\ leases[i].beat \in Int
        BY <3>2, Counts DEF Latest, Lease
      <4>3. now - leases[i].beat <= TTL => o = me
        BY <1>3, <3>2 DEF Granted, Owners
      <4>4. o # me => ~Live(o, x)
        BY <1>1, <4>1, <4>2, <4>3, HeldIsTime DEF Live
      <4> QED
        BY <4>1, <4>4 DEF OnlyLive
    <3> QED
      BY <3>1, <3>2
  <2>6. \A s \in Sessions, y \in Scopes : Live(s, y)' <=> Live(s, y)
    BY <1>1 DEF Live
  <2>7. ASSUME NEW y \in Scopes PROVE LastSays(y)'
    <3>1. Latest(y)' = Latest(y)
      BY <1>1 DEF Latest
    <3> QED
      BY <1>1, <2>3, <2>6, <3>1 DEF LastSays, OnlyLive
  <2>8. ASSUME NEW q \in Procs, At(q, "lease")'
        PROVE  /\ OnlyLive(proc[q].me, proc[q].scope)'
               /\ \A u \in Procs : At(u, "lease")' /\ proc'[u].scope = proc'[q].scope
                                     => proc'[u].me = proc'[q].me
    <3>1. CASE q = p
      <4>1. OnlyLive(proc[q].me, proc[q].scope)'
        BY <1>1, <2>2, <2>5, <2>6, <3>1 DEF OnlyLive
      <4> QED
        BY <2>2, <2>4, <3>1, <4>1 DEF At
    <3>2. CASE q # p
      <4>1. At(q, "lease") /\ proc'[q] = proc[q] /\ Unrivalled(q) /\ proc[q].scope \in Scopes
        BY <2>2, <2>3, <2>8, <3>2, Carries DEF At
      <4>2. OnlyLive(proc[q].me, proc[q].scope)'
        BY <2>6, <4>1 DEF OnlyLive, Unrivalled
      <4> QED
        BY <2>2, <2>4, <3>2, <4>1, <4>2 DEF At, Unrivalled
    <3> QED
      BY <3>1, <3>2
  <2> QED
    BY <2>7, <2>8 DEF Unrivalled
<1> QED
  BY <1>2, <1>3

\* A line of locks.tsv: a lease of a claim without rival, or a tombstone while
\* nobody else holds the scope.
LEMMA LeaseWritten ==
  ASSUME Typed, Timely, LeaseInv, NEW s \in Sessions, NEW x \in Scopes, NEW b \in Int,
         ~Disputed => OnlyLive(s, x),
         leases' = Append(leases, [scope |-> x, owner |-> s, beat |-> b]),
         held' = [held EXCEPT ![s][x] = b], UNCHANGED clock, mishaps \subseteq mishaps',
         \A q \in Procs : At(q, "lease")' => At(q, "lease") /\ proc'[q] = proc[q],
         ~Disputed => \A q \in Procs : At(q, "lease")' /\ proc[q].scope = x
                                         => proc[q].me = s \/ clock - b > TTL
  PROVE  LeaseInv'
<1> SUFFICES ASSUME ~Disputed' PROVE (\A y \in Scopes : LastSays(y)') /\ \A q \in Procs : Unrivalled(q)'
  BY DEF LeaseInv
<1>1. ~Disputed /\ (\A y \in Scopes : LastSays(y)) /\ \A q \in Procs : Unrivalled(q)
  BY DEF Disputed, LeaseInv
<1> DEFINE line == [scope |-> x, owner |-> s, beat |-> b]
           n == Len(leases) + 1
<1>2. /\ leases \in Seq(Lease) /\ held \in [Sessions -> [Scopes -> Int]] /\ line \in Lease
  BY Zenon DEF Typed, Lease
<1>3. /\ Len(leases) \in Nat /\ DOMAIN leases = 1..Len(leases) /\ DOMAIN leases' = 1..n
      /\ leases'[n] = line /\ \A i \in 1..Len(leases) : leases'[i] = leases[i]
  BY <1>2
<1>4. /\ held'[s][x] = b
      /\ \A t \in Sessions, y \in Scopes : t # s \/ y # x => held'[t][y] = held[t][y]
  BY <1>2
<1>5. \A t \in Sessions, y \in Scopes : t # s \/ y # x => (Live(t, y)' <=> Live(t, y))
  BY <1>4 DEF Live
<1>6. ASSUME NEW y \in Scopes, y # x PROVE LastSays(y)'
  <2>1. Latest(y)' = Latest(y) /\ \A i \in Latest(y) : i \in 1..Len(leases)
    <3>1. ASSUME NEW j \in 1..n, leases'[j].scope = y PROVE j \in 1..Len(leases)
      BY <1>3, <1>6, <3>1
    <3> HIDE DEF n, line
    <3>2. 1..Len(leases) \subseteq 1..n
      BY <1>3 DEF n
    <3> QED
      BY <1>3, <3>1, <3>2 DEF Latest
  <2>2. LastSays(y)
    BY <1>1
  <2>3. \A i \in Latest(y) : leases'[i] = leases[i] /\ leases[i].owner \in Sessions
    BY <1>3, <2>1, Counts DEF Lease
  <2> QED
    BY <1>4, <1>5, <1>6, <2>1, <2>2, <2>3 DEF LastSays, OnlyLive
<1>7. LastSays(x)'
  <2>1. Latest(x)' = {n}
    <3>1. n \in DOMAIN leases' /\ leases'[n].scope = x /\ \A j \in DOMAIN leases' : j <= n
      BY <1>3
    <3>2. \A i \in DOMAIN leases' : n <= i => i = n
      BY <1>3
    <3> HIDE DEF n, line
    <3> QED
      BY <3>1, <3>2 DEF Latest
  <2>2. \A t \in Sessions : t # s => ~Live(t, x)'
    BY <1>1, <1>5 DEF OnlyLive
  <2>3. leases'[n].owner = s /\ leases'[n].beat = b
    BY <1>3
  <2> HIDE DEF n, line
  <2> QED
    BY <1>4, <2>1, <2>2, <2>3 DEF LastSays, OnlyLive
<1>8. ASSUME NEW q \in Procs, At(q, "lease")'
      PROVE  /\ OnlyLive(proc[q].me, proc[q].scope)'
             /\ \A u \in Procs : At(u, "lease")' /\ proc'[u].scope = proc'[q].scope
                                   => proc'[u].me = proc'[q].me
  <2>1. At(q, "lease") /\ proc'[q] = proc[q] /\ Unrivalled(q) /\ proc[q].scope \in Scopes
    BY <1>1, <1>8, Carries
  <2>2. OnlyLive(proc[q].me, proc[q].scope)'
    <3>1. ASSUME NEW t \in Sessions, t # proc[q].me PROVE ~Live(t, proc[q].scope)'
      <4>1. CASE t # s \/ proc[q].scope # x
        BY <1>5, <2>1, <3>1, <4>1 DEF Unrivalled, OnlyLive
      <4>2. CASE t = s /\ proc[q].scope = x
        <5>1. clock - b > TTL
          BY <1>1, <1>8, <3>1, <4>2
        <5>2. clock' - held'[s][x] > TTL /\ clock \in Nat /\ TTL \in Nat
          BY <1>4, <5>1, HeldIsTime
        <5>3. ~(clock' - held'[s][x] <= TTL)
          BY <1>4, <5>2
        <5> QED
          BY <2>1, <4>2, <5>3 DEF Live
      <4> QED
        BY <4>1, <4>2
    <3> QED
      BY <2>1, <3>1 DEF OnlyLive
  <2> QED
    BY <2>1, <2>2 DEF Unrivalled
<1> QED
  BY <1>6, <1>7, <1>8 DEF Unrivalled

LEMMA LeaseAppend ==
  ASSUME Typed, Timely, LeaseInv, NEW p \in Procs, AppendLease(p)
  PROVE  LeaseInv'
<1> DEFINE s == proc[p].me
           x == proc[p].scope
           b == proc[p].now
<1>1. /\ At(p, "lease") /\ Goto(p, Idle) /\ UNCHANGED <<clock, mishaps>>
      /\ leases' = Append(leases, [scope |-> x, owner |-> s, beat |-> b])
      /\ held' = [held EXCEPT ![s][x] = b]
  BY DEF AppendLease
<1>2. s \in Sessions /\ x \in Scopes /\ b \in Int
  BY <1>1, Carries
<1>3. ~Disputed => Unrivalled(p)
  BY DEF LeaseInv
<1>4. proc'[p] = Idle /\ \A q \in Procs \ {p} : proc'[q] = proc[q]
  BY <1>1, Places, Moved
<1>5. \A q \in Procs : At(q, "lease")' => At(q, "lease") /\ proc'[q] = proc[q]
  BY <1>4 DEF At, Idle
<1>6. ~Disputed => OnlyLive(s, x)
  BY <1>1, <1>3 DEF Unrivalled
<1>7. ~Disputed => \A q \in Procs : At(q, "lease")' /\ proc[q].scope = x => proc[q].me = s
  BY <1>1, <1>3, <1>5 DEF Unrivalled
<1>8. ~Disputed => \A q \in Procs : At(q, "lease")' /\ proc[q].scope = x
                                      => proc[q].me = s \/ clock - b > TTL
  BY <1>7
<1>9. UNCHANGED clock /\ mishaps \subseteq mishaps'
  BY <1>1
<1> HIDE DEF s, x, b
<1> QED
  BY <1>1, <1>2, <1>5, <1>6, <1>8, <1>9, LeaseWritten

LEMMA LeaseRelease ==
  ASSUME Typed, Timely, LeaseInv, NEW p \in Procs, Release(p)
  PROVE  LeaseInv'
<1>1. PICK s \in Sessions, x \in Scopes :
        /\ leases' = Append(leases, [scope |-> x, owner |-> s, beat |-> Released])
        /\ held' = [held EXCEPT ![s][x] = Released]
        /\ mishaps' = IF Holders(x) \subseteq {s} THEN mishaps
                      ELSE mishaps \cup {"released by another"}
        /\ UNCHANGED <<clock, proc>>
  BY DEF Release
<1>2. CASE Holders(x) \subseteq {s}
  <2>1. OnlyLive(s, x)
    BY <1>2 DEF Holders, OnlyLive
  <2>2. \A q \in Procs : At(q, "lease")' => At(q, "lease") /\ proc'[q] = proc[q]
    BY <1>1 DEF At
  <2>3. mishaps \subseteq mishaps'
    BY <1>1
  <2> QED
    BY <1>1, <2>1, <2>2, <2>3, HeldIsTime, LeaseWritten
<1>3. CASE ~(Holders(x) \subseteq {s})
  BY <1>1, <1>3 DEF LeaseInv, Disputed
<1> QED
  BY <1>2, <1>3

LEMMA LeaseStays ==
  ASSUME Typed, Timely, LeaseInv, [Next]_vars
  PROVE  LeaseInv'
<1>0. clock \in Nat
  BY Counts
<1>1. ASSUME NEW p \in Procs, NEW r \in Command, Goto(p, r), r.at # "lease",
             UNCHANGED <<leases, held, clock>>, mishaps \subseteq mishaps'
      PROVE  LeaseInv'
  <2>1. proc'[p] = r /\ \A q \in Procs \ {p} : proc'[q] = proc[q]
    BY <1>1, Moved
  <2>2. \A q \in Procs : At(q, "lease")' => At(q, "lease") /\ proc'[q] = proc[q]
    BY <1>1, <2>1 DEF At
  <2> QED
    BY <1>0, <1>1, <2>2, Unclaimed
<1> USE DEF lockVars
<1>2. ASSUME NEW p \in Procs, Send(p) PROVE LeaseInv'
  <2>1. PICK s \in Sessions, to \in Sessions \cup {"*"} :
          /\ Goto(p, [at |-> "append", me |-> s, now |-> clock, to |-> to])
          /\ UNCHANGED <<clock, messageVars, lockVars, mishaps>>
    BY <1>2, Zenon DEF Send
  <2>2. [at |-> "append", me |-> s, now |-> clock, to |-> to] \in Command
    BY <1>0, Places
  <2> QED
    BY <1>1, <2>1, <2>2
<1>3. ASSUME NEW p \in Procs, Check(p) PROVE LeaseInv'
  <2>1. PICK s \in Sessions :
          /\ Goto(p, [at |-> "inbox", me |-> s, since |-> cursor[s]])
          /\ UNCHANGED <<clock, messageVars, lockVars, mishaps>>
    BY <1>3, Zenon DEF Check
  <2>2. [at |-> "inbox", me |-> s, since |-> cursor[s]] \in Command
    BY Places DEF Typed
  <2> QED
    BY <1>1, <2>1, <2>2
<1>4. ASSUME NEW p \in Procs, Claim(p) PROVE LeaseInv'
  <2>1. PICK s \in Sessions, x \in Scopes :
          /\ Goto(p, [at |-> "claim", me |-> s, now |-> clock, scope |-> x])
          /\ UNCHANGED <<clock, messageVars, lockVars, mishaps>>
    BY <1>4, Zenon DEF Claim
  <2>2. [at |-> "claim", me |-> s, now |-> clock, scope |-> x] \in Command
    BY <1>0, Places
  <2> QED
    BY <1>1, <2>1, <2>2
<1>5. ASSUME NEW p \in Procs, ReadBack(p) \/ Compact(p) PROVE LeaseInv'
  <2>1. \E r \in Command : Goto(p, r) /\ r.at # "lease"
    <3>1. CASE ReadBack(p) /\ Len(msgs) > MaxLog
      <4>1. msgs \in Seq(Msg)
        BY Zenon DEF Typed
      <4>2. LastLines(msgs) \in Seq(Msg)
        BY <3>1, <4>1, LastAreLines
      <4> QED
        BY <3>1, <4>2, Places DEF ReadBack
    <3>2. CASE ReadBack(p) /\ ~(Len(msgs) > MaxLog)
      BY <3>2, Places DEF ReadBack, Idle
    <3>3. CASE At(p, "truncate") /\ Goto(p, [proc[p] EXCEPT !.at = "rewrite"])
      BY <3>3, Onward, Carries, Places DEF At, Compacting
    <3>4. CASE Goto(p, Idle)
      BY <3>4, Places DEF Idle
    <3> QED
      BY <1>5, <3>1, <3>2, <3>3, <3>4 DEF Compact
  <2>2. UNCHANGED <<leases, held, clock, mishaps>>
    BY <1>5 DEF ReadBack, Compact
  <2> QED
    BY <1>1, <2>1, <2>2
<1>6. ASSUME NEW p \in Procs, AppendMessage(p) PROVE LeaseInv'
  BY <1>1, <1>6, Places DEF AppendMessage
<1>7. ASSUME NEW p \in Procs, ReadInbox(p) PROVE LeaseInv'
  <2> DEFINE newest == Max({m.ts : m \in Inbox(msgs, proc[p].me, proc[p].since)} \cup {proc[p].since})
  <2>1. /\ At(p, "inbox") /\ Goto(p, [at |-> "advance", me |-> proc[p].me, newest |-> newest])
        /\ UNCHANGED <<leases, held, clock, mishaps>>
    BY <1>7 DEF ReadInbox
  <2>2. proc[p].me \in Sessions /\ proc[p].since \in 0..clock
    <3>1. proc[p].me \in Sessions /\ proc[p].since \in Nat /\ proc[p].since <= upto[proc[p].me]
      BY <2>1, Carries DEF Timely, TimelyAt
    <3>2. upto[proc[p].me] <= clock /\ upto \in [Sessions -> Nat]
      <4>1. upto \in [Sessions -> Nat]
        BY Zenon DEF Typed
      <4> QED
        BY <3>1, <4>1 DEF Timely, TimelyMarks
    <3> QED
      BY <1>0, <3>1, <3>2
  <2>3. newest \in Nat
    <3>1. newest \in proc[p].since..clock
      BY <2>2, Newest
    <3> HIDE DEF newest
    <3> QED
      BY <2>2, <3>1
  <2> HIDE DEF newest
  <2> QED
    BY <1>1, <2>1, <2>2, <2>3, Places
<1>8. ASSUME NEW p \in Procs, Advance(p) \/ Kill(p) PROVE LeaseInv'
  BY <1>1, <1>8, Places DEF Advance, Kill, Idle
<1>9. CASE Tick
  <2>1. clock' \in Nat /\ clock <= clock'
    BY <1>0, <1>9 DEF Tick
  <2>2. \A q \in Procs : At(q, "lease")' => At(q, "lease") /\ proc'[q] = proc[q]
    BY <1>9 DEF Tick, At
  <2> QED
    BY <1>9, <2>1, <2>2, Unclaimed DEF Tick
<1>10. CASE UNCHANGED vars
  BY <1>0, <1>10, Unclaimed DEF vars, At
<1> QED
  BY <1>2, <1>3, <1>4, <1>5, <1>6, <1>7, <1>8, <1>9, <1>10, LeaseRead, LeaseAppend, LeaseRelease
     DEF Next, Finished, Message, Lock

\* HoldersListed: a claim that was granted excludes every other, and its line is
\* what `lock list` shows, unless claims overlapped or a scope was released by
\* a session that did not hold it.
THEOREM ScopeHasOneHolder == Spec => []HoldersListed
<1> DEFINE Inv == Typed /\ Timely /\ LeaseInv
<1>1. Init => Inv
  BY InitTyped, LeaseInit
<1>2. Inv /\ [Next]_vars => Inv'
  BY StepTyped, LeaseStays
<1>3. Inv => HoldersListed
  <2> SUFFICES ASSUME Inv, ~Disputed, NEW x \in Scopes
               PROVE  Cardinality(Holders(x)) <= 1 /\ Owners(x, clock) = Holders(x)
    BY DEF HoldersListed, Disputed
  <2>1. LastSays(x)
    BY DEF LeaseInv
  <2>2. CASE Latest(x) = {}
    <3>1. Owners(x, clock) = {} /\ Holders(x) = {}
      BY <2>1, <2>2 DEF LastSays, Owners, Holders
    <3> QED
      BY <3>1, FS_EmptySet
  <2>3. ASSUME NEW i \in Latest(x)
        PROVE  Cardinality(Holders(x)) <= 1 /\ Owners(x, clock) = Holders(x)
    <3> DEFINE o == leases[i].owner
    <3>1. /\ o \in Sessions /\ \A j \in Latest(x) : i <= j /\ j <= i /\ i \in Nat /\ j \in Nat
      BY <2>3, Counts DEF Latest, Lease
    <3>2. Latest(x) = {i}
      BY <2>3, <3>1
    <3>3. held[o][x] = leases[i].beat /\ OnlyLive(o, x)
      BY <2>1, <2>3 DEF LastSays
    <3>4. Owners(x, clock) = IF Live(o, x) THEN {o} ELSE {}
      BY <3>2, <3>3 DEF Owners, Live
    <3>5. Holders(x) = IF Live(o, x) THEN {o} ELSE {}
      BY <3>1, <3>3 DEF Holders, OnlyLive
    <3>6. Cardinality({o}) = 1 /\ Cardinality({}) = 0
      BY FS_Singleton, FS_EmptySet
    <3> QED
      BY <3>4, <3>5, <3>6
  <2> QED
    BY <2>2, <2>3
<1> QED
  BY <1>1, <1>2, <1>3, PTL DEF Spec
=============================================================================
