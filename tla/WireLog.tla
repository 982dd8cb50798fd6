------------------------------ MODULE WireLog ------------------------------
(***************************************************************************)
(* The files live sessions talk through: msg.tsv, to which `icmg msg send` *)
(* appends and which it rewrites when it has grown, the cursor `icmg msg   *)
(* check` keeps per session, and locks.tsv, in which the last line of a    *)
(* scope says who holds it.  Nothing takes a lock: every access to a file  *)
(* is a step of its own, and a line carries the second its command began.  *)
(* (`icmg bus emit` and `tail` are `send` and `inbox` on a third file.)    *)
(***************************************************************************)
EXTENDS Integers, Sequences, FiniteSets, SequencesExt

CONSTANTS
    Sessions,   \* values of ICMG_SESSION_ID
    Procs,      \* icmg processes; one session may run several
    Scopes,     \* what is claimed
    TTL,        \* seconds a claim is live (300 in the code)
    MaxLog,     \* lines above which a send compacts the log (1000)
    Keep,       \* lines a compaction keeps (500)
    MaxClock, MaxSent, MaxLeases   \* bounds: seconds, messages, lines of locks.tsv

ASSUME WireAssumption ==
    /\ TTL \in Nat /\ Keep \in Nat \ {0} /\ MaxLog \in Nat /\ Keep <= MaxLog
    /\ MaxClock \in Nat \ {0} /\ MaxSent \in Nat /\ MaxLeases \in Nat
    /\ IsFiniteSet(Procs)

VARIABLES
    topic,   \* the file the commands of a behaviour use: the two share nothing
    clock,
    msgs,    \* the lines of msg.tsv
    cursor,  \* the marker file of each session
    leases,  \* the lines of locks.tsv
    proc,    \* the command each process is in, with what it has read
    sent,    \* number of messages appended: names them in order
    shown,   \* history: messages a check has shown to each session
    upto,    \* history: the newest second a check has found for each session
    late,    \* history: messages appended no later than that second, per session
    held,    \* the last claim granted to each session, unless released
    mishaps  \* history: which of the races below have happened

vars == <<topic, clock, msgs, cursor, leases, proc, sent, shown, upto, late, held, mishaps>>
messageVars == <<msgs, cursor, sent, shown, upto, late>>
lockVars == <<leases, held>>

Released == -1 - TTL   \* heartbeat 0 of a tombstone, long ago in unix time

Idle == [at |-> "idle"]
At(p, l) == proc[p].at = l
Goto(p, r) == proc' = [proc EXCEPT ![p] = r]

Init ==
    /\ topic \in {"messages", "locks"}
    /\ clock = 1 /\ msgs = <<>> /\ leases = <<>> /\ sent = 0
    /\ cursor = [s \in Sessions |-> 0] /\ upto = [s \in Sessions |-> 0]
    /\ shown = [s \in Sessions |-> {}] /\ late = [s \in Sessions |-> {}]
    /\ held = [s \in Sessions |-> [x \in Scopes |-> Released]]
    /\ proc = [p \in Procs |-> Idle] /\ mishaps = {}

Tick ==
    /\ clock < MaxClock /\ clock' = clock + 1
    /\ UNCHANGED <<messageVars, lockVars, proc, mishaps>>

-----------------------------------------------------------------------------
\* msg send: append a line, read everything back, and keep the end of a long log.

Compacting(p) == proc[p].at \in {"truncate", "rewrite"}

Send(p) == \E s \in Sessions, to \in Sessions \cup {"*"} :
    /\ At(p, "idle") /\ s # to
    /\ sent + Cardinality({q \in Procs : At(q, "append")}) < MaxSent
    /\ Goto(p, [at |-> "append", me |-> s, now |-> clock, to |-> to])
    /\ UNCHANGED <<clock, messageVars, lockVars, mishaps>>

AppendMessage(p) ==
    /\ At(p, "append")
    /\ sent' = sent + 1
    /\ msgs' = Append(msgs, [n |-> sent', from |-> proc[p].me, to |-> proc[p].to, ts |-> proc[p].now])
    /\ late' = [s \in Sessions |-> IF proc[p].now <= upto[s] THEN late[s] \cup {sent'} ELSE late[s]]
    /\ Goto(p, [at |-> "readback"])
    /\ mishaps' = IF \E q \in Procs : Compacting(q) THEN mishaps \cup {"append in compaction"} ELSE mishaps
    /\ UNCHANGED <<clock, cursor, shown, upto, lockVars>>

\* Mutant: the start of the log is kept.
FirstLines(log) == SubSeq(log, 1, Keep)

LastLines(log) == SubSeq(log, Len(log) - Keep + 1, Len(log))

ReadBack(p) ==
    /\ At(p, "readback")
    /\ Goto(p, IF Len(msgs) > MaxLog THEN [at |-> "truncate", kept |-> LastLines(msgs)] ELSE Idle)
    /\ UNCHANGED <<clock, messageVars, lockVars, mishaps>>

\* Opening for writing empties the file; what is written replaces what others
\* have appended to it since.
Compact(p) ==
    /\ \/ At(p, "truncate") /\ msgs' = <<>> /\ Goto(p, [proc[p] EXCEPT !.at = "rewrite"])
       \/ At(p, "rewrite") /\ msgs' = proc[p].kept /\ Goto(p, Idle)
    /\ UNCHANGED <<clock, cursor, sent, shown, upto, late, lockVars, mishaps>>

-----------------------------------------------------------------------------
\* msg check: the marker, the log, then the marker again.

Inbox(log, s, since) ==
    {m \in ToSet(log) : m.ts > since /\ m.from # s /\ m.to \in {s, "*"}}

Check(p) == \E s \in Sessions :
    /\ At(p, "idle")
    /\ Goto(p, [at |-> "inbox", me |-> s, since |-> cursor[s]])
    /\ UNCHANGED <<clock, messageVars, lockVars, mishaps>>

ReadInbox(p) ==
    /\ At(p, "inbox")
    /\ LET s == proc[p].me
           new == Inbox(msgs, s, proc[p].since)
           newest == Max({m.ts : m \in new} \cup {proc[p].since})
       IN /\ shown' = [shown EXCEPT ![s] = @ \cup {m.n : m \in new}]
          /\ upto' = [upto EXCEPT ![s] = Max({@, newest})]
          /\ Goto(p, [at |-> "advance", me |-> s, newest |-> newest])
    /\ UNCHANGED <<clock, msgs, cursor, sent, late, lockVars, mishaps>>

\* Mutant: the cursor is taken from the log as it is now.
AdvanceToLog(p) ==
    /\ At(p, "advance")
    /\ cursor' = [cursor EXCEPT ![proc[p].me] = Max({m.ts : m \in ToSet(msgs)} \cup {proc[p].newest})]
    /\ Goto(p, Idle)
    /\ UNCHANGED <<clock, msgs, sent, shown, upto, late, lockVars, mishaps>>

Advance(p) ==
    /\ At(p, "advance")
    /\ cursor' = [cursor EXCEPT ![proc[p].me] = proc[p].newest]
    /\ Goto(p, Idle)
    /\ UNCHANGED <<clock, msgs, sent, shown, upto, late, lockVars, mishaps>>

-----------------------------------------------------------------------------
\* lock claim and release.

\* lastPerScope: the last line of a scope counts.
Latest(x) == {i \in DOMAIN leases : /\ leases[i].scope = x
                                    /\ \A j \in DOMAIN leases : leases[j].scope = x => j <= i}
Owners(x, now) == {leases[i].owner : i \in {j \in Latest(x) : now - leases[j].beat <= TTL}}

\* Mutant: a lease is stale in its last second.
GrantedInLastSecond(s, x, now) == Owners(x, now + 1) \subseteq {s}

\* resolveClaim: denied when a live lease has another owner.
Granted(s, x, now) == Owners(x, now) \subseteq {s}

Claim(p) == \E s \in Sessions, x \in Scopes :
    /\ At(p, "idle")
    /\ Len(leases) + Cardinality({q \in Procs : At(q, "claim") \/ At(q, "lease")}) < MaxLeases
    /\ Goto(p, [at |-> "claim", me |-> s, now |-> clock, scope |-> x])
    /\ UNCHANGED <<clock, messageVars, lockVars, mishaps>>

ReadLeases(p) ==
    /\ At(p, "claim")
    /\ LET me == proc[p] IN
        /\ Goto(p, IF Granted(me.me, me.scope, me.now) THEN [me EXCEPT !.at = "lease"] ELSE Idle)
        /\ mishaps' = IF \E q \in Procs \ {p} : /\ At(q, "lease") /\ proc[q].scope = me.scope
                                                /\ proc[q].me # me.me
                      THEN mishaps \cup {"claims at once"} ELSE mishaps
    /\ UNCHANGED <<clock, messageVars, lockVars>>

AppendLease(p) ==
    /\ At(p, "lease")
    /\ LET me == proc[p] IN
        /\ leases' = Append(leases, [scope |-> me.scope, owner |-> me.me, beat |-> me.now])
        /\ held' = [held EXCEPT ![me.me][me.scope] = me.now]
    /\ Goto(p, Idle)
    /\ UNCHANGED <<clock, messageVars, mishaps>>

Live(s, x) == clock - held[s][x] <= TTL
Holders(x) == {s \in Sessions : Live(s, x)}

\* A release appends a tombstone, whoever holds the scope.
Release(p) == \E s \in Sessions, x \in Scopes :
    /\ At(p, "idle")
    /\ Len(leases) + Cardinality({q \in Procs : At(q, "claim") \/ At(q, "lease")}) < MaxLeases
    /\ leases' = Append(leases, [scope |-> x, owner |-> s, beat |-> Released])
    /\ held' = [held EXCEPT ![s][x] = Released]
    /\ mishaps' = IF Holders(x) \subseteq {s} THEN mishaps ELSE mishaps \cup {"released by another"}
    /\ UNCHANGED <<clock, messageVars, proc>>

\* A command ends between two accesses; a compaction leaves the log empty.
Kill(p) ==
    /\ ~At(p, "idle")
    /\ Goto(p, Idle)
    /\ mishaps' = IF At(p, "rewrite") THEN mishaps \cup {"killed in compaction"} ELSE mishaps
    /\ UNCHANGED <<clock, messageVars, lockVars>>

Finished ==
    /\ clock = MaxClock /\ \A p \in Procs : At(p, "idle")
    /\ UNCHANGED vars

Message(p) ==
    Send(p) \/ AppendMessage(p) \/ ReadBack(p) \/ Compact(p) \/ Check(p) \/ ReadInbox(p) \/ Advance(p)
Lock(p) == Claim(p) \/ ReadLeases(p) \/ AppendLease(p) \/ Release(p)

Next ==
    \/ /\ \/ Tick
          \/ \E p \in Procs : Kill(p)
          \/ topic = "messages" /\ \E p \in Procs : Message(p)
          \/ topic = "locks" /\ \E p \in Procs : Lock(p)
       /\ UNCHANGED topic
    \/ Finished

Spec == Init /\ [][Next]_vars

-----------------------------------------------------------------------------
\* Properties

\* Types.
TypeOK ==
    /\ clock \in 1..MaxClock /\ sent \in 0..MaxSent
    /\ \A i \in DOMAIN msgs : msgs[i].n \in 1..sent /\ msgs[i].ts \in 1..clock
    /\ cursor \in [Sessions -> 0..clock] /\ upto \in [Sessions -> 0..clock]
    /\ shown \in [Sessions -> SUBSET (1..sent)] /\ late \in [Sessions -> SUBSET (1..sent)]
    /\ held \in [Sessions -> [Scopes -> {Released} \cup 1..clock]]
    /\ mishaps \subseteq {"append in compaction", "killed in compaction",
                        "claims at once", "released by another"}

\* A cursor never passes a message its check could have read: what lies unseen at
\* or before it was appended when a check had already found that second's messages
\* or newer ones.
NothingPassedOver ==
    TypeOK /\ ("append in compaction" \notin mishaps =>
        \A s \in Sessions : \A m \in Inbox(msgs, s, 0) :
            m.ts <= cursor[s] => m.n \in shown[s] \cup late[s])

\* Outside a compaction the log ends in the messages sent last, each once and in
\* order, if none was appended while a log was being rewritten and nobody was
\* killed rewriting it.
RecentKept ==
    mishaps \cap {"append in compaction", "killed in compaction"} = {} /\ (\A p \in Procs : ~Compacting(p)) =>
        LET kept == IF sent < Keep THEN sent ELSE Keep
        IN /\ Len(msgs) >= kept
           /\ \A i \in DOMAIN msgs : msgs[i].n = sent - Len(msgs) + i

\* A scope has one holder at most, and `lock list` names it, if no two claims
\* of it overlapped and nobody released what another holds.
HoldersListed ==
    mishaps \cap {"claims at once", "released by another"} = {} =>
        \A x \in Scopes : Cardinality(Holders(x)) <= 1 /\ Owners(x, clock) = Holders(x)
=============================================================================
