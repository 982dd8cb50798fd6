---------------------------- MODULE RuleDaemon ----------------------------
(***************************************************************************)
(* daemon/rule_daemon and rule_daemon_client: the per-user daemon that     *)
(* answers rule checks and hook calls over a socket (POSIX) or a pipe      *)
(* (Windows), from the spawn of a process to its exit, and the clients     *)
(* that ping, spawn, call, retry and fall back.                            *)
(*                                                                         *)
(* A daemon process is built (rules loaded), takes the singleton lock,     *)
(* creates its endpoint and serves.  POSIX serves every connection on a    *)
(* detached worker thread and the client reads until the worker closes;    *)
(* Windows serves one pipe instance and the client returns as soon as the  *)
(* reply is written.  What a reply triggers (reload, shutdown) is decided  *)
(* by looking for a marker in its text.                                    *)
(***************************************************************************)
EXTENDS Naturals, Sequences, FiniteSets

CONSTANTS
  Daemons,   \* daemon processes that may be spawned
  Clients,   \* client processes
  Platforms, \* "posix": serveSocket, "windows": servePipe
  Plan,      \* per platform and client, what it may do first, second, and so on
  Payloads,  \* per platform, what a request carries: a file name without or
             \* with a marker in it, or a hook event larger than the buffer
  MaxRules,  \* bound on the edits of the rules table
  DbCanFail, \* loadRules may find the database inaccessible
  None

Ops == {"hook", "check", "reload", "shutdown", "strict_on", "strict_off"}

ASSUME RuleDaemonAssumption ==
  /\ Platforms \subseteq {"posix", "windows"} /\ DbCanFail \in BOOLEAN
  /\ Plan \in [Platforms -> [Clients -> Seq(SUBSET Ops)]]
  /\ Payloads \in [Platforms -> SUBSET {"plain", "SHUTDOWN", "RELOADED", "large"}]
  /\ \A p \in Platforms : "plain" \in Payloads[p]
  /\ MaxRules \in Nat
  /\ None \notin Daemons

VARIABLES
  platform,  \* what the program was built for
  phase,     \* where run() of each daemon process is
  lock,      \* the process holding the singleton lock (flock / named mutex)
  path,      \* the process whose socket or pipe the well-known name denotes
  listening, \* the listening socket has not been shut down
  rules,     \* rules_: the version loaded and the strict flag
  dbRules,   \* version of the rules table
  work,      \* connections a daemon has not finished with
  pc,        \* where each client is
  op,        \* the operation a client performs, or last performed
  tries,     \* callHook: attempts made
  got,       \* the reply a client's sendRaw is about to return
  done,      \* operations a client has begun
  hookRuns,  \* history: how often the client's hook event was run
  asked,     \* history: daemons that were handed a SHUTDOWN request
  sentAt,    \* history: table version when a client sent its request
  known      \* history: per client, a daemon it reloaded and the version then

daemonVars == <<phase, lock, path, listening, rules>>
clientVars == <<pc, op, tries, done>>
vars == <<platform, phase, lock, path, listening, rules, dbRules, work, pc, op, tries,
          got, done, hookRuns, asked, sentAt, known>>

Posix == platform = "posix"

-----------------------------------------------------------------------------
(* Replies: what the client parses, and the marker the server looks for.   *)

Markers == {"plain", "SHUTDOWN", "RELOADED"}
Reply(d, action, v, text) == [d |-> d, action |-> action, v |-> v, text |-> text]
Silence == Reply(None, "none", 0, "plain") \* sendRaw returned ""
Replies == [d : Daemons \cup {None},
            action : {"none", "OK", "ALLOW", "verdict", "SHUTDOWN", "RELOADED"},
            v : 0..MaxRules, text : Markers]
NoReply == None
ASSUME NoReplyAssumption == NoReply \notin Replies

Work == [d : Daemons, c : Clients, op : Ops, payload : Payloads[platform],
         stage : {"queued", "handled", "sent", "reacted", "disconnected"},
         reply : Replies]

TypeOK ==
  /\ platform \in Platforms
  /\ phase \in [Daemons -> {"none", "built", "locked", "serving", "stopping",
                            "released", "gone"}]
  /\ lock \in Daemons \cup {None} /\ path \in Daemons \cup {None}
  /\ listening \in [Daemons -> BOOLEAN]
  /\ rules \in [Daemons -> [v : 0..MaxRules, strict : BOOLEAN]]
  /\ dbRules \in 0..MaxRules
  /\ work \subseteq Work
  /\ pc \in [Clients -> {"idle", "connect", "await", "ensure", "poll", "local"}]
  /\ op \in [Clients -> Ops \cup {"none"}]
  /\ tries \in [Clients -> 0..2]
  /\ got \in [Clients -> Replies \cup {NoReply}]
  /\ done \in [Clients -> Nat]
  /\ \A c \in Clients : done[c] \in 0..Len(Plan[platform][c])
  /\ hookRuns \in [Clients -> 0..3]
  /\ asked \subseteq Daemons
  /\ sentAt \in [Clients -> 0..MaxRules]
  /\ known \in [Clients -> [d : Daemons \cup {None}, v : 0..MaxRules]]

\* The client's read of connection w is still blocked.
Waits(c, w) == w.c = c /\ pc[c] = "await" /\ got[c] = NoReply

Init ==
  /\ platform \in Platforms
  /\ phase = [d \in Daemons |-> "none"]
  /\ lock = None /\ path = None
  /\ listening = [d \in Daemons |-> FALSE]
  /\ rules = [d \in Daemons |-> [v |-> 0, strict |-> FALSE]]
  /\ dbRules = 0
  /\ work = {}
  /\ pc = [c \in Clients |-> "idle"]
  /\ op = [c \in Clients |-> "none"]
  /\ tries = [c \in Clients |-> 0]
  /\ got = [c \in Clients |-> NoReply]
  /\ done = [c \in Clients |-> 0]
  /\ hookRuns = [c \in Clients |-> 0]
  /\ asked = {}
  /\ sentAt = [c \in Clients |-> 0]
  /\ known = [c \in Clients |-> [d |-> None, v |-> 0]]

-----------------------------------------------------------------------------
(* A daemon process, from main to exit.                                    *)

\* loadRules: built-in rules, then the table's overrides.  Either way the strict
\* flag of every rule starts over.
LoadedRules ==
  {[v |-> dbRules, strict |-> FALSE]}
    \cup (IF DbCanFail THEN {[v |-> 0, strict |-> FALSE]} ELSE {})

\* The constructor loads the rules, before run() looks for the lock.
Spawn(d) ==
  /\ phase[d] = "none"
  /\ phase' = [phase EXCEPT ![d] = "built"]
  /\ \E r \in LoadedRules : rules' = [rules EXCEPT ![d] = r]

\* `rule-daemon start`, `rule-daemon run`, or icmg-service embedding the daemon.
Start(d) ==
  /\ Spawn(d)
  /\ UNCHANGED <<lock, path, listening, dbRules, work, got, hookRuns, asked,
                 sentAt, known>> /\ UNCHANGED clientVars

AcquireSingletonUnchecked(d) == \* mutant: the lock's result is ignored
  /\ phase[d] = "built"
  /\ lock' = d
  /\ phase' = [phase EXCEPT ![d] = "locked"]
  /\ UNCHANGED <<path, listening, rules, dbRules, work, got, hookRuns, asked,
                 sentAt, known>> /\ UNCHANGED clientVars

AcquireSingletonUnlinksFirst(d) == \* mutant: the stale socket goes first
  /\ phase[d] = "built"
  /\ path' = None
  /\ \/ lock = None /\ lock' = d /\ phase' = [phase EXCEPT ![d] = "locked"]
     \/ lock # None /\ phase' = [phase EXCEPT ![d] = "gone"] /\ UNCHANGED lock
  /\ UNCHANGED <<listening, rules, dbRules, work, got, hookRuns, asked,
                 sentAt, known>> /\ UNCHANGED clientVars

AcquireSingleton(d) ==
  /\ phase[d] = "built"
  /\ \/ /\ lock = None
        /\ lock' = d
        /\ phase' = [phase EXCEPT ![d] = "locked"]
     \/ /\ lock # None \* "another instance already running for this user"
        /\ phase' = [phase EXCEPT ![d] = "gone"]
        /\ UNCHANGED lock
  /\ UNCHANGED <<path, listening, rules, dbRules, work, got, hookRuns, asked,
                 sentAt, known>> /\ UNCHANGED clientVars

\* A Windows pipe name belongs to whoever still has the handle open; a POSIX
\* path is unlinked and bound afresh, whoever it named.
NameTaken(d) == ~Posix /\ path \notin {None, d}

CreateEndpoint(d) ==
  /\ phase[d] = "locked"
  /\ \/ /\ ~NameTaken(d)
        /\ path' = d
        /\ listening' = [listening EXCEPT ![d] = TRUE]
        /\ phase' = [phase EXCEPT ![d] = "serving"]
        /\ UNCHANGED lock
     \/ /\ NameTaken(d) \* "failed to create pipe"
        /\ lock' = None
        /\ phase' = [phase EXCEPT ![d] = "gone"]
        /\ UNCHANGED <<path, listening>>
  /\ UNCHANGED <<rules, dbRules, work, got, hookRuns, asked, sentAt,
                 known>> /\ UNCHANGED clientVars

\* run() after the serve loop: join the maintenance thread, give the lock back.
Release(d) ==
  /\ phase[d] = "stopping"
  /\ phase' = [phase EXCEPT ![d] = "released"]
  /\ lock' = None
  /\ UNCHANGED <<path, listening, rules, dbRules, work, got, hookRuns, asked,
                 sentAt, known>> /\ UNCHANGED clientVars

\* The process exits; the destructor closes the endpoint.
Exit(d) ==
  /\ phase[d] = "released"
  /\ phase' = [phase EXCEPT ![d] = "gone"]
  /\ listening' = [listening EXCEPT ![d] = FALSE]
  /\ path' = IF ~Posix /\ path = d THEN None ELSE path
  /\ UNCHANGED <<lock, rules, dbRules, work, got, hookRuns, asked, sentAt, known>> /\ UNCHANGED clientVars

\* The process is killed: the system drops its lock and its connections; a
\* client that was sent bytes returns them, the others read end-of-file.  (A
\* process that holds nothing yet may as well not have been started.)
Kill(d) ==
  /\ phase[d] \notin {"none", "built", "gone"}
  /\ phase' = [phase EXCEPT ![d] = "gone"]
  /\ lock' = IF lock = d THEN None ELSE lock
  /\ listening' = [listening EXCEPT ![d] = FALSE]
  /\ path' = IF ~Posix /\ path = d THEN None ELSE path
  /\ got' = [c \in Clients |->
       IF ~ \E w \in work : w.d = d /\ Waits(c, w) THEN got[c]
       ELSE LET w == CHOOSE w \in work : w.d = d /\ w.c = c
            IN IF w.stage \in {"sent", "reacted"} THEN w.reply ELSE Silence]
  /\ work' = {w \in work : w.d # d}
  /\ UNCHANGED <<rules, dbRules, hookRuns, asked, sentAt, known>>
  /\ UNCHANGED clientVars

\* Somebody edits the rules table.
EditRules ==
  /\ dbRules < MaxRules
  /\ dbRules' = dbRules + 1
  /\ UNCHANGED <<work, got, hookRuns, asked, sentAt, known>>
  /\ UNCHANGED daemonVars /\ UNCHANGED clientVars

-----------------------------------------------------------------------------
(* One connection: receive and dispatch, write the reply, react to it.     *)

\* dispatch: a request cut off by the receive buffer does not parse and is
\* answered ALLOW.  A check quotes the file's name when a rule fires, by its
\* length or because it is strict.
Answers(w) ==
  LET r == rules[w.d]
      plain(action) == Reply(w.d, action, r.v, "plain")
  IN CASE w.payload = "large" -> {plain("ALLOW")}
       [] w.op = "check" -> {Reply(w.d, "verdict", r.v, t) :
            t \in IF r.strict THEN {w.payload} ELSE {w.payload, "plain"}}
       [] w.op = "reload"   -> {Reply(w.d, "RELOADED", r.v, "RELOADED")}
       [] w.op = "shutdown" -> {Reply(w.d, "SHUTDOWN", r.v, "SHUTDOWN")}
       [] OTHER -> {plain("OK")}

SetsStrict(w) == w.op \in {"strict_on", "strict_off"}

Handle(w) ==
  /\ w.stage = "queued"
  /\ phase[w.d] = "serving"
  /\ \E a \in Answers(w) :
       work' = (work \ {w}) \cup {[w EXCEPT !.stage = "handled", !.reply = a]}
  /\ hookRuns' = IF w.op = "hook" /\ w.payload # "large"
                 THEN [hookRuns EXCEPT ![w.c] = @ + 1] ELSE hookRuns
  /\ asked' = IF w.op = "shutdown" THEN asked \cup {w.d} ELSE asked
  /\ IF SetsStrict(w)
     THEN rules' = [rules EXCEPT ![w.d].strict = (w.op = "strict_on")]
     ELSE UNCHANGED rules
  /\ UNCHANGED <<phase, lock, path, listening, dbRules, got, sentAt, known>>
  /\ UNCHANGED clientVars

Send(w) ==
  /\ w.stage = "handled"
  /\ work' = (work \ {w}) \cup {[w EXCEPT !.stage = "sent"]}
  /\ UNCHANGED <<dbRules, got, hookRuns, asked, sentAt, known>>
  /\ UNCHANGED daemonVars /\ UNCHANGED clientVars

ReactNeverBreaks(w, next) == \* mutant: the pipe loop goes on after SHUTDOWN
  /\ work' = (work \ {w}) \cup next
  /\ IF w.reply.text = "RELOADED"
     THEN \E r \in LoadedRules : rules' = [rules EXCEPT ![w.d] = r]
     ELSE UNCHANGED rules
  /\ UNCHANGED <<phase, listening>>

\* The marker decides.  SHUTDOWN shuts the listening socket down, and the
\* accept loop goes on; or breaks out of the pipe's loop.
React(w, next) ==
  /\ work' = (work \ {w}) \cup next
  /\ IF w.reply.text = "RELOADED"
     THEN \E r \in LoadedRules : rules' = [rules EXCEPT ![w.d] = r]
     ELSE UNCHANGED rules
  /\ IF w.reply.text = "SHUTDOWN"
     THEN IF Posix THEN listening' = [listening EXCEPT ![w.d] = FALSE] /\ UNCHANGED phase
                   ELSE phase' = [phase EXCEPT ![w.d] = "stopping"] /\ UNCHANGED listening
     ELSE UNCHANGED <<phase, listening>>

ReactPosix(w) ==
  /\ Posix
  /\ w.stage = "sent"
  /\ React(w, {[w EXCEPT !.stage = "reacted"]})
  /\ UNCHANGED <<lock, path, dbRules, got, hookRuns, asked, sentAt, known>>
  /\ UNCHANGED clientVars

ReactWindows(w) ==
  /\ ~Posix
  /\ w.stage = "disconnected"
  /\ React(w, {})
  /\ UNCHANGED <<lock, path, dbRules, got, hookRuns, asked, sentAt, known>>
  /\ UNCHANGED clientVars

ClosePosixNotAfterShutdown(w) == \* mutant: the worker returns without close()
  /\ w.stage = "reacted"
  /\ work' = work \ {w}
  /\ got' = IF w.reply.text = "SHUTDOWN" THEN got ELSE [got EXCEPT ![w.c] = w.reply]

ClosePosixBeforeReacting(w) == \* mutant: the connection is closed first
  /\ w.stage \in {"sent", "reacted"}
  /\ work' = IF w.stage = "sent" THEN work ELSE work \ {w}
  /\ got' = IF w.stage = "sent" THEN [got EXCEPT ![w.c] = w.reply] ELSE got

\* close(client): only now does the client's read loop end.
ClosePosix(w) ==
  /\ w.stage = "reacted"
  /\ work' = work \ {w}
  /\ got' = [got EXCEPT ![w.c] = w.reply]

Close(w) ==
  /\ ClosePosix(w)
  /\ UNCHANGED <<dbRules, hookRuns, asked, sentAt, known>>
  /\ UNCHANGED daemonVars /\ UNCHANGED clientVars

\* DisconnectNamedPipe, without a flush: a reply not read yet is discarded.
Disconnect(w) ==
  /\ ~Posix
  /\ w.stage = "sent"
  /\ work' = (work \ {w}) \cup {[w EXCEPT !.stage = "disconnected"]}
  /\ got' = IF Waits(w.c, w) THEN [got EXCEPT ![w.c] = Silence] ELSE got
  /\ UNCHANGED <<dbRules, hookRuns, asked, sentAt, known>>
  /\ UNCHANGED daemonVars /\ UNCHANGED clientVars

-----------------------------------------------------------------------------
(* A client process.                                                       *)

\* A POSIX worker takes each connection; a Windows pipe instance is busy until
\* the loop comes back to ConnectNamedPipe.
Accepting(d) ==
  /\ path = d
  /\ phase[d] = "serving" /\ listening[d]
  /\ Posix \/ ~ \E w \in work : w.d = d

\* Other processes' pings make a Windows pipe busy too.
MayFail == ~Posix \/ ~ \E d \in Daemons : Accepting(d)

Begin(c) ==
  /\ pc[c] = "idle"
  /\ done[c] < Len(Plan[platform][c])
  /\ done' = [done EXCEPT ![c] = @ + 1]
  /\ \E o \in Plan[platform][c][done[c] + 1] : op' = [op EXCEPT ![c] = o]
  /\ pc' = [pc EXCEPT ![c] = "connect"]
  /\ tries' = [tries EXCEPT ![c] = 1]
  /\ hookRuns' = [hookRuns EXCEPT ![c] = 0]
  /\ UNCHANGED <<dbRules, work, got, asked, sentAt, known>>
  /\ UNCHANGED daemonVars

\* A file name matters to a check, the size to a hook event.
PayloadsOf(o) == CASE o = "check" -> Payloads[platform] \ {"large"}
                   [] o = "hook" -> Payloads[platform] \cap {"plain", "large"}
                   [] OTHER -> {"plain"}

\* sendRaw, up to the blocking read.
Connect(c) ==
  /\ pc[c] = "connect"
  /\ pc' = [pc EXCEPT ![c] = "await"]
  /\ sentAt' = [sentAt EXCEPT ![c] = dbRules]
  /\ \/ /\ \E d \in Daemons, p \in PayloadsOf(op[c]) :
             /\ Accepting(d)
             /\ work' = work \cup {[d |-> d, c |-> c, op |-> op[c], payload |-> p,
                                    stage |-> "queued", reply |-> Silence]}
        /\ got' = [got EXCEPT ![c] = NoReply]
     \/ /\ MayFail
        /\ got' = [got EXCEPT ![c] = Silence]
        /\ UNCHANGED work
  /\ UNCHANGED <<op, tries, done, dbRules, hookRuns, asked, known>>
  /\ UNCHANGED daemonVars

\* A Windows client's ReadFile completes as soon as there is a message.
Read(c) ==
  /\ ~Posix
  /\ \E w \in work : /\ Waits(c, w) /\ w.stage = "sent"
                     /\ got' = [got EXCEPT ![c] = w.reply]
  /\ UNCHANGED <<dbRules, work, hookRuns, asked, sentAt, known>>
  /\ UNCHANGED daemonVars /\ UNCHANGED clientVars

AfterAttemptGivesUp(c) == \* mutant: the second failure counts as success
  IF op[c] # "hook" \/ got[c].action = "OK" \/ tries[c] = 2 THEN "idle"
  ELSE "ensure"

\* callHook accepts only an OK, retries once, and leaves the rest to its
\* caller; every other call has one attempt and no answer means ALLOW.
AfterAttempt(c) ==
  IF op[c] # "hook" \/ got[c].action = "OK" THEN "idle"
  ELSE IF tries[c] = 1 THEN "ensure" ELSE "local"

Return(c) ==
  /\ pc[c] = "await"
  /\ got[c] # NoReply
  /\ pc' = [pc EXCEPT ![c] = AfterAttempt(c)]
  /\ known' = IF op[c] = "reload" /\ got[c] # Silence
              THEN [known EXCEPT ![c] = [d |-> got[c].d, v |-> sentAt[c]]]
              ELSE known
  /\ UNCHANGED <<op, tries, done, dbRules, work, got, hookRuns, asked, sentAt>>
  /\ UNCHANGED daemonVars

\* ensureDaemon found the daemon alive: the second attempt.
Alive(c) ==
  /\ pc[c] \in {"ensure", "poll"}
  /\ \E d \in Daemons : Accepting(d)
  /\ pc' = [pc EXCEPT ![c] = "connect"]
  /\ tries' = [tries EXCEPT ![c] = 2]
  /\ UNCHANGED <<op, done, dbRules, work, got, hookRuns, asked, sentAt, known>>
  /\ UNCHANGED daemonVars

\* `icmg rule-daemon start`: pings again before it starts a process.
StartByClient(c) ==
  /\ pc[c] = "ensure"
  /\ MayFail
  /\ pc' = [pc EXCEPT ![c] = "poll"]
  /\ \/ \E d \in Daemons : Spawn(d)
     \/ /\ \A d \in Daemons : phase[d] # "none" \* the bound on processes
        /\ UNCHANGED <<phase, rules>>
     \/ /\ \E d \in Daemons : Accepting(d)
        /\ UNCHANGED <<phase, rules>>
  /\ UNCHANGED <<lock, path, listening, op, tries, done, dbRules, work, got,
                 hookRuns, asked, sentAt, known>>

\* Ten pings, 50 ms apart, went unanswered.
PollTimesOut(c) ==
  /\ pc[c] = "poll"
  /\ pc' = [pc EXCEPT ![c] = "local"]
  /\ UNCHANGED <<op, tries, done, dbRules, work, got, hookRuns, asked, sentAt, known>>
  /\ UNCHANGED daemonVars

\* cmdStop, cmdPreCompact, cmdPostToolUseRead: the inline runner.
RunLocal(c) ==
  /\ pc[c] = "local"
  /\ pc' = [pc EXCEPT ![c] = "idle"]
  /\ hookRuns' = [hookRuns EXCEPT ![c] = @ + 1]
  /\ UNCHANGED <<op, tries, done, dbRules, work, got, asked, sentAt, known>>
  /\ UNCHANGED daemonVars

-----------------------------------------------------------------------------
DaemonStep(d) ==
  Start(d) \/ AcquireSingleton(d) \/ CreateEndpoint(d) \/ Release(d) \/ Exit(d) \/ Kill(d)

ServerStep(w) == Handle(w) \/ Send(w) \/ ReactPosix(w) \/ Close(w)
                 \/ Disconnect(w) \/ ReactWindows(w)

ClientStep(c) == Connect(c) \/ Read(c) \/ Return(c) \/ Alive(c)
                 \/ StartByClient(c) \/ PollTimesOut(c) \/ RunLocal(c)

Step ==
  \/ \E d \in Daemons : DaemonStep(d)
  \/ \E w \in work : ServerStep(w)
  \/ \E c \in Clients : Begin(c) \/ ClientStep(c)
  \/ EditRules

Next == Step /\ UNCHANGED platform

Spec == Init /\ [][Next]_vars

\* Threads and processes that can run get to; nobody has to start a daemon,
\* begin an operation, edit the table or kill a process.
Fairness ==
  /\ \A d \in Daemons :
       /\ WF_vars((AcquireSingleton(d) \/ CreateEndpoint(d)) /\ UNCHANGED platform)
       /\ WF_vars((Release(d) \/ Exit(d)) /\ UNCHANGED platform)
  /\ \A c \in Clients :
       /\ WF_vars((\E w \in work : w.c = c /\ ServerStep(w)) /\ UNCHANGED platform)
       /\ WF_vars(ClientStep(c) /\ UNCHANGED platform)

FairSpec == Spec /\ Fairness

-----------------------------------------------------------------------------
(* Properties.                                                             *)

\* At most one process is past the singleton lock and before giving it back
\* (rule_daemon.hpp, "per-user singleton guard").
SingleServer ==
  \A d, e \in Daemons :
    {phase[d], phase[e]} \subseteq {"locked", "serving", "stopping"} => d = e

\* The daemon that serves is the one clients reach: no other process unlinks its
\* socket or takes its pipe's name.
ServerKeepsItsName == \A d \in Daemons : phase[d] = "serving" => path = d

\* Whatever was lost on the way, a hook event whose command has ended was run,
\* by a daemon or by the command itself (hook_cmd.cpp, cmdStop and the like).
HookHandled ==
  /\ TypeOK
  /\ \A c \in Clients : pc[c] = "idle" /\ op[c] = "hook" => hookRuns[c] >= 1

\* Once `reload` has returned, no check by that client is judged by an older
\* table: the server reloads only after it has written its reply, so what keeps
\* this true is that the connection is not closed (POSIX) or not accepted anew
\* (Windows) before it has.
ReloadVisible ==
  \A c \in Clients :
    (/\ op[c] = "check" /\ got[c] # NoReply
     /\ got[c].action = "verdict" /\ got[c].d = known[c].d)
       => got[c].v >= known[c].v

\* Every command ends: no client waits for a daemon forever.
CallsReturn == \A c \in Clients : pc[c] # "idle" ~> pc[c] = "idle"

\* A daemon that was handed SHUTDOWN gets out of run() and its process ends
\* ("Returns on SHUTDOWN command or signal", rule_daemon.hpp): servePipe() does.
PipeShutdownStops ==
  (~Posix /\ asked # {}) ~> \A d \in asked : phase[d] = "gone"
=============================================================================
