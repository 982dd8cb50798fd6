------------------------- MODULE RuleDaemonProofs -------------------------
(***************************************************************************)
(* Proofs about RuleDaemon, for any number of processes and clients, on    *)
(* either platform.                                                        *)
(*                                                                         *)
(* A process between taking the lock and giving it back is the lock's      *)
(* holder, so there is one of them and nobody else creates an endpoint.    *)
(* That a Windows daemon leaves its loop only from "serving" needs more:   *)
(* the pipe serves one connection at a time, so the connection whose reply *)
(* ended the loop was the only one.                                        *)
(***************************************************************************)
EXTENDS RuleDaemon, TLAPS

USE DEF Posix

Phases == {"none", "built", "locked", "serving", "stopping", "released", "gone"}
Holding == {"locked", "serving", "stopping"}

PhaseType == phase \in [Daemons -> Phases]

LockHeld == \A d \in Daemons : phase[d] \in Holding => lock = d

\* Only a serving daemon has connections.
WorkServed ==
  \A w \in work : /\ "d" \in DOMAIN w
                  /\ w.d \in Daemons
                  /\ phase[w.d] = "serving"

Serial == ~Posix => \A v, w \in work : v.d = w.d => v = w

IInv == PhaseType /\ LockHeld /\ ServerKeepsItsName /\ WorkServed /\ Serial

-----------------------------------------------------------------------------
\* A step that leaves the processes alone and replaces a connection by one of
\* the same daemon, or none, keeps the invariant.
LEMMA ReplaceKeeps ==
  ASSUME IInv, UNCHANGED platform, UNCHANGED <<phase, lock, path>>,
         NEW w \in work, NEW s,
         work' = (work \ {w}) \cup {[w EXCEPT !.stage = s]}
  PROVE  IInv'
<1>1. /\ "d" \in DOMAIN [w EXCEPT !.stage = s]
      /\ [w EXCEPT !.stage = s].d = w.d
  BY DEF IInv, WorkServed
<1>2. WorkServed'
  BY <1>1 DEF IInv, WorkServed
<1>3. Serial'
  BY <1>1 DEF IInv, Serial
<1> QED
  BY <1>2, <1>3 DEF IInv, PhaseType, LockHeld, ServerKeepsItsName

\* The same where a connection ends.
LEMMA RemoveKeeps ==
  ASSUME IInv, UNCHANGED platform, UNCHANGED <<phase, lock, path>>, work' \subseteq work
  PROVE  IInv'
BY DEF IInv, PhaseType, LockHeld, ServerKeepsItsName, WorkServed, Serial

\* A process that holds nothing and moves where it still holds nothing.
LEMMA IdleProcessKeeps ==
  ASSUME IInv, UNCHANGED platform, NEW d \in Daemons, phase[d] \notin {"locked", "serving", "stopping"},
         NEW p \in Phases \ Holding, phase' = [phase EXCEPT ![d] = p],
         UNCHANGED <<lock, work>>,
         path' = path \/ (path = d /\ path' = None)
  PROVE  IInv'
<1>1. /\ PhaseType'
      /\ \A e \in Daemons : phase'[e] = IF e = d THEN p ELSE phase[e]
  BY DEF IInv, PhaseType
<1>2. LockHeld' /\ ServerKeepsItsName'
  BY <1>1 DEF IInv, LockHeld, ServerKeepsItsName, Holding
<1>3. WorkServed' /\ Serial'
  BY <1>1 DEF IInv, WorkServed, Serial
<1> QED
  BY <1>1, <1>2, <1>3 DEF IInv

-----------------------------------------------------------------------------
LEMMA InitInv == Init => IInv
BY DEF Init, IInv, PhaseType, Phases, LockHeld, Holding, ServerKeepsItsName,
       WorkServed, Serial

LEMMA AcquireKeeps ==
  ASSUME IInv, UNCHANGED platform, NEW d \in Daemons, AcquireSingleton(d)
  PROVE  IInv'
<1> USE RuleDaemonAssumption DEF IInv, PhaseType, AcquireSingleton
<1>1. CASE lock # None
  <2>1. "gone" \in Phases \ Holding
    BY DEF Phases, Holding
  <2> QED
    BY <1>1, <2>1, IdleProcessKeeps
<1>2. CASE lock = None
  <2>1. \A e \in Daemons : phase[e] \notin Holding
    BY <1>2 DEF LockHeld
  <2>2. /\ lock' = d
        /\ PhaseType'
        /\ \A e \in Daemons : phase'[e] = IF e = d THEN "locked" ELSE phase[e]
    BY <1>2 DEF Phases
  <2>3. LockHeld' /\ ServerKeepsItsName'
    BY <2>1, <2>2 DEF LockHeld, ServerKeepsItsName
  <2>4. WorkServed' /\ Serial'
    BY <2>2 DEF WorkServed, Serial
  <2> QED
    BY <2>2, <2>3, <2>4
<1> QED
  BY <1>1, <1>2

LEMMA CreateKeeps ==
  ASSUME IInv, UNCHANGED platform, NEW d \in Daemons, CreateEndpoint(d)
  PROVE  IInv'
<1> USE DEF IInv, PhaseType, CreateEndpoint
<1>0. lock = d /\ \A e \in Daemons : phase[e] \in Holding => e = d
  BY DEF LockHeld, Holding
<1>1. CASE ~NameTaken(d)
  <2>1. /\ lock' = d /\ path' = d
        /\ PhaseType'
        /\ \A e \in Daemons : phase'[e] = IF e = d THEN "serving" ELSE phase[e]
    BY <1>0, <1>1 DEF Phases
  <2>2. LockHeld' /\ ServerKeepsItsName'
    BY <1>0, <2>1 DEF LockHeld, ServerKeepsItsName, Holding
  <2>3. WorkServed' /\ Serial'
    BY <2>1 DEF WorkServed, Serial
  <2> QED
    BY <2>1, <2>2, <2>3
<1>2. CASE NameTaken(d)
  <2>1. /\ path' = path
        /\ PhaseType'
        /\ \A e \in Daemons : phase'[e] = IF e = d THEN "gone" ELSE phase[e]
    BY <1>2 DEF Phases
  <2>2. LockHeld' /\ ServerKeepsItsName'
    BY <1>0, <2>1 DEF LockHeld, ServerKeepsItsName, Holding
  <2>3. WorkServed' /\ Serial'
    BY <2>1 DEF WorkServed, Serial
  <2> QED
    BY <2>1, <2>2, <2>3
<1> QED
  BY <1>1, <1>2

LEMMA ReleaseKeeps ==
  ASSUME IInv, UNCHANGED platform, NEW d \in Daemons, Release(d)
  PROVE  IInv'
<1> USE DEF IInv, PhaseType, Release
<1>1. /\ path' = path /\ work' = work
      /\ PhaseType'
      /\ \A e \in Daemons : phase'[e] = IF e = d THEN "released" ELSE phase[e]
  BY DEF Phases
<1>2. \A e \in Daemons : phase[e] \in Holding => e = d
  BY DEF LockHeld, Holding
<1>3. LockHeld' /\ ServerKeepsItsName'
  BY <1>1, <1>2 DEF LockHeld, ServerKeepsItsName, Holding
<1>4. WorkServed' /\ Serial'
  BY <1>1 DEF WorkServed, Serial
<1> QED
  BY <1>1, <1>3, <1>4

LEMMA KillKeeps ==
  ASSUME IInv, UNCHANGED platform, NEW d \in Daemons, Kill(d)
  PROVE  IInv'
<1> USE DEF IInv, PhaseType
<1>1. /\ PhaseType'
      /\ \A e \in Daemons : phase'[e] = IF e = d THEN "gone" ELSE phase[e]
      /\ lock' = IF lock = d THEN None ELSE lock
      /\ path' = path \/ (path = d /\ path' = None)
      /\ work' = {w \in work : w.d # d}
  BY DEF Kill, Phases
<1>2. LockHeld' /\ ServerKeepsItsName'
  BY <1>1 DEF LockHeld, ServerKeepsItsName, Holding
<1>3. WorkServed' /\ Serial'
  BY <1>1 DEF WorkServed, Serial
<1> QED
  BY <1>1, <1>2, <1>3

\* The reply that breaks the pipe's loop belongs to the only connection.
LEMMA ReactWindowsKeeps ==
  ASSUME IInv, UNCHANGED platform, ~Posix, NEW w \in work, ReactWindows(w)
  PROVE  IInv'
<1> USE DEF IInv, PhaseType
<1>1. work' = work \ {w} /\ UNCHANGED <<lock, path>>
  BY DEF ReactWindows, React
<1>2. CASE UNCHANGED phase
  BY <1>1, <1>2, RemoveKeeps
<1>3. CASE phase' = [phase EXCEPT ![w.d] = "stopping"]
  <2>1. w.d \in Daemons /\ phase[w.d] = "serving"
    BY DEF WorkServed
  <2>2. /\ PhaseType'
        /\ \A e \in Daemons : phase'[e] = IF e = w.d THEN "stopping" ELSE phase[e]
    BY <1>3, <2>1 DEF Phases
  <2>3. LockHeld' /\ ServerKeepsItsName'
    BY <1>1, <2>1, <2>2 DEF LockHeld, ServerKeepsItsName, Holding
  <2>4. \A v \in work' : v \in work /\ v.d # w.d
    BY <1>1 DEF Serial
  <2>5. WorkServed' /\ Serial'
    BY <2>2, <2>4 DEF WorkServed, Serial
  <2> QED
    BY <2>2, <2>3, <2>5
<1> QED
  BY <1>2, <1>3 DEF ReactWindows, React

LEMMA ConnectKeeps ==
  ASSUME IInv, UNCHANGED platform, NEW c \in Clients, Connect(c)
  PROVE  IInv'
<1>1. UNCHANGED <<phase, lock, path>>
  BY DEF Connect, daemonVars
<1>2. CASE UNCHANGED work
  BY <1>1, <1>2, RemoveKeeps
<1>3. CASE \E d \in Daemons, p \in PayloadsOf(op[c]) :
             /\ Accepting(d)
             /\ work' = work \cup {[d |-> d, c |-> c, op |-> op[c], payload |-> p,
                                    stage |-> "queued", reply |-> Silence]}
  <2>1. PICK d \in Daemons, p \in PayloadsOf(op[c]) :
             /\ Accepting(d)
             /\ work' = work \cup {[d |-> d, c |-> c, op |-> op[c], payload |-> p,
                                    stage |-> "queued", reply |-> Silence]}
    BY <1>3
  <2> DEFINE new == [d |-> d, c |-> c, op |-> op[c], payload |-> p,
                     stage |-> "queued", reply |-> Silence]
  <2>2. "d" \in DOMAIN new /\ new.d = d /\ phase[d] = "serving"
    BY <2>1 DEF Accepting
  <2>3. ~Posix => \A w \in work : w.d # d
    BY <2>1 DEF Accepting
  <2> HIDE DEF new
  <2>4. work' = work \cup {new}
    BY <2>1 DEF new
  <2>5. WorkServed' /\ Serial'
    BY <1>1, <2>2, <2>3, <2>4 DEF IInv, WorkServed, Serial
  <2> QED
    BY <1>1, <2>5 DEF IInv, PhaseType, LockHeld, ServerKeepsItsName
<1> QED
  BY <1>2, <1>3 DEF Connect

\* Spawning, by hand or by a client, gives a process that holds nothing.
LEMMA SpawnKeeps ==
  ASSUME IInv, UNCHANGED platform, NEW d \in Daemons, Spawn(d), UNCHANGED <<lock, path, work>>
  PROVE  IInv'
<1>1. "built" \in Phases \ Holding
  BY DEF Phases, Holding
<1> QED
  BY <1>1, IdleProcessKeeps DEF Spawn

LEMMA ProcessStepKeeps ==
  ASSUME IInv, UNCHANGED platform, NEW d \in Daemons, DaemonStep(d)
  PROVE  IInv'
<1>1. CASE Start(d)
  BY <1>1, SpawnKeeps DEF Start
<1>2. CASE Exit(d)
  <2>1. "gone" \in Phases \ Holding
    BY DEF Phases, Holding
  <2> QED
    BY <1>2, <2>1, IdleProcessKeeps DEF Exit
<1> QED
  BY <1>1, <1>2, AcquireKeeps, CreateKeeps, ReleaseKeeps, KillKeeps DEF DaemonStep

LEMMA ServerStepKeeps ==
  ASSUME IInv, UNCHANGED platform, NEW w \in work, ServerStep(w)
  PROVE  IInv'
<1>1. CASE Handle(w)
  <2>1. PICK a \in Answers(w) :
          work' = (work \ {w}) \cup {[w EXCEPT !.stage = "handled", !.reply = a]}
    BY <1>1 DEF Handle
  <2> DEFINE new == [w EXCEPT !.stage = "handled", !.reply = a]
  <2>2. "d" \in DOMAIN new /\ new.d = w.d
    BY DEF IInv, WorkServed
  <2>3. UNCHANGED <<phase, lock, path>>
    BY <1>1 DEF Handle
  <2> HIDE DEF new
  <2>4. work' = (work \ {w}) \cup {new}
    BY <2>1 DEF new
  <2>5. WorkServed' /\ Serial'
    BY <2>2, <2>3, <2>4 DEF IInv, WorkServed, Serial
  <2> QED
    BY <2>3, <2>5 DEF IInv, PhaseType, LockHeld, ServerKeepsItsName
<1>2. CASE Send(w)
  BY <1>2, ReplaceKeeps DEF Send, daemonVars
<1>3. CASE ReactPosix(w)
  BY <1>3, ReplaceKeeps DEF ReactPosix, React
<1>4. CASE Close(w)
  BY <1>4, RemoveKeeps DEF Close, ClosePosix, daemonVars
<1>5. CASE Disconnect(w)
  BY <1>5, ReplaceKeeps DEF Disconnect, daemonVars
<1>6. CASE ReactWindows(w)
  BY <1>6, ReactWindowsKeeps DEF ReactWindows
<1> QED
  BY <1>1, <1>2, <1>3, <1>4, <1>5, <1>6 DEF ServerStep

LEMMA ClientStepKeeps ==
  ASSUME IInv, UNCHANGED platform, NEW c \in Clients, Begin(c) \/ ClientStep(c)
  PROVE  IInv'
<1>1. CASE Connect(c)
  BY <1>1, ConnectKeeps
<1>2. CASE StartByClient(c)
  BY <1>2, SpawnKeeps, RemoveKeeps DEF StartByClient
<1>3. CASE Begin(c) \/ Read(c) \/ Return(c) \/ Alive(c) \/ PollTimesOut(c) \/ RunLocal(c)
  BY <1>3, RemoveKeeps DEF Begin, Read, Return, Alive, PollTimesOut, RunLocal, daemonVars
<1> QED
  BY <1>1, <1>2, <1>3 DEF ClientStep

LEMMA NextInv == IInv /\ [Next]_vars => IInv'
<1> SUFFICES ASSUME IInv, [Next]_vars PROVE IInv'
  OBVIOUS
<1>0. UNCHANGED platform
  BY DEF Next, vars
<1>1. CASE EditRules
  BY <1>0, <1>1, RemoveKeeps DEF EditRules, daemonVars
<1>2. CASE UNCHANGED vars
  BY <1>2, RemoveKeeps DEF vars
<1> QED
  BY <1>0, <1>1, <1>2, ProcessStepKeeps, ServerStepKeeps, ClientStepKeeps DEF Next, Step

-----------------------------------------------------------------------------
\* The invariant holds throughout every behaviour of daemons and clients.
THEOREM Invariance == Spec => []IInv
BY InitInv, NextInv, PTL DEF Spec

\* However many processes are spawned, killed and restarted, at most one is past
\* the singleton lock.
THEOREM OneServer == Spec => []SingleServer
<1>1. IInv => SingleServer
  BY DEF IInv, LockHeld, Holding, SingleServer
<1> QED
  BY <1>1, Invariance, PTL

\* A daemon that serves is the one its name leads to.
THEOREM ServerReachable == Spec => []ServerKeepsItsName
BY Invariance, PTL DEF IInv

-----------------------------------------------------------------------------
LEMMA WorkFields ==
  ASSUME NEW w \in Work
  PROVE  /\ w.d \in Daemons /\ w.c \in Clients /\ w.op \in Ops /\ w.reply \in Replies
BY DEF Work

\* Only a hook event is larger than the receive buffer, and only a check carries a name.
Sized(w) == /\ w.payload = "large" => w.op = "hook"
            /\ w.op = "reload" => w.payload = "plain"

\* What a request is answered.
LEMMA AnswersTyped ==
  ASSUME TypeOK, NEW w \in Work, Sized(w), NEW a \in Answers(w)
  PROVE  /\ a \in Replies
         /\ a.d = w.d
         /\ a.v = rules[w.d].v
         /\ a.action = "OK" => w.payload # "large"
         /\ a.action = "verdict" => w.op = "check"
         /\ w.op = "reload" => a.action = "RELOADED" /\ a.text = "RELOADED"
<1> DEFINE r == rules[w.d]
<1>1. w.d \in Daemons /\ w.op \in Ops /\ w.payload \in {"plain", "SHUTDOWN", "RELOADED", "large"}
  <2>1. platform \in Platforms /\ w.payload \in Payloads[platform]
    BY DEF TypeOK, Work
  <2> QED
    BY <2>1, WorkFields, RuleDaemonAssumption
<1>2. r \in [v : 0..MaxRules, strict : BOOLEAN] /\ r.v \in 0..MaxRules
  BY <1>1 DEF TypeOK
<1>3. \/ w.payload = "large" /\ w.op = "hook" /\ a = Reply(w.d, "ALLOW", r.v, "plain")
      \/ /\ w.payload # "large" /\ w.op = "check"
         /\ \E t \in {w.payload, "plain"} : a = Reply(w.d, "verdict", r.v, t)
      \/ w.payload # "large" /\ w.op = "reload" /\ a = Reply(w.d, "RELOADED", r.v, "RELOADED")
      \/ w.payload # "large" /\ w.op = "shutdown" /\ a = Reply(w.d, "SHUTDOWN", r.v, "SHUTDOWN")
      \/ /\ w.payload # "large" /\ w.op \notin {"check", "reload"}
         /\ a = Reply(w.d, "OK", r.v, "plain")
  <2>1. CASE w.payload = "large"
    BY <2>1 DEF Answers, Sized
  <2>2. CASE w.payload # "large" /\ w.op = "check"
    BY <2>2 DEF Answers
  <2>3. CASE w.payload # "large" /\ w.op = "reload"
    BY <2>3 DEF Answers
  <2>4. CASE w.payload # "large" /\ w.op = "shutdown"
    BY <2>4 DEF Answers
  <2>5. CASE w.payload # "large" /\ w.op \notin {"check", "reload", "shutdown"}
    BY <2>5 DEF Answers
  <2> QED
    BY <2>1, <2>2, <2>3, <2>4, <2>5
<1> HIDE DEF r
<1>4. \A act \in {"OK", "ALLOW", "verdict", "SHUTDOWN", "RELOADED"}, t \in Markers :
        LET x == Reply(w.d, act, r.v, t)
        IN x \in Replies /\ x.d = w.d /\ x.v = r.v /\ x.action = act /\ x.text = t
  BY <1>1, <1>2 DEF Reply, Replies
<1>5. {"plain", "SHUTDOWN", "RELOADED"} = Markers
  BY DEF Markers
<1>6. \E act \in {"OK", "ALLOW", "verdict", "SHUTDOWN", "RELOADED"}, t \in Markers :
        /\ a = Reply(w.d, act, r.v, t)
        /\ act = "OK" => w.payload # "large"
        /\ act = "verdict" => w.op = "check"
        /\ w.op = "reload" => act = "RELOADED" /\ t = "RELOADED"
  <2>1. CASE w.payload # "large" /\ w.op = "check"
    BY <1>1, <1>3, <1>5, <2>1
  <2>2. CASE w.payload = "large" \/ w.op # "check"
    BY <1>3, <1>5, <2>2
  <2> QED
    BY <2>1, <2>2
<1> QED
  BY <1>4, <1>6 DEF r

\* A client has one connection at a time; it is waiting for it unless the pipe's
\* server has already written the reply.
OneEach == \A v, w \in work : v.c = w.c => v = w
Awaited == \A w \in work : Posix \/ w.stage \in {"queued", "handled"} => Waits(w.c, w)
Staged == \A w \in work : w.stage = "reacted" => Posix
Unspent == \A w \in work : w.stage = "queued" => hookRuns[w.c] < tries[w.c]

\* What a connection is about, as long as its client waits: an OK to a hook event
\* says that the event was run.
Own ==
  \A w \in work : Waits(w.c, w) =>
    /\ w.op = op[w.c]
    /\ w.stage # "queued" /\ w.op = "hook" /\ w.reply.action = "OK" => hookRuns[w.c] >= 1

\* The event runs at most once for each attempt, and once more inline.
Budget(c) ==
  /\ pc[c] = "connect" => hookRuns[c] < tries[c]
  /\ pc[c] = "await" => hookRuns[c] <= tries[c]
  /\ pc[c] \in {"ensure", "poll"} => hookRuns[c] <= 1
  /\ pc[c] = "local" => hookRuns[c] <= 2
  /\ pc[c] # "idle" => op[c] \in Ops /\ tries[c] >= 1

HookRan(c) ==
  /\ pc[c] = "idle" /\ op[c] = "hook" => hookRuns[c] >= 1
  /\ pc[c] = "await" /\ op[c] = "hook" /\ got[c] # NoReply /\ got[c].action = "OK"
       => hookRuns[c] >= 1

Conns == OneEach /\ Awaited /\ Staged /\ Unspent /\ Own /\ \A w \in work : Sized(w)
Calls == \A c \in Clients : Budget(c) /\ HookRan(c)

CInv == IInv /\ TypeOK /\ Conns /\ Calls

LEMMA Typing ==
  ASSUME TypeOK
  PROVE  /\ phase \in [Daemons -> Phases]
         /\ rules \in [Daemons -> [v : 0..MaxRules, strict : BOOLEAN]]
         /\ dbRules \in 0..MaxRules /\ MaxRules \in Nat
         /\ work \subseteq Work
         /\ pc \in [Clients -> {"idle", "connect", "await", "ensure", "poll", "local"}]
         /\ op \in [Clients -> Ops \cup {"none"}]
         /\ tries \in [Clients -> 0..2] /\ got \in [Clients -> Replies \cup {NoReply}]
         /\ hookRuns \in [Clients -> 0..3] /\ sentAt \in [Clients -> 0..MaxRules]
         /\ known \in [Clients -> [d : Daemons \cup {None}, v : 0..MaxRules]]
         /\ listening \in [Daemons -> BOOLEAN]
BY RuleDaemonAssumption DEF TypeOK, Phases

\* Steps of the daemons' processes alone.
LEMMA ProcessesKeep ==
  ASSUME CInv, UNCHANGED <<platform, work, got, hookRuns, asked, sentAt, known>>,
         UNCHANGED <<pc, op, tries, done>>,
         phase' \in [Daemons -> Phases], listening' \in [Daemons -> BOOLEAN],
         rules' \in [Daemons -> [v : 0..MaxRules, strict : BOOLEAN]],
         dbRules' \in 0..MaxRules,
         lock' \in Daemons \cup {None}, path' \in Daemons \cup {None}
  PROVE  TypeOK' /\ Conns' /\ Calls'
<1>1. TypeOK'
  <2>1. Work' = Work /\ platform' = platform
    BY DEF Work
  <2>2. done' = done /\ TypeOK
    BY DEF CInv
  <2> QED
    BY <2>1, <2>2, Zenon DEF TypeOK, Phases
<1>2. Conns'
  BY Zenon DEF CInv, Conns, OneEach, Awaited, Staged, Unspent, Own, Sized, Waits
<1>3. Calls'
  BY Zenon DEF CInv, Calls, Budget, HookRan
<1> QED
  BY <1>1, <1>2, <1>3

LEMMA LoadedTyped ==
  ASSUME TypeOK, NEW r \in LoadedRules
  PROVE  /\ r \in [v : 0..MaxRules, strict : BOOLEAN]
         /\ ~DbCanFail => r.v = dbRules
<1>1. dbRules \in 0..MaxRules /\ 0 \in 0..MaxRules
  BY Typing
<1>2. r = [v |-> dbRules, strict |-> FALSE] \/ (DbCanFail /\ r = [v |-> 0, strict |-> FALSE])
  BY RuleDaemonAssumption DEF LoadedRules
<1>3. ASSUME NEW n \in 0..MaxRules
      PROVE  [v |-> n, strict |-> FALSE] \in [v : 0..MaxRules, strict : BOOLEAN]
  OBVIOUS
<1>4. DbCanFail \in BOOLEAN
  BY RuleDaemonAssumption
<1>5. ~DbCanFail => r = [v |-> dbRules, strict |-> FALSE]
  BY <1>2
<1>6. [v |-> dbRules, strict |-> FALSE].v = dbRules
  OBVIOUS
<1>7. ~DbCanFail => r.v = dbRules
  BY <1>5, <1>6, Zenon
<1>8. r \in [v : 0..MaxRules, strict : BOOLEAN]
  BY <1>1, <1>2, <1>3, Zenon
<1> QED
  BY <1>7, <1>8

LEMMA DaemonKeepsCalls ==
  ASSUME CInv, UNCHANGED platform, NEW d \in Daemons,
         Start(d) \/ AcquireSingleton(d) \/ CreateEndpoint(d) \/ Release(d) \/ Exit(d)
  PROVE  TypeOK' /\ Conns' /\ Calls'
<1>0. TypeOK /\ lock \in Daemons \cup {None} /\ path \in Daemons \cup {None}
  BY DEF CInv, TypeOK
<1>1. CASE Start(d)
  BY <1>0, <1>1, Typing, ProcessesKeep, LoadedTyped DEF Start, Spawn, clientVars, Phases
<1>2. CASE AcquireSingleton(d)
  BY <1>0, <1>2, Typing, ProcessesKeep DEF AcquireSingleton, clientVars, Phases
<1>3. CASE CreateEndpoint(d)
  BY <1>0, <1>3, Typing, ProcessesKeep DEF CreateEndpoint, clientVars, Phases
<1>4. CASE Release(d)
  BY <1>0, <1>4, Typing, ProcessesKeep DEF Release, clientVars, Phases
<1>5. CASE Exit(d)
  BY <1>0, <1>5, Typing, ProcessesKeep DEF Exit, clientVars, Phases
<1> QED
  BY <1>1, <1>2, <1>3, <1>4, <1>5

\* A step of the server after the reply is made.
LEMMA StageKeeps ==
  ASSUME CInv, NEW w \in work, w.stage # "queued",
         NEW s \in {"sent", "reacted", "disconnected"}, s = "reacted" => Posix,
         work' = (work \ {w}) \cup {[w EXCEPT !.stage = s]},
         UNCHANGED <<platform, pc, op, tries, done, hookRuns, dbRules, asked, sentAt, known>>,
         UNCHANGED <<lock, path, phase>>, listening' \in [Daemons -> BOOLEAN],
         rules' \in [Daemons -> [v : 0..MaxRules, strict : BOOLEAN]],
         got' = got \/ (~Posix /\ Waits(w.c, w) /\ got' = [got EXCEPT ![w.c] = Silence])
  PROVE  TypeOK' /\ Conns' /\ Calls'
<1> DEFINE new == [w EXCEPT !.stage = s]
<1>0. TypeOK /\ w \in Work
  BY DEF CInv, TypeOK
<1>1. /\ new.stage = s /\ new.d = w.d /\ new.c = w.c /\ new.op = w.op
      /\ new.reply = w.reply /\ new.payload = w.payload /\ new \in Work
      /\ w.c \in Clients
  <2>1. s \in {"queued", "handled", "sent", "reacted", "disconnected"}
    OBVIOUS
  <2>2. w.c \in Clients
    BY <1>0, WorkFields
  <2>3. new \in Work
    BY <1>0, <2>1 DEF Work
  <2> QED
    BY <1>0, <2>2, <2>3 DEF Work
<1>2. work' = (work \ {w}) \cup {new}
  OBVIOUS
<1> HIDE DEF new
<1>3. Silence \in Replies /\ Silence.action = "none"
  BY RuleDaemonAssumption DEF Silence, Reply, Replies, Markers
<1>4. got' \in [Clients -> Replies \cup {NoReply}]
  BY <1>0, <1>1, <1>3, Typing
<1>5. TypeOK'
  <2>1. Work' = Work /\ work' \subseteq Work
    BY <1>0, <1>1, <1>2, Typing DEF Work
  <2> QED
    BY <1>0, <1>4, <2>1, Zenon DEF TypeOK
<1>6. \A v \in work' : v = new \/ (v \in work /\ v # w /\ v.c # w.c)
  BY <1>2 DEF CInv, Conns, OneEach
<1>7. \A c \in Clients : c # w.c => got'[c] = got[c]
  BY <1>0, Typing
<1>8. OneEach'
  BY <1>1, <1>6 DEF CInv, Conns, OneEach
<1>9. \A v \in work : v.c \in Clients
  BY <1>0, Typing, WorkFields
<1>10. Awaited'
  <2>1. ASSUME NEW v \in work', v # new, Posix \/ v.stage \in {"queued", "handled"}
        PROVE  Waits(v.c, v)'
    BY <1>6, <1>7, <1>9, <2>1 DEF CInv, Conns, Awaited, Waits
  <2>2. Posix => Waits(new.c, new)'
    BY <1>1 DEF CInv, Conns, Awaited, Waits
  <2> QED
    BY <1>1, <2>1, <2>2 DEF Awaited
<1>11. Unspent' /\ Staged'
  BY <1>1, <1>6 DEF CInv, Conns, Unspent, Staged
<1>12. Own'
  <2>1. ASSUME NEW v \in work', v # new, Waits(v.c, v)'
        PROVE  /\ v.op = op[v.c]
               /\ v.stage # "queued" /\ v.op = "hook" /\ v.reply.action = "OK" => hookRuns[v.c] >= 1
    BY <1>6, <1>7, <1>9, <2>1 DEF CInv, Conns, Own, Waits
  <2>2. ASSUME Waits(new.c, new)'
        PROVE  /\ new.op = op[new.c]
               /\ new.op = "hook" /\ new.reply.action = "OK" => hookRuns[new.c] >= 1
    <3>1. Waits(w.c, w)
      BY <1>1, <2>2 DEF Waits
    <3> QED
      BY <1>1, <3>1 DEF CInv, Conns, Own
  <2> QED
    BY <2>1, <2>2 DEF Own
<1>13. \A v \in work' : Sized(v)'
  BY <1>1, <1>6 DEF CInv, Conns, Sized
<1>14. Calls'
  <2>1. \A c \in Clients : got'[c] = got[c] \/ got'[c].action = "none"
    BY <1>0, <1>1, <1>3, Typing
  <2> QED
    BY <2>1 DEF CInv, Calls, Budget, HookRan
<1> QED
  BY <1>5, <1>8, <1>10, <1>11, <1>12, <1>13, <1>14 DEF Conns

\* The end of a connection; its client gets the reply if it waits for it.
LEMMA EndKeeps ==
  ASSUME CInv, NEW w \in work, work' = work \ {w},
         UNCHANGED <<platform, pc, op, tries, done, hookRuns, dbRules, asked, sentAt, known>>,
         UNCHANGED <<lock, path>>, listening' \in [Daemons -> BOOLEAN], phase' \in [Daemons -> Phases],
         rules' \in [Daemons -> [v : 0..MaxRules, strict : BOOLEAN]],
         got' = got \/ (Waits(w.c, w) /\ w.stage # "queued" /\ got' = [got EXCEPT ![w.c] = w.reply])
  PROVE  TypeOK' /\ Conns' /\ Calls'
<1>0. TypeOK /\ w \in Work /\ w.c \in Clients /\ w.reply \in Replies
  BY WorkFields DEF CInv, TypeOK
<1>1. got' \in [Clients -> Replies \cup {NoReply}]
  BY <1>0, Typing
<1>2. TypeOK'
  <2>1. Work' = Work /\ work' \subseteq Work
    BY <1>0, Typing DEF Work
  <2> QED
    BY <1>0, <1>1, <2>1, Zenon DEF TypeOK, Phases
<1>3. \A v \in work' : v \in work /\ v.c # w.c
  BY DEF CInv, Conns, OneEach
<1>4. \A v \in work' : v.c \in Clients /\ got'[v.c] = got[v.c]
  BY <1>0, <1>3, Typing, WorkFields
<1>5. Conns'
  <2>1. OneEach' /\ Staged' /\ Unspent' /\ \A v \in work' : Sized(v)'
    BY <1>3 DEF CInv, Conns, OneEach, Staged, Unspent, Sized
  <2>2. Awaited'
    BY <1>3, <1>4 DEF CInv, Conns, Awaited, Waits
  <2>3. Own'
    BY <1>3, <1>4 DEF CInv, Conns, Own, Waits
  <2> QED
    BY <2>1, <2>2, <2>3 DEF Conns
<1>6. Calls'
  <2>1. \A c \in Clients : got'[c] = got[c] \/ (c = w.c /\ got'[c] = w.reply /\ Waits(w.c, w) /\ w.stage # "queued")
    BY <1>0, Typing
  <2>2. Waits(w.c, w) /\ w.stage # "queued" /\ op[w.c] = "hook" /\ w.reply.action = "OK"
          => hookRuns[w.c] >= 1
    BY DEF CInv, Conns, Own
  <2> QED
    BY <2>1, <2>2 DEF CInv, Calls, Budget, HookRan
<1> QED
  BY <1>2, <1>5, <1>6

\* A request is dispatched: the reply is made, and a hook event run.
LEMMA HandleKeepsCalls ==
  ASSUME CInv, UNCHANGED platform, NEW w \in work, Handle(w)
  PROVE  TypeOK' /\ Conns' /\ Calls'
<1>0. TypeOK /\ w \in Work /\ w.d \in Daemons /\ w.c \in Clients /\ w.stage = "queued" /\ Sized(w)
  BY WorkFields DEF CInv, Conns, TypeOK, Handle
<1>1. PICK a \in Answers(w) :
        work' = (work \ {w}) \cup {[w EXCEPT !.stage = "handled", !.reply = a]}
  BY DEF Handle
<1> DEFINE new == [w EXCEPT !.stage = "handled", !.reply = a]
<1>2. /\ new.stage = "handled" /\ new.d = w.d /\ new.c = w.c /\ new.op = w.op
      /\ new.reply = a /\ new.payload = w.payload /\ new \in Work
      /\ a.action = "OK" => w.payload # "large"
  <2>1. a \in Replies /\ (a.action = "OK" => w.payload # "large")
    BY <1>0, AnswersTyped
  <2>2. new \in Work
    BY <1>0, <2>1 DEF Work
  <2>3. new.stage = "handled" /\ new.d = w.d /\ new.c = w.c /\ new.op = w.op
    BY <1>0 DEF Work
  <2>4. new.reply = a /\ new.payload = w.payload
    BY <1>0 DEF Work
  <2> QED
    BY <2>1, <2>2, <2>3, <2>4
<1>3. work' = (work \ {w}) \cup {new}
  BY <1>1
<1> HIDE DEF new
<1>4. UNCHANGED <<pc, op, tries, done, got, dbRules, sentAt, known, phase, lock, path, listening>>
  BY DEF Handle, clientVars
<1>5. Waits(w.c, w) /\ hookRuns[w.c] < tries[w.c] /\ w.op = op[w.c]
  BY <1>0 DEF CInv, Conns, Awaited, Unspent, Own
<1>6. /\ \A c \in Clients : c # w.c => hookRuns'[c] = hookRuns[c]
      /\ hookRuns'[w.c] = IF w.op = "hook" /\ w.payload # "large"
                          THEN hookRuns[w.c] + 1 ELSE hookRuns[w.c]
  BY <1>0, Typing DEF Handle
<1>7. hookRuns[w.c] \in 0..3 /\ tries[w.c] \in 0..2
  BY <1>0, Typing
<1>8. hookRuns'[w.c] \in 0..3
  BY <1>5, <1>6, <1>7
<1>9. hookRuns' \in [Clients -> 0..3]
  BY <1>0, <1>8, Typing DEF Handle
<1>10. rules' \in [Daemons -> [v : 0..MaxRules, strict : BOOLEAN]]
  <2>1. rules[w.d] \in [v : 0..MaxRules, strict : BOOLEAN]
    BY <1>0, Typing
  <2>2. ASSUME NEW b \in BOOLEAN
        PROVE  [rules[w.d] EXCEPT !.strict = b] \in [v : 0..MaxRules, strict : BOOLEAN]
    BY <2>1
  <2>3. (w.op = "strict_on") \in BOOLEAN
    OBVIOUS
  <2>4. rules' = rules \/ rules' = [rules EXCEPT ![w.d] = [rules[w.d] EXCEPT !.strict = (w.op = "strict_on")]]
    BY DEF Handle
  <2> DEFINE r == [rules[w.d] EXCEPT !.strict = (w.op = "strict_on")]
  <2>5. r \in [v : 0..MaxRules, strict : BOOLEAN]
    BY <2>2, <2>3, Zenon
  <2>6. rules' = rules \/ rules' = [rules EXCEPT ![w.d] = r]
    BY <2>4
  <2> HIDE DEF r
  <2> QED
    BY <1>0, <2>5, <2>6, Typing
<1>11. TypeOK'
  <2>1. Work' = Work /\ work' \subseteq Work
    BY <1>0, <1>2, <1>3, Typing DEF Work
  <2>2. asked' \subseteq Daemons
    BY <1>0 DEF Handle, TypeOK
  <2> QED
    BY <1>0, <1>4, <1>9, <1>10, <2>1, <2>2, Zenon DEF TypeOK, Phases
<1>12. \A v \in work' : v = new \/ (v \in work /\ v.c # w.c /\ v.c \in Clients)
  <2>1. \A v \in work : v.c \in Clients
    BY <1>0, Typing, WorkFields
  <2> QED
    BY <1>3, <2>1 DEF CInv, Conns, OneEach
<1>13. OneEach' /\ \A v \in work' : Sized(v)'
  BY <1>0, <1>2, <1>12 DEF CInv, Conns, OneEach, Sized
<1>14. Awaited'
  BY <1>2, <1>4, <1>5, <1>12 DEF CInv, Conns, Awaited, Waits
<1>15. Unspent' /\ Staged'
  BY <1>2, <1>4, <1>6, <1>12 DEF CInv, Conns, Unspent, Staged
<1>16. Own'
  <2>1. ASSUME NEW v \in work', v # new, Waits(v.c, v)'
        PROVE  /\ v.op = op[v.c]
               /\ v.stage # "queued" /\ v.op = "hook" /\ v.reply.action = "OK" => hookRuns'[v.c] >= 1
    BY <1>4, <1>6, <1>12, <2>1 DEF CInv, Conns, Own, Waits
  <2>2. new.op = "hook" /\ new.reply.action = "OK" => hookRuns'[new.c] >= 1
    BY <1>2, <1>6, <1>7
  <2> QED
    BY <1>2, <1>4, <1>5, <2>1, <2>2 DEF Own
<1>17. Calls'
  <2>1. \A c \in Clients : hookRuns[c] \in 0..3
    BY <1>0, Typing
  <2>2. ASSUME NEW c \in Clients, c # w.c PROVE Budget(c)' /\ HookRan(c)'
    BY <1>4, <1>6, <2>2 DEF CInv, Calls, Budget, HookRan
  <2>3. Budget(w.c)' /\ HookRan(w.c)'
    <3>1. op[w.c] \in Ops
      BY <1>0, <1>5, WorkFields
    <3>2. pc'[w.c] = "await" /\ got'[w.c] = NoReply
      BY <1>4, <1>5 DEF Waits
    <3> QED
      BY <1>4, <1>5, <1>6, <1>7, <3>1, <3>2 DEF Budget, HookRan
  <2> QED
    BY <2>2, <2>3 DEF Calls
<1> QED
  BY <1>11, <1>13, <1>14, <1>15, <1>16, <1>17 DEF Conns

LEMMA ServerKeepsCalls ==
  ASSUME CInv, UNCHANGED platform, NEW w \in work, ServerStep(w)
  PROVE  TypeOK' /\ Conns' /\ Calls'
<1>0. /\ TypeOK /\ w.d \in Daemons /\ w.c \in Clients
      /\ phase \in [Daemons -> Phases] /\ listening \in [Daemons -> BOOLEAN]
      /\ rules \in [Daemons -> [v : 0..MaxRules, strict : BOOLEAN]]
  BY Typing, WorkFields DEF CInv
<1>1. ASSUME NEW r \in LoadedRules
      PROVE  [rules EXCEPT ![w.d] = r] \in [Daemons -> [v : 0..MaxRules, strict : BOOLEAN]]
  <2>1. r \in [v : 0..MaxRules, strict : BOOLEAN]
    BY <1>0, LoadedTyped
  <2> QED
    BY <1>0, <2>1
<1>2. ASSUME NEW next, React(w, next)
      PROVE  /\ rules' \in [Daemons -> [v : 0..MaxRules, strict : BOOLEAN]]
             /\ phase' \in [Daemons -> Phases] /\ listening' \in [Daemons -> BOOLEAN]
             /\ Posix => phase' = phase
  <2>1. rules' \in [Daemons -> [v : 0..MaxRules, strict : BOOLEAN]]
    BY <1>0, <1>1, <1>2 DEF React
  <2>2. /\ phase' \in [Daemons -> Phases] /\ listening' \in [Daemons -> BOOLEAN]
        /\ Posix => phase' = phase
    BY <1>0, <1>2 DEF React, Phases
  <2> QED
    BY <2>1, <2>2
<1>3. CASE Send(w)
  BY <1>0, <1>3, StageKeeps DEF Send, daemonVars, clientVars
<1>4. CASE ReactPosix(w)
  <2>1. /\ w.stage = "sent" /\ work' = (work \ {w}) \cup {[w EXCEPT !.stage = "reacted"]}
        /\ UNCHANGED <<lock, path, dbRules, got, hookRuns, asked, sentAt, known>>
        /\ UNCHANGED <<pc, op, tries, done>> /\ UNCHANGED phase
    BY <1>2, <1>4 DEF ReactPosix, React, clientVars
  <2> QED
    BY <1>2, <1>4, <2>1, StageKeeps DEF ReactPosix
<1>5. CASE Disconnect(w)
  BY <1>0, <1>5, StageKeeps DEF Disconnect, daemonVars, clientVars
<1>6. CASE Close(w)
  <2>1. w.stage = "reacted" /\ w.stage \in {"reacted", "disconnected", "sent"}
    BY <1>6 DEF Close, ClosePosix
  <2>2. Waits(w.c, w)
    BY <2>1 DEF CInv, Conns, Awaited, Staged
  <2> QED
    BY <1>0, <1>6, <2>1, <2>2, EndKeeps DEF Close, ClosePosix, daemonVars, clientVars
<1>7. CASE ReactWindows(w)
  <2>1. /\ work' = work \ {w}
        /\ UNCHANGED <<lock, path, dbRules, got, hookRuns, asked, sentAt, known>>
        /\ UNCHANGED <<pc, op, tries, done>>
    BY <1>7 DEF ReactWindows, React, clientVars
  <2> QED
    BY <1>2, <1>7, <2>1, EndKeeps DEF ReactWindows
<1> QED
  BY <1>3, <1>4, <1>5, <1>6, <1>7, HandleKeepsCalls DEF ServerStep

\* A kill: each client of the process gets what it was sent, or nothing.
LEMMA KillKeepsCalls ==
  ASSUME CInv, UNCHANGED platform, NEW d \in Daemons, Kill(d)
  PROVE  TypeOK' /\ Conns' /\ Calls'
<1>0. /\ TypeOK /\ lock \in Daemons \cup {None} /\ path \in Daemons \cup {None}
      /\ \A w \in work : w.c \in Clients /\ w.reply \in Replies
  BY Typing, WorkFields DEF CInv, TypeOK
<1>1. /\ work' = {w \in work : w.d # d}
      /\ UNCHANGED <<pc, op, tries, done, dbRules, rules, hookRuns, asked, sentAt, known>>
  BY DEF Kill, clientVars
<1>2. Silence \in Replies /\ Silence.action = "none"
  BY RuleDaemonAssumption DEF Silence, Reply, Replies, Markers
<1> DEFINE Sent(c, w) == w.c = c /\ Waits(c, w) /\ w.stage \in {"sent", "reacted"}
<1>3. ASSUME NEW c \in Clients
      PROVE  \/ /\ got'[c] = got[c]
                /\ ~ \E w \in work : w.d = d /\ Waits(c, w)
             \/ got'[c] = Silence
             \/ \E w \in work : Sent(c, w) /\ got'[c] = w.reply
  <2>1. CASE ~ \E w \in work : w.d = d /\ Waits(c, w)
    BY <2>1 DEF Kill
  <2>2. CASE \E w \in work : w.d = d /\ Waits(c, w)
    <3>1. PICK w \in work : w.d = d /\ Waits(c, w)
      BY <2>2
    <3>2. w.c = c
      BY <3>1 DEF Waits
    <3> DEFINE u == CHOOSE v \in work : v.d = d /\ v.c = c
    <3>3. u \in work /\ u.c = c
      BY <3>1, <3>2
    <3>4. u = w
      BY <3>2, <3>3 DEF CInv, Conns, OneEach
    <3>5. got'[c] = IF u.stage \in {"sent", "reacted"} THEN u.reply ELSE Silence
      BY <2>2 DEF Kill
    <3> HIDE DEF u
    <3> QED
      BY <3>1, <3>2, <3>4, <3>5
  <2> QED
    BY <2>1, <2>2
<1>4. got' \in [Clients -> Replies \cup {NoReply}]
  <2>1. \A c \in Clients : got'[c] \in Replies \cup {NoReply}
    BY <1>0, <1>2, <1>3, Typing
  <2>2. got' = [c \in Clients |-> got'[c]]
    BY DEF Kill
  <2> QED
    BY <2>1, <2>2
<1>5. TypeOK'
  <2>1. Work' = Work /\ work' \subseteq Work
    BY <1>0, <1>1, Typing DEF Work
  <2>2. /\ phase' \in [Daemons -> Phases] /\ listening' \in [Daemons -> BOOLEAN]
        /\ lock' \in Daemons \cup {None} /\ path' \in Daemons \cup {None}
    BY <1>0, Typing DEF Kill, Phases
  <2> QED
    BY <1>0, <1>1, <1>4, <2>1, <2>2, Zenon DEF TypeOK, Phases
<1>6. \A v \in work' : v \in work /\ v.d # d /\ v.c \in Clients
  BY <1>0, <1>1
<1>7. ASSUME NEW v \in work', Waits(v.c, v) PROVE Waits(v.c, v)'
  <2>1. ~ \E w \in work : w.c = v.c /\ w # v
    BY <1>6 DEF CInv, Conns, OneEach
  <2>2. ~ \E w \in work : w.d = d /\ Waits(v.c, w)
    BY <1>6, <2>1 DEF Waits
  <2>3. got'[v.c] = got[v.c]
    BY <1>6, <2>2 DEF Kill
  <2> QED
    BY <1>1, <1>7, <2>3 DEF Waits
<1>8. OneEach' /\ Staged' /\ Unspent' /\ \A v \in work' : Sized(v)'
  BY <1>1, <1>6 DEF CInv, Conns, OneEach, Staged, Unspent, Sized
<1>9. Awaited'
  BY <1>6, <1>7 DEF CInv, Conns, Awaited
<1>10. Own'
  <2>1. ASSUME NEW v \in work', Waits(v.c, v)' PROVE Waits(v.c, v)
    <3>1. pc[v.c] = "await" /\ got'[v.c] = NoReply
      BY <1>1, <2>1 DEF Waits
    <3>2. \A w \in work : w.c = v.c => w = v
      BY <1>6 DEF CInv, Conns, OneEach
    <3>3. ~ \E w \in work : w.d = d /\ Waits(v.c, w)
      BY <1>6, <3>2 DEF Waits
    <3>4. got'[v.c] = got[v.c]
      BY <1>6, <3>3 DEF Kill
    <3> QED
      BY <3>1, <3>4 DEF Waits
  <2> QED
    BY <1>1, <1>6, <2>1 DEF CInv, Conns, Own
<1>11. Calls'
  <2>1. \A c \in Clients : Budget(c)'
    BY <1>1 DEF CInv, Calls, Budget
  <2>2. ASSUME NEW c \in Clients PROVE HookRan(c)'
    <3>1. CASE got'[c] = got[c]
      BY <1>1, <3>1 DEF CInv, Calls, HookRan
    <3>2. CASE got'[c] = Silence
      BY <1>1, <1>2, <3>2 DEF CInv, Calls, HookRan
    <3>3. ASSUME NEW w \in work, Sent(c, w), got'[c] = w.reply
          PROVE  HookRan(c)'
      <4>1. w.op = op[c] /\ (w.op = "hook" /\ w.reply.action = "OK" => hookRuns[c] >= 1)
        BY <3>3 DEF CInv, Conns, Own
      <4> QED
        BY <1>1, <3>3, <4>1 DEF CInv, Calls, HookRan
    <3> QED
      BY <1>3, <3>1, <3>2, <3>3
  <2> QED
    BY <2>1, <2>2 DEF Calls
<1> QED
  BY <1>5, <1>8, <1>9, <1>10, <1>11 DEF Conns

\* A client's step that leaves the connections alone: it waits for none of them
\* afterwards, and if it did before, the pipe's reply is there.
LEMMA AwayKeeps ==
  ASSUME CInv, NEW c \in Clients, UNCHANGED <<platform, work>>,
         \A v \in work : v.c = c => ~Posix /\ v.stage \notin {"queued", "handled"},
         ~(pc'[c] = "await" /\ got'[c] = NoReply),
         \A e \in Clients : e # c => UNCHANGED <<pc[e], got[e], op[e], tries[e], hookRuns[e]>>
  PROVE  Conns'
<1>1. \A v \in work : v.c \in Clients
  BY Typing, WorkFields DEF CInv
<1>2. OneEach' /\ Staged' /\ \A v \in work' : Sized(v)'
  BY DEF CInv, Conns, OneEach, Staged, Sized
<1>3. Awaited' /\ Unspent'
  BY <1>1 DEF CInv, Conns, Awaited, Unspent, Waits
<1>4. Own'
  BY <1>1 DEF CInv, Conns, Own, Waits
<1> QED
  BY <1>2, <1>3, <1>4 DEF Conns

LEMMA NotWaiting ==
  ASSUME CInv, NEW c \in Clients, pc[c] # "await" \/ got[c] # NoReply
  PROVE  \A v \in work : v.c = c => ~Posix /\ v.stage \notin {"queued", "handled"}
BY DEF CInv, Conns, Awaited, Waits

\* The typing of a step that changes the client's own state.
LEMMA ClientTyped ==
  ASSUME CInv, UNCHANGED <<platform, phase, lock, path, listening, dbRules, asked>>,
         rules' \in [Daemons -> [v : 0..MaxRules, strict : BOOLEAN]],
         work' \subseteq Work,
         pc' \in [Clients -> {"idle", "connect", "await", "ensure", "poll", "local"}],
         op' \in [Clients -> Ops \cup {"none"}],
         tries' \in [Clients -> 0..2], got' \in [Clients -> Replies \cup {NoReply}],
         done' \in [Clients -> Nat],
         \A e \in Clients : done'[e] \in 0..Len(Plan[platform][e]),
         hookRuns' \in [Clients -> 0..3], sentAt' \in [Clients -> 0..MaxRules],
         known' \in [Clients -> [d : Daemons \cup {None}, v : 0..MaxRules]]
  PROVE  TypeOK'
<1>1. Work' = Work /\ platform' = platform
  BY DEF Work
<1>2. TypeOK
  BY DEF CInv
<1> QED
  BY <1>1, <1>2, Zenon DEF TypeOK

LEMMA BeginKeepsCalls ==
  ASSUME CInv, UNCHANGED platform, NEW c \in Clients, Begin(c)
  PROVE  TypeOK' /\ Conns' /\ Calls'
<1>0. /\ TypeOK /\ done \in [Clients -> Nat] /\ platform \in Platforms
      /\ \A e \in Clients : done[e] \in 0..Len(Plan[platform][e])
  BY DEF CInv, TypeOK
<1>1. PICK o \in Plan[platform][c][done[c] + 1] : op' = [op EXCEPT ![c] = o]
  BY DEF Begin
<1>2. o \in Ops
  <2>1. Plan[platform][c] \in Seq(SUBSET Ops)
    BY <1>0, RuleDaemonAssumption
  <2>2. done[c] + 1 \in 1..Len(Plan[platform][c])
    BY <1>0, <2>1 DEF Begin
  <2>3. Plan[platform][c][done[c] + 1] \in SUBSET Ops
    BY <2>1, <2>2
  <2> QED
    BY <1>1, <2>3
<1>3. /\ pc' = [pc EXCEPT ![c] = "connect"] /\ tries' = [tries EXCEPT ![c] = 1]
      /\ hookRuns' = [hookRuns EXCEPT ![c] = 0] /\ done' = [done EXCEPT ![c] = @ + 1]
      /\ UNCHANGED <<dbRules, work, got, asked, sentAt, known, phase, lock, path, listening, rules>>
  BY DEF Begin, daemonVars
<1>4. \A e \in Clients : done'[e] \in 0..Len(Plan[platform][e])
  <2>1. ASSUME NEW e \in Clients, e # c PROVE done'[e] = done[e]
    BY <1>0, <1>3, <2>1
  <2>2. done'[c] = done[c] + 1 /\ done[c] < Len(Plan[platform][c])
    BY <1>0, <1>3 DEF Begin
  <2>3. Len(Plan[platform][c]) \in Nat
    BY <1>0, RuleDaemonAssumption
  <2>4. done'[c] \in 0..Len(Plan[platform][c])
    BY <1>0, <2>2, <2>3
  <2> QED
    BY <1>0, <2>1, <2>4
<1>5. done' \in [Clients -> Nat]
  BY <1>0, <1>3
<1>6. op' \in [Clients -> Ops \cup {"none"}] /\ op'[c] = o
  BY <1>0, <1>1, <1>2, Typing
<1>7. /\ pc' \in [Clients -> {"idle", "connect", "await", "ensure", "poll", "local"}]
      /\ tries' \in [Clients -> 0..2] /\ hookRuns' \in [Clients -> 0..3]
  BY <1>0, <1>3, Typing
<1>8. /\ got' \in [Clients -> Replies \cup {NoReply}] /\ sentAt' \in [Clients -> 0..MaxRules]
      /\ known' \in [Clients -> [d : Daemons \cup {None}, v : 0..MaxRules]]
      /\ work' \subseteq Work
      /\ rules' \in [Daemons -> [v : 0..MaxRules, strict : BOOLEAN]]
  BY <1>0, <1>3, Typing
<1>9. TypeOK'
  BY <1>3, <1>4, <1>5, <1>6, <1>7, <1>8, ClientTyped
<1>10. /\ pc'[c] = "connect" /\ tries'[c] = 1 /\ hookRuns'[c] = 0
       /\ \A e \in Clients : e # c =>
            UNCHANGED <<pc[e], got[e], op[e], tries[e], hookRuns[e]>>
  BY <1>0, <1>1, <1>3, Typing
<1>11. Conns'
  <2>1. pc[c] # "await"
    BY DEF Begin
  <2> QED
    BY <1>3, <1>10, <2>1, AwayKeeps, NotWaiting
<1>12. Calls'
  BY <1>2, <1>6, <1>10 DEF CInv, Calls, Budget, HookRan
<1> QED
  BY <1>9, <1>11, <1>12

\* A new connection: there is no other of this client, because a POSIX client
\* waits for the one it has, and a pipe's is that of the daemon that is busy.
LEMMA ConnectKeepsCalls ==
  ASSUME CInv, UNCHANGED platform, NEW c \in Clients, Connect(c)
  PROVE  TypeOK' /\ Conns' /\ Calls'
<1>0. TypeOK /\ pc[c] = "connect" /\ op[c] \in Ops /\ hookRuns[c] < tries[c]
  BY DEF CInv, Calls, Budget, Connect
<1>1. /\ pc' = [pc EXCEPT ![c] = "await"] /\ sentAt' = [sentAt EXCEPT ![c] = dbRules]
      /\ UNCHANGED <<op, tries, done, dbRules, hookRuns, asked, known, phase, lock, path, listening, rules>>
  BY DEF Connect, daemonVars
<1>2. pc'[c] = "await" /\ \A e \in Clients : e # c => pc'[e] = pc[e]
  BY <1>0, <1>1, Typing
<1>3. Silence \in Replies /\ Silence.action = "none"
  BY RuleDaemonAssumption DEF Silence, Reply, Replies, Markers
<1>4. ASSUME got' \in [Clients -> Replies \cup {NoReply}], work' \subseteq Work
      PROVE  TypeOK'
  <2>1. /\ pc' \in [Clients -> {"idle", "connect", "await", "ensure", "poll", "local"}]
        /\ sentAt' \in [Clients -> 0..MaxRules]
    BY <1>0, <1>1, Typing
  <2>2. done \in [Clients -> Nat] /\ \A e \in Clients : done[e] \in 0..Len(Plan[platform][e])
    BY <1>0 DEF TypeOK
  <2> QED
    BY <1>0, <1>1, <1>4, <2>1, <2>2, Typing, ClientTyped
<1>5. ASSUME \A e \in Clients : e # c => got'[e] = got[e],
             got'[c] = NoReply \/ got'[c] = Silence
      PROVE  Calls'
  BY <1>0, <1>1, <1>2, <1>3, <1>5, Typing DEF CInv, Calls, Budget, HookRan
<1>6. \A v \in work : v.c = c => ~Posix /\ v.stage \notin {"queued", "handled"}
  BY <1>0, NotWaiting
<1>7. CASE got' = [got EXCEPT ![c] = Silence] /\ UNCHANGED work
  <2>1. got' \in [Clients -> Replies \cup {NoReply}] /\ got'[c] = Silence
        /\ \A e \in Clients : e # c => got'[e] = got[e]
    BY <1>0, <1>3, <1>7, Typing
  <2>2. work' \subseteq Work
    BY <1>0, <1>7, Typing
  <2>3. Silence # NoReply
    BY <1>3, NoReplyAssumption
  <2>4. Conns'
    BY <1>1, <1>2, <1>6, <1>7, <2>1, <2>3, AwayKeeps
  <2> QED
    BY <1>4, <1>5, <2>1, <2>2, <2>4
<1>8. CASE /\ \E d \in Daemons, p \in PayloadsOf(op[c]) :
             /\ Accepting(d)
             /\ work' = work \cup {[d |-> d, c |-> c, op |-> op[c], payload |-> p,
                                    stage |-> "queued", reply |-> Silence]}
           /\ got' = [got EXCEPT ![c] = NoReply]
  <2>1. PICK d \in Daemons, p \in PayloadsOf(op[c]) :
             /\ Accepting(d)
             /\ work' = work \cup {[d |-> d, c |-> c, op |-> op[c], payload |-> p,
                                    stage |-> "queued", reply |-> Silence]}
    BY <1>8
  <2> DEFINE new == [d |-> d, c |-> c, op |-> op[c], payload |-> p,
                     stage |-> "queued", reply |-> Silence]
  <2>2. p \in Payloads[platform] /\ (p = "large" => op[c] = "hook") /\ (op[c] = "reload" => p = "plain")
    <3>1. "plain" \in Payloads[platform]
      BY <1>0, RuleDaemonAssumption DEF TypeOK
    <3>2. CASE op[c] = "check"
      BY <2>1, <3>2 DEF PayloadsOf
    <3>3. CASE op[c] = "hook"
      BY <2>1, <3>3 DEF PayloadsOf
    <3>4. CASE op[c] \notin {"check", "hook"}
      BY <2>1, <3>1, <3>4 DEF PayloadsOf
    <3> QED
      BY <3>2, <3>3, <3>4
  <2>3. new \in Work
    BY <1>0, <1>3, <2>2 DEF Work
  <2>4. new.c = c /\ new.stage = "queued" /\ new.op = op[c] /\ Sized(new)
    BY <2>2 DEF Sized
  <2>5. work' = work \cup {new}
    BY <2>1
  <2> HIDE DEF new
  <2>6. \A v \in work : v.c # c
    <3>1. CASE Posix
      BY <1>6, <3>1
    <3>2. CASE ~Posix
      <4>1. \A v \in work : v.d = path
        BY DEF CInv, IInv, WorkServed, ServerKeepsItsName
      <4> QED
        BY <2>1, <3>2, <4>1 DEF Accepting
    <3> QED
      BY <3>1, <3>2
  <2>7. got' \in [Clients -> Replies \cup {NoReply}] /\ got'[c] = NoReply
        /\ \A e \in Clients : e # c => got'[e] = got[e]
    BY <1>0, <1>8, Typing
  <2>8. \A v \in work' : v = new \/ (v \in work /\ v.c # c /\ v.c \in Clients)
    BY <1>0, <2>5, <2>6, Typing, WorkFields
  <2>9. work' \subseteq Work
    BY <1>0, <2>3, <2>5, Typing
  <2>10. OneEach' /\ Staged' /\ \A v \in work' : Sized(v)'
    BY <2>4, <2>8 DEF CInv, Conns, OneEach, Staged, Sized
  <2>11. Awaited' /\ Unspent'
    BY <1>0, <1>1, <1>2, <2>4, <2>7, <2>8 DEF CInv, Conns, Awaited, Unspent, Waits
  <2>12. Own'
    BY <1>1, <1>2, <2>4, <2>7, <2>8 DEF CInv, Conns, Own, Waits
  <2> QED
    BY <1>4, <1>5, <2>7, <2>9, <2>10, <2>11, <2>12 DEF Conns
<1> QED
  BY <1>7, <1>8 DEF Connect

\* ReadFile completes: what the client waited for is the reply in the pipe.
LEMMA ReadKeepsCalls ==
  ASSUME CInv, UNCHANGED platform, NEW c \in Clients, Read(c)
  PROVE  TypeOK' /\ Conns' /\ Calls'
<1>0. PICK w \in work : Waits(c, w) /\ w.stage = "sent" /\ got' = [got EXCEPT ![c] = w.reply]
  BY DEF Read
<1>1. /\ ~Posix
      /\ UNCHANGED <<pc, op, tries, done, dbRules, work, hookRuns, asked, sentAt, known,
                     phase, lock, path, listening, rules>>
  BY DEF Read, daemonVars, clientVars
<1>2. TypeOK /\ w \in Work /\ w.c = c /\ w.reply \in Replies
  BY <1>0, Typing, WorkFields DEF CInv, Waits
<1>3. /\ got' \in [Clients -> Replies \cup {NoReply}] /\ got'[c] = w.reply
      /\ w.reply # NoReply
      /\ \A e \in Clients : e # c => got'[e] = got[e]
  BY <1>0, <1>2, Typing, NoReplyAssumption
<1>4. TypeOK'
  <2>1. done \in [Clients -> Nat] /\ \A e \in Clients : done[e] \in 0..Len(Plan[platform][e])
    BY <1>2 DEF TypeOK
  <2> QED
    BY <1>1, <1>2, <1>3, <2>1, Typing, ClientTyped
<1>5. Conns'
  <2>1. \A v \in work : v.c = c => v = w
    BY <1>2 DEF CInv, Conns, OneEach
  <2>2. \A v \in work : v.c = c => ~Posix /\ v.stage \notin {"queued", "handled"}
    BY <1>0, <1>1, <2>1
  <2> QED
    BY <1>1, <1>3, <2>2, AwayKeeps
<1>6. Calls'
  <2>1. w.op = op[c] /\ (w.op = "hook" /\ w.reply.action = "OK" => hookRuns[c] >= 1)
    BY <1>0, <1>2 DEF CInv, Conns, Own
  <2> QED
    BY <1>1, <1>3, <2>1 DEF CInv, Calls, Budget, HookRan
<1> QED
  BY <1>4, <1>5, <1>6

\* A client's step outside of sendRaw.
LEMMA OutsideKeepsCalls ==
  ASSUME CInv, UNCHANGED platform, NEW c \in Clients,
         Return(c) \/ Alive(c) \/ StartByClient(c) \/ PollTimesOut(c) \/ RunLocal(c)
  PROVE  TypeOK' /\ Conns' /\ Calls'
<1>0. TypeOK /\ hookRuns[c] \in 0..3 /\ tries[c] \in 0..2 /\ pc[c] # "idle"
      /\ (pc[c] # "await" \/ got[c] # NoReply)
  BY Typing DEF CInv, Return, Alive, StartByClient, PollTimesOut, RunLocal
<1>1. /\ UNCHANGED <<op, done, dbRules, work, got, asked, sentAt, lock, path, listening>>
      /\ tries' = IF Alive(c) THEN [tries EXCEPT ![c] = 2] ELSE tries
      /\ hookRuns' = IF RunLocal(c) THEN [hookRuns EXCEPT ![c] = @ + 1] ELSE hookRuns
  BY DEF Return, Alive, StartByClient, PollTimesOut, RunLocal, daemonVars
<1>2. \E s \in {"idle", "connect", "ensure", "poll", "local"} : pc' = [pc EXCEPT ![c] = s]
  BY DEF Return, AfterAttempt, Alive, StartByClient, PollTimesOut, RunLocal
<1>3. /\ pc' \in [Clients -> {"idle", "connect", "await", "ensure", "poll", "local"}]
      /\ pc'[c] # "await"
      /\ \A e \in Clients : e # c => pc'[e] = pc[e]
  BY <1>0, <1>2, Typing
<1>4. tries' \in [Clients -> 0..2] /\ \A e \in Clients : e # c => tries'[e] = tries[e]
  BY <1>0, <1>1, Typing
<1>5. hookRuns'[c] \in 0..3
  <2>1. RunLocal(c) => hookRuns[c] <= 2
    BY DEF RunLocal, CInv, Calls, Budget
  <2>2. hookRuns'[c] = hookRuns[c] \/ (RunLocal(c) /\ hookRuns'[c] = hookRuns[c] + 1)
    BY <1>0, <1>1, Typing
  <2> QED
    BY <1>0, <2>1, <2>2
<1>6. hookRuns' \in [Clients -> 0..3] /\ \A e \in Clients : e # c => hookRuns'[e] = hookRuns[e]
  BY <1>0, <1>1, <1>5, Typing
<1>7. known' \in [Clients -> [d : Daemons \cup {None}, v : 0..MaxRules]]
  <2>1. CASE known' = known
    BY <1>0, <2>1, Typing
  <2>2. CASE Return(c)
    <3>1. got[c] \in Replies /\ sentAt[c] \in 0..MaxRules
      BY <1>0, <2>2, Typing DEF Return
    <3>2. [d |-> got[c].d, v |-> sentAt[c]] \in [d : Daemons \cup {None}, v : 0..MaxRules]
      BY <3>1 DEF Replies
    <3> QED
      BY <1>0, <2>2, <3>2, Typing DEF Return
  <2> QED
    BY <2>1, <2>2 DEF Alive, StartByClient, PollTimesOut, RunLocal
<1>8. /\ rules' \in [Daemons -> [v : 0..MaxRules, strict : BOOLEAN]]
      /\ phase' \in [Daemons -> Phases]
  <2>1. CASE UNCHANGED <<phase, rules>>
    BY <1>0, <2>1, Typing
  <2>2. CASE \E d \in Daemons : Spawn(d)
    BY <1>0, <2>2, Typing, LoadedTyped DEF Spawn, Phases
  <2> QED
    BY <2>1, <2>2 DEF Return, Alive, StartByClient, PollTimesOut, RunLocal, daemonVars
<1>9. TypeOK'
  <2>1. Work' = Work /\ platform' = platform
    BY DEF Work
  <2>2. /\ sentAt' \in [Clients -> 0..MaxRules] /\ got' \in [Clients -> Replies \cup {NoReply}]
        /\ op' \in [Clients -> Ops \cup {"none"}] /\ work' \subseteq Work
    BY <1>0, <1>1, Typing
  <2> QED
    BY <1>0, <1>1, <1>3, <1>4, <1>6, <1>7, <1>8, <2>1, <2>2, Zenon DEF TypeOK, Phases
<1>10. Conns'
  BY <1>0, <1>1, <1>3, <1>4, <1>6, AwayKeeps, NotWaiting
<1>11. ASSUME NEW e \in Clients, e # c PROVE Budget(e)' /\ HookRan(e)'
  BY <1>1, <1>3, <1>4, <1>6, <1>11 DEF CInv, Calls, Budget, HookRan
<1>12. Budget(c) /\ HookRan(c) /\ op'[c] = op[c] /\ got'[c] = got[c]
  BY <1>1 DEF CInv, Calls
<1>13. Budget(c)' /\ HookRan(c)'
  <2>1. CASE Return(c)
    <3>1. /\ pc[c] = "await" /\ got[c] # NoReply /\ pc'[c] = AfterAttempt(c)
          /\ hookRuns'[c] = hookRuns[c] /\ tries'[c] = tries[c]
      BY <1>0, <1>1, <2>1, Typing DEF Return, RunLocal, Alive
    <3>2. hookRuns[c] <= tries[c] /\ tries[c] >= 1
      BY <1>12, <3>1 DEF Budget
    <3> QED
      BY <1>0, <1>12, <3>1, <3>2 DEF Budget, HookRan, AfterAttempt
  <2>2. CASE Alive(c)
    <3>1. /\ pc[c] \in {"ensure", "poll"} /\ pc'[c] = "connect"
          /\ hookRuns'[c] = hookRuns[c] /\ tries'[c] = 2
      BY <1>0, <1>1, <2>2, Typing DEF Alive, RunLocal
    <3> QED
      BY <1>0, <1>12, <3>1 DEF Budget, HookRan
  <2>3. CASE StartByClient(c)
    <3>1. /\ pc[c] = "ensure" /\ pc'[c] = "poll"
          /\ hookRuns'[c] = hookRuns[c] /\ tries'[c] = tries[c]
      BY <1>0, <1>1, <2>3, Typing DEF StartByClient, RunLocal, Alive
    <3> QED
      BY <1>0, <1>12, <3>1 DEF Budget, HookRan
  <2>4. CASE PollTimesOut(c)
    <3>1. /\ pc[c] = "poll" /\ pc'[c] = "local"
          /\ hookRuns'[c] = hookRuns[c] /\ tries'[c] = tries[c]
      BY <1>0, <1>1, <2>4, Typing DEF PollTimesOut, RunLocal, Alive
    <3> QED
      BY <1>0, <1>12, <3>1 DEF Budget, HookRan
  <2>5. CASE RunLocal(c)
    <3>1. pc'[c] = "idle" /\ hookRuns'[c] = hookRuns[c] + 1
      BY <1>0, <1>1, <2>5, Typing DEF RunLocal
    <3> QED
      BY <1>0, <3>1 DEF Budget, HookRan
  <2> QED
    BY <2>1, <2>2, <2>3, <2>4, <2>5
<1> QED
  BY <1>9, <1>10, <1>11, <1>13 DEF Calls

LEMMA CallsInit == Init => CInv
<1> SUFFICES ASSUME Init PROVE CInv
  OBVIOUS
<1>1. TypeOK
  <2>1. platform \in Platforms /\ MaxRules \in Nat
    BY RuleDaemonAssumption DEF Init
  <2>2. \A c \in Clients : Len(Plan[platform][c]) \in Nat
    BY <2>1, RuleDaemonAssumption
  <2>3. \A c \in Clients : done[c] \in 0..Len(Plan[platform][c])
    BY <2>2 DEF Init
  <2>4. /\ [v |-> 0, strict |-> FALSE] \in [v : 0..MaxRules, strict : BOOLEAN]
        /\ [d |-> None, v |-> 0] \in [d : Daemons \cup {None}, v : 0..MaxRules]
    BY <2>1
  <2>5. /\ rules \in [Daemons -> [v : 0..MaxRules, strict : BOOLEAN]]
        /\ known \in [Clients -> [d : Daemons \cup {None}, v : 0..MaxRules]]
    BY <2>4 DEF Init
  <2> QED
    BY <2>1, <2>3, <2>5 DEF Init, TypeOK
<1>2. Conns
  BY DEF Init, Conns, OneEach, Awaited, Staged, Unspent, Own
<1>3. Calls
  BY DEF Init, Calls, Budget, HookRan
<1> QED
  BY <1>1, <1>2, <1>3, InitInv DEF CInv

LEMMA CallsNext == CInv /\ [Next]_vars => CInv'
<1> SUFFICES ASSUME CInv, [Next]_vars PROVE CInv'
  OBVIOUS
<1>0. IInv' /\ UNCHANGED platform
  BY NextInv DEF CInv, Next, vars
<1>1. CASE \E d \in Daemons : DaemonStep(d)
  BY <1>0, <1>1, DaemonKeepsCalls, KillKeepsCalls DEF CInv, DaemonStep
<1>2. CASE \E w \in work : ServerStep(w)
  BY <1>0, <1>2, ServerKeepsCalls DEF CInv
<1>3. CASE \E c \in Clients : Begin(c) \/ ClientStep(c)
  BY <1>0, <1>3, BeginKeepsCalls, ConnectKeepsCalls, ReadKeepsCalls, OutsideKeepsCalls
     DEF CInv, ClientStep
<1>4. CASE EditRules
  <2>1. dbRules' \in 0..MaxRules
    BY <1>4, Typing DEF CInv, EditRules
  <2>2. TypeOK /\ lock \in Daemons \cup {None} /\ path \in Daemons \cup {None}
    BY DEF CInv, TypeOK
  <2> QED
    BY <1>0, <1>4, <2>1, <2>2, Typing, ProcessesKeep DEF CInv, EditRules, daemonVars, clientVars
<1>5. CASE UNCHANGED vars
  <2>2. TypeOK /\ lock \in Daemons \cup {None} /\ path \in Daemons \cup {None}
    BY DEF CInv, TypeOK
  <2> QED
    BY <1>0, <1>5, <2>2, Typing, ProcessesKeep DEF CInv, vars
<1> QED
  BY <1>0, <1>1, <1>2, <1>3, <1>4, <1>5 DEF Next, Step

LEMMA CallsInvariance == Spec => []CInv
BY CallsInit, CallsNext, PTL DEF Spec

\* Whatever is lost between a hook command and the daemons - a reply cut short by
\* a kill or a disconnect, a request too large, a daemon that never came up - the
\* event was run by one of them or inline when the command ends.
THEOREM HooksAreHandled == Spec => []HookHandled
<1>1. CInv => HookHandled
  BY DEF CInv, Calls, HookRan, HookHandled
<1> QED
  BY <1>1, CallsInvariance, PTL

-----------------------------------------------------------------------------
\* Why a reload is visible.  A daemon that answered RELOADED has loaded the table,
\* or it is gone, or it is a pipe's server that must do so before its next request.
Reached(d) == phase[d] \notin {"none", "built", "locked"}
Pending(d) == ~Posix /\ \E w \in work : /\ w.d = d
                                        /\ w.stage \in {"sent", "disconnected"}
                                        /\ w.reply.text = "RELOADED"
Fresh(d, v) == Reached(d) /\ (phase[d] = "serving" => rules[d].v >= v \/ Pending(d))

\* The same after a step, for a daemon and a version taken before it.
FreshNext(d, v) ==
  /\ phase'[d] \notin {"none", "built", "locked"}
  /\ phase'[d] = "serving" =>
       \/ rules'[d].v >= v
       \/ /\ platform' # "posix"
          /\ \E w \in work' : /\ w.d = d /\ w.stage \in {"sent", "disconnected"}
                              /\ w.reply.text = "RELOADED"

\* Nobody has seen a table that is not there yet.
Bounded ==
  /\ \A d \in Daemons : rules[d].v <= dbRules
  /\ \A c \in Clients : sentAt[c] <= dbRules /\ known[c].v <= dbRules

ConnOk(w) ==
  /\ w.stage # "queued" => /\ w.reply.d = w.d
                           /\ w.reply.action = "verdict" => w.op = "check"
                           /\ w.op = "reload" => w.reply.action = "RELOADED" /\ w.reply.text = "RELOADED"
  /\ Waits(w.c, w) =>
       /\ w.op = "reload" /\ w.stage = "reacted" => Fresh(w.d, sentAt[w.c])
       /\ w.stage # "queued" /\ w.reply.action = "verdict" /\ w.d = known[w.c].d
            => w.reply.v >= known[w.c].v

ClientOk(c) ==
  /\ known[c].d \in Daemons => Fresh(known[c].d, known[c].v)
  /\ pc[c] = "await" /\ op[c] = "reload" /\ got[c] \notin {NoReply, Silence}
       => /\ got[c].action = "RELOADED" /\ got[c].d \in Daemons
          /\ Fresh(got[c].d, sentAt[c])
  /\ got[c] # NoReply /\ got[c].action = "verdict" /\ got[c].d = known[c].d
       => got[c].v >= known[c].v

Visible == Bounded /\ (\A w \in work : ConnOk(w)) /\ (\A c \in Clients : ClientOk(c))
RInv == CInv /\ Visible

LEMMA SpawnLoads ==
  ASSUME TypeOK, ~DbCanFail, NEW d \in Daemons, Spawn(d)
  PROVE  \A e \in Daemons : /\ rules'[e].v = IF e = d THEN dbRules ELSE rules[e].v
                            /\ phase'[e] = IF e = d THEN "built" ELSE phase[e]
                            /\ phase[d] = "none"
<1>1. PICK r \in LoadedRules : rules' = [rules EXCEPT ![d] = r]
  BY DEF Spawn
<1>2. r.v = dbRules
  BY LoadedTyped
<1> QED
  BY <1>1, <1>2, Typing DEF Spawn

LEMMA ReactLoads ==
  ASSUME TypeOK, ~DbCanFail, NEW w \in Work, NEW next, React(w, next)
  PROVE  /\ \A e \in Daemons : rules'[e].v = IF e = w.d /\ w.reply.text = "RELOADED"
                                             THEN dbRules ELSE rules[e].v
         /\ \A e \in Daemons : phase'[e] = phase[e] \/ (e = w.d /\ phase'[e] = "stopping")
<1>1. w.d \in Daemons
  BY WorkFields
<1>2. CASE w.reply.text = "RELOADED"
  <2>1. PICK r \in LoadedRules : rules' = [rules EXCEPT ![w.d] = r]
    BY <1>2 DEF React
  <2>2. r.v = dbRules
    BY LoadedTyped
  <2>3. phase' = phase
    BY <1>2 DEF React
  <2> QED
    BY <1>1, <1>2, <2>1, <2>2, <2>3, Typing
<1>3. CASE w.reply.text # "RELOADED"
  BY <1>1, <1>3, Typing DEF React
<1> QED
  BY <1>2, <1>3

LEMMA HandleLoads ==
  ASSUME TypeOK, NEW w \in Work, Handle(w)
  PROVE  \A e \in Daemons : rules'[e].v = rules[e].v
<1> DEFINE r == [rules[w.d] EXCEPT !.strict = (w.op = "strict_on")]
<1>1. w.d \in Daemons /\ rules[w.d] \in [v : 0..MaxRules, strict : BOOLEAN]
  BY WorkFields, Typing
<1>2. r.v = rules[w.d].v
  BY <1>1
<1>3. rules' = rules \/ rules' = [rules EXCEPT ![w.d] = r]
  BY DEF Handle
<1> HIDE DEF r
<1> QED
  BY <1>1, <1>2, <1>3, Typing

\* A process never loads an older table.
LEMMA RulesGrow ==
  ASSUME RInv, ~DbCanFail, UNCHANGED platform, Step
  PROVE  /\ dbRules' \in 0..MaxRules /\ dbRules' >= dbRules
         /\ \A d \in Daemons : rules'[d].v = rules[d].v \/ rules'[d].v = dbRules
<1>0. TypeOK /\ work \subseteq Work /\ dbRules \in 0..MaxRules
  BY Typing DEF RInv, CInv
<1>1. CASE \E d \in Daemons : DaemonStep(d)
  <2>1. PICK d \in Daemons : DaemonStep(d)
    BY <1>1
  <2>2. dbRules' = dbRules
    BY <2>1 DEF DaemonStep, Start, AcquireSingleton, CreateEndpoint, Release, Exit, Kill
  <2>3. CASE Start(d)
    BY <1>0, <2>2, <2>3, SpawnLoads DEF Start
  <2>4. CASE rules' = rules
    BY <1>0, <2>2, <2>4
  <2> QED
    BY <2>1, <2>3, <2>4 DEF DaemonStep, AcquireSingleton, CreateEndpoint, Release, Exit, Kill
<1>2. CASE \E w \in work : ServerStep(w)
  <2>1. PICK w \in work : ServerStep(w)
    BY <1>2
  <2>2. dbRules' = dbRules /\ w \in Work
    BY <1>0, <2>1 DEF ServerStep, Handle, Send, ReactPosix, Close, Disconnect, ReactWindows
  <2>3. CASE Handle(w)
    BY <1>0, <2>2, <2>3, HandleLoads
  <2>4. CASE ReactPosix(w) \/ ReactWindows(w)
    BY <1>0, <2>2, <2>4, ReactLoads DEF ReactPosix, ReactWindows
  <2>5. CASE Send(w) \/ Close(w) \/ Disconnect(w)
    BY <1>0, <2>2, <2>5 DEF Send, Close, Disconnect, daemonVars
  <2> QED
    BY <2>1, <2>3, <2>4, <2>5 DEF ServerStep
<1>3. CASE \E c \in Clients : Begin(c) \/ ClientStep(c)
  <2>1. PICK c \in Clients : Begin(c) \/ ClientStep(c)
    BY <1>3
  <2>2. dbRules' = dbRules
    BY <2>1 DEF ClientStep, Begin, Connect, Read, Return, Alive, StartByClient, PollTimesOut, RunLocal
  <2>3. CASE \E d \in Daemons : Spawn(d)
    BY <1>0, <2>2, <2>3, SpawnLoads
  <2>4. CASE rules' = rules
    BY <1>0, <2>2, <2>4
  <2> QED
    BY <2>1, <2>3, <2>4
       DEF ClientStep, Begin, Connect, Read, Return, Alive, StartByClient, PollTimesOut, RunLocal, daemonVars
<1>4. CASE EditRules
  BY <1>0, <1>4, Typing DEF EditRules, daemonVars
<1> QED
  BY <1>1, <1>2, <1>3, <1>4 DEF Step

\* A daemon that has served serves on or is on its way out.
LEMMA PhasesMove ==
  ASSUME RInv, ~DbCanFail, UNCHANGED platform, Step, NEW d \in Daemons, Reached(d)
  PROVE  Reached(d)' /\ (phase'[d] = "serving" => phase[d] = "serving")
<1>0. TypeOK /\ work \subseteq Work /\ phase \in [Daemons -> Phases]
  BY Typing DEF RInv, CInv
<1>1. CASE \E e \in Daemons : DaemonStep(e)
  <2>1. PICK e \in Daemons : DaemonStep(e)
    BY <1>1
  <2>2. phase'[d] = phase[d]
        \/ (phase[d] \in {"none", "built", "locked"})
        \/ (phase'[d] \in {"released", "gone"})
    BY <1>0, <2>1 DEF DaemonStep, Start, Spawn, AcquireSingleton, CreateEndpoint, Release, Exit, Kill
  <2> QED
    BY <2>2 DEF Reached
<1>2. CASE \E w \in work : ServerStep(w)
  <2>1. PICK w \in work : ServerStep(w)
    BY <1>2
  <2>2. phase'[d] = phase[d] \/ phase'[d] = "stopping"
    <3>1. CASE ReactPosix(w) \/ ReactWindows(w)
      BY <1>0, <3>1, ReactLoads DEF ReactPosix, ReactWindows
    <3> QED
      BY <2>1, <3>1 DEF ServerStep, Handle, Send, Close, Disconnect, daemonVars
  <2> QED
    BY <2>2 DEF Reached
<1>3. CASE \E c \in Clients : Begin(c) \/ ClientStep(c)
  <2>1. PICK c \in Clients : Begin(c) \/ ClientStep(c)
    BY <1>3
  <2>2. CASE \E e \in Daemons : Spawn(e)
    BY <1>0, <2>2, SpawnLoads DEF Reached
  <2>3. CASE phase' = phase
    BY <2>3 DEF Reached
  <2> QED
    BY <2>1, <2>2, <2>3
       DEF ClientStep, Begin, Connect, Read, Return, Alive, StartByClient, PollTimesOut, RunLocal, daemonVars
<1>4. CASE EditRules
  BY <1>4 DEF EditRules, daemonVars, Reached
<1> QED
  BY <1>1, <1>2, <1>3, <1>4 DEF Step

\* A pipe's server leaves a connection that asked for a reload only by reloading.
LEMMA PendingStays ==
  ASSUME RInv, ~DbCanFail, UNCHANGED platform, Step, NEW d \in Daemons, Pending(d),
         phase'[d] = "serving"
  PROVE  Pending(d)' \/ rules'[d].v = dbRules
<1>0. TypeOK /\ work \subseteq Work /\ phase \in [Daemons -> Phases]
  BY Typing DEF RInv, CInv
<1>1. PICK v \in work : /\ v.d = d /\ v.stage \in {"sent", "disconnected"}
                        /\ v.reply.text = "RELOADED"
  BY DEF Pending
<1>2. v \in work' => Pending(d)'
  BY <1>1 DEF Pending
<1>3. CASE \E e \in Daemons : DaemonStep(e)
  <2>1. PICK e \in Daemons : DaemonStep(e)
    BY <1>3
  <2>2. CASE Kill(e)
    <3>1. phase'[e] = "gone"
      BY <1>0, <2>2 DEF Kill
    <3> QED
      BY <1>1, <1>2, <2>2, <3>1 DEF Kill
  <2> QED
    BY <1>2, <2>1, <2>2 DEF DaemonStep, Start, AcquireSingleton, CreateEndpoint, Release, Exit
<1>4. CASE \E w \in work : ServerStep(w)
  <2>1. PICK w \in work : ServerStep(w)
    BY <1>4
  <2>2. CASE v # w
    BY <1>2, <2>1, <2>2
       DEF ServerStep, Handle, Send, ReactPosix, React, Close, ClosePosix, Disconnect, ReactWindows
  <2>3. CASE v = w /\ Disconnect(w)
    <3> DEFINE new == [w EXCEPT !.stage = "disconnected"]
    <3>1. new.d = d /\ new.stage = "disconnected" /\ new.reply.text = "RELOADED"
      BY <1>0, <1>1, <2>3 DEF Work
    <3>2. new \in work'
      BY <2>3 DEF Disconnect
    <3> HIDE DEF new
    <3> QED
      BY <3>1, <3>2 DEF Pending
  <2>4. CASE v = w /\ ReactWindows(w)
    BY <1>0, <1>1, <2>4, ReactLoads DEF ReactWindows
  <2> QED
    BY <1>1, <2>1, <2>2, <2>3, <2>4 DEF ServerStep, Handle, Send, ReactPosix, Close, ClosePosix, Pending
<1>5. CASE \E c \in Clients : Begin(c) \/ ClientStep(c)
  BY <1>2, <1>5
     DEF ClientStep, Begin, Connect, Read, Return, Alive, StartByClient, PollTimesOut, RunLocal
<1>6. CASE EditRules
  BY <1>2, <1>6 DEF EditRules
<1> QED
  BY <1>3, <1>4, <1>5, <1>6 DEF Step

LEMMA FreshStays ==
  ASSUME RInv, ~DbCanFail, UNCHANGED platform, Step,
         NEW d \in Daemons, NEW v \in Nat, v <= dbRules, Fresh(d, v)
  PROVE  FreshNext(d, v)
<1>1. /\ dbRules \in Nat /\ rules[d].v \in Nat /\ rules[d].v <= dbRules
  BY Typing DEF RInv, CInv, Visible, Bounded
<1>2. rules'[d].v = rules[d].v \/ rules'[d].v = dbRules
  BY RulesGrow
<1>3. Reached(d)' /\ (phase'[d] = "serving" => phase[d] = "serving")
  BY PhasesMove DEF Fresh
<1>4. Pending(d) /\ phase'[d] = "serving" => Pending(d)' \/ rules'[d].v = dbRules
  BY PendingStays
<1> QED
  BY <1>1, <1>2, <1>3, <1>4 DEF Fresh, FreshNext, Reached, Pending

LEMMA VisibleTypes ==
  ASSUME RInv
  PROVE  /\ TypeOK /\ work \subseteq Work /\ dbRules \in Nat
         /\ \A d \in Daemons : rules[d].v \in Nat /\ rules[d].v <= dbRules
         /\ \A c \in Clients : /\ sentAt[c] \in Nat /\ sentAt[c] <= dbRules
                               /\ known[c].v \in Nat /\ known[c].v <= dbRules
                               /\ got[c] \in Replies \cup {NoReply}
                               /\ ClientOk(c)
         /\ \A w \in work : /\ w.c \in Clients /\ w.d \in Daemons /\ phase[w.d] = "serving"
                            /\ w.reply \in Replies /\ ConnOk(w)
<1>1. TypeOK /\ work \subseteq Work /\ dbRules \in Nat
  BY Typing DEF RInv, CInv
<1>2. \A d \in Daemons : rules[d].v \in Nat /\ rules[d].v <= dbRules
  BY <1>1, Typing DEF RInv, Visible, Bounded
<1>3. \A c \in Clients : /\ sentAt[c] \in Nat /\ sentAt[c] <= dbRules
                         /\ known[c].v \in Nat /\ known[c].v <= dbRules
                         /\ got[c] \in Replies \cup {NoReply}
                         /\ ClientOk(c)
  BY <1>1, Typing DEF RInv, Visible, Bounded
<1>4. \A w \in work : /\ w.c \in Clients /\ w.d \in Daemons /\ phase[w.d] = "serving"
                      /\ w.reply \in Replies /\ ConnOk(w)
  BY <1>1, WorkFields DEF RInv, CInv, IInv, WorkServed, Visible
<1> QED
  BY <1>1, <1>2, <1>3, <1>4

\* A connection the step does not touch.
LEMMA ConnStays ==
  ASSUME RInv, ~DbCanFail, UNCHANGED platform, Step,
         NEW w \in work,
         Waits(w.c, w)' => /\ Waits(w.c, w)
                           /\ sentAt'[w.c] = sentAt[w.c] /\ known'[w.c] = known[w.c]
  PROVE  ConnOk(w)'
<1>1. /\ w.d \in Daemons /\ sentAt[w.c] \in Nat /\ sentAt[w.c] <= dbRules /\ ConnOk(w)
  BY VisibleTypes
<1>2. Fresh(w.d, sentAt[w.c]) => FreshNext(w.d, sentAt[w.c])
  BY <1>1, FreshStays
<1>3. FreshNext(w.d, sentAt'[w.c]) => Fresh(w.d, sentAt[w.c])'
  BY DEF Fresh, FreshNext, Reached, Pending
<1> QED
  BY <1>1, <1>2, <1>3 DEF ConnOk

LEMMA ClientNext ==
  ASSUME NEW c \in Clients,
         known'[c].d \in Daemons => FreshNext(known'[c].d, known'[c].v),
         pc'[c] = "await" /\ op'[c] = "reload" /\ got'[c] \notin {NoReply, Silence}
           => /\ got'[c].action = "RELOADED" /\ got'[c].d \in Daemons
              /\ FreshNext(got'[c].d, sentAt'[c]),
         got'[c] # NoReply /\ got'[c].action = "verdict" /\ got'[c].d = known'[c].d
           => got'[c].v >= known'[c].v
  PROVE  ClientOk(c)'
BY DEF ClientOk, Fresh, FreshNext, Reached, Pending

\* A client that is not given a reply, nor returns one.
LEMMA ClientStays ==
  ASSUME RInv, ~DbCanFail, UNCHANGED platform, Step,
         NEW c \in Clients, known'[c] = known[c], got'[c] \in {got[c], NoReply, Silence},
         pc'[c] = "await" /\ got'[c] \notin {NoReply, Silence}
           => /\ pc[c] = "await" /\ op'[c] = op[c] /\ sentAt'[c] = sentAt[c]
              /\ got'[c] = got[c]
  PROVE  ClientOk(c)'
<1>1. /\ ClientOk(c) /\ sentAt[c] \in Nat /\ sentAt[c] <= dbRules
      /\ known[c].v \in Nat /\ known[c].v <= dbRules
  BY VisibleTypes
<1>2. known[c].d \in Daemons => FreshNext(known[c].d, known[c].v)
  BY <1>1, FreshStays DEF ClientOk
<1>3. ASSUME pc'[c] = "await", op'[c] = "reload", got'[c] \notin {NoReply, Silence}
      PROVE  got[c].action = "RELOADED" /\ got[c].d \in Daemons /\ FreshNext(got[c].d, sentAt[c])
  <2>1. got[c].action = "RELOADED" /\ got[c].d \in Daemons /\ Fresh(got[c].d, sentAt[c])
    BY <1>1, <1>3 DEF ClientOk
  <2> QED
    BY <1>1, <2>1, FreshStays
<1>4. Silence.action = "none"
  BY DEF Silence, Reply
<1>5. got'[c] # NoReply /\ got'[c].action = "verdict" /\ got'[c].d = known[c].d
        => got'[c].v >= known[c].v
  BY <1>1, <1>4 DEF ClientOk
<1> QED
  BY <1>2, <1>3, <1>5, ClientNext

\* A client that is given the reply it waits for.
LEMMA ReplyArrives ==
  ASSUME RInv, ~DbCanFail, UNCHANGED platform, Step,
         NEW w \in work, Waits(w.c, w), w.stage # "queued", got'[w.c] = w.reply,
         op'[w.c] = op[w.c], sentAt'[w.c] = sentAt[w.c], known'[w.c] = known[w.c],
         w.op = "reload" => FreshNext(w.d, sentAt[w.c])
  PROVE  ClientOk(w.c)'
<1> DEFINE c == w.c
<1>1. /\ c \in Clients /\ w.d \in Daemons /\ ConnOk(w) /\ ClientOk(c)
      /\ known[c].v \in Nat /\ known[c].v <= dbRules
  BY VisibleTypes
<1>2. w.op = op[c]
  BY DEF RInv, CInv, Conns, Own
<1>3. known[c].d \in Daemons => FreshNext(known[c].d, known[c].v)
  BY <1>1, FreshStays DEF ClientOk
<1>4. op'[c] = "reload" => /\ got'[c].action = "RELOADED" /\ got'[c].d \in Daemons
                           /\ FreshNext(got'[c].d, sentAt'[c])
  BY <1>1, <1>2 DEF ConnOk
<1>5. got'[c].action = "verdict" /\ got'[c].d = known[c].d => got'[c].v >= known[c].v
  BY <1>1 DEF ConnOk
<1> QED
  BY <1>1, <1>3, <1>4, <1>5, ClientNext

LEMMA BoundedStays ==
  ASSUME RInv, ~DbCanFail, UNCHANGED platform, Step,
         \A c \in Clients : sentAt'[c] \in {sentAt[c], dbRules},
         \A c \in Clients : known'[c].v \in {known[c].v, sentAt[c]}
  PROVE  Bounded'
<1>1. dbRules' \in Nat /\ dbRules' >= dbRules
  BY RulesGrow
<1>2. \A d \in Daemons : rules'[d].v <= dbRules'
  BY <1>1, RulesGrow, VisibleTypes
<1>3. \A c \in Clients : sentAt'[c] <= dbRules' /\ known'[c].v <= dbRules'
  BY <1>1, VisibleTypes
<1> QED
  BY <1>2, <1>3 DEF Bounded

\* A step of the daemons' side.
LEMMA ServerVisible ==
  ASSUME RInv, ~DbCanFail, UNCHANGED platform, Step,
         UNCHANGED <<sentAt, known, pc, op>>,
         \A c \in Clients : \/ got'[c] = got[c]
                            \/ got'[c] # NoReply /\ (got'[c] = Silence \/ ClientOk(c)'),
         \A w \in work' : w \in work \/ ConnOk(w)'
  PROVE  Visible'
<1>1. Bounded'
  BY BoundedStays
<1>2. \A c \in Clients : ClientOk(c)'
  BY ClientStays
<1>3. ASSUME NEW w \in work', w \in work PROVE ConnOk(w)'
  <2>1. w.c \in Clients
    BY <1>3, VisibleTypes
  <2>2. Waits(w.c, w)' => Waits(w.c, w)
    BY <2>1 DEF Waits
  <2> QED
    BY <1>3, <2>2, ConnStays
<1> QED
  BY <1>1, <1>2, <1>3 DEF Visible

\* A step of one client.
LEMMA CallerVisible ==
  ASSUME RInv, ~DbCanFail, UNCHANGED platform, Step, NEW c \in Clients,
         \A e \in Clients : e # c =>
           UNCHANGED <<sentAt[e], known[e], pc[e], op[e], got[e]>>,
         sentAt'[c] \in {sentAt[c], dbRules}, known'[c].v \in {known[c].v, sentAt[c]},
         ClientOk(c)',
         \A w \in work' : (w \in work /\ (w.c = c => ~Waits(c, w)')) \/ ConnOk(w)'
  PROVE  Visible'
<1>1. Bounded'
  BY BoundedStays
<1>2. \A e \in Clients : ClientOk(e)'
  BY ClientStays
<1>3. ASSUME NEW w \in work', w \in work, w.c = c => ~Waits(c, w)'
      PROVE  ConnOk(w)'
  <2>1. w.c \in Clients
    BY <1>3, VisibleTypes
  <2>2. Waits(w.c, w)' => /\ Waits(w.c, w)
                          /\ sentAt'[w.c] = sentAt[w.c] /\ known'[w.c] = known[w.c]
    BY <1>3, <2>1 DEF Waits
  <2> QED
    BY <1>3, <2>2, ConnStays
<1> QED
  BY <1>1, <1>2, <1>3 DEF Visible

LEMMA DaemonVisible ==
  ASSUME RInv, ~DbCanFail, UNCHANGED platform, Step,
         EditRules \/ \E d \in Daemons : DaemonStep(d)
  PROVE  Visible'
<1>1. CASE EditRules
  BY <1>1, ServerVisible DEF EditRules, clientVars
<1>2. ASSUME NEW d \in Daemons, DaemonStep(d), ~Kill(d) PROVE Visible'
  <2>1. UNCHANGED <<work, got, sentAt, known, pc, op>>
    BY <1>2 DEF DaemonStep, Start, AcquireSingleton, CreateEndpoint, Release, Exit, clientVars
  <2> QED
    BY <2>1, ServerVisible
<1>3. ASSUME NEW d \in Daemons, Kill(d) PROVE Visible'
  <2>1. UNCHANGED <<sentAt, known, pc, op>> /\ work' = {w \in work : w.d # d}
    BY <1>3 DEF Kill, clientVars
  <2>2. phase'[d] = "gone"
    BY <1>3, VisibleTypes, Typing DEF Kill
  <2>3. Silence # NoReply
    BY RuleDaemonAssumption, NoReplyAssumption DEF Silence, Reply, Replies, Markers
  <2>4. ASSUME NEW c \in Clients, got'[c] # got[c]
        PROVE  got'[c] # NoReply /\ (got'[c] = Silence \/ ClientOk(c)')
    <3>1. PICK w \in work : w.d = d /\ Waits(c, w)
      BY <1>3, <2>4 DEF Kill
    <3>2. w.c = c /\ Waits(w.c, w) /\ w.reply \in Replies
      BY <3>1, VisibleTypes DEF Waits
    <3> DEFINE u == CHOOSE v \in work : v.d = d /\ v.c = c
    <3>3. u \in work /\ u.c = c
      BY <3>1, <3>2
    <3>4. u = w
      BY <3>2, <3>3 DEF RInv, CInv, Conns, OneEach
    <3>5. got'[c] = IF u.stage \in {"sent", "reacted"} THEN u.reply ELSE Silence
      BY <1>3, <3>1 DEF Kill
    <3> HIDE DEF u
    <3>6. CASE got'[c] = Silence
      BY <2>3, <3>6
    <3>7. CASE w.stage \in {"sent", "reacted"} /\ got'[c] = w.reply
      <4>1. FreshNext(w.d, sentAt[w.c])
        BY <2>2, <3>1 DEF FreshNext
      <4>2. ClientOk(w.c)'
        BY <2>1, <3>2, <3>7, <4>1, ReplyArrives
      <4> QED
        BY <3>2, <3>7, <4>2, NoReplyAssumption
    <3> QED
      BY <3>4, <3>5, <3>6, <3>7
  <2> QED
    BY <2>1, <2>4, ServerVisible
<1> QED
  BY <1>1, <1>2, <1>3

\* A check is answered by a table no older than the one its client knows of: a
\* pipe's server that still has to reload has no other connection to answer.
LEMMA HandleVisible ==
  ASSUME RInv, ~DbCanFail, UNCHANGED platform, Step, NEW w \in work, Handle(w)
  PROVE  Visible'
<1>0. /\ TypeOK /\ w \in Work /\ w.stage = "queued" /\ phase[w.d] = "serving" /\ Sized(w)
      /\ w.c \in Clients /\ w.d \in Daemons
  BY VisibleTypes DEF Handle, RInv, CInv, Conns
<1>1. PICK a \in Answers(w) :
        work' = (work \ {w}) \cup {[w EXCEPT !.stage = "handled", !.reply = a]}
  BY DEF Handle
<1> DEFINE new == [w EXCEPT !.stage = "handled", !.reply = a]
<1>2. /\ a.d = w.d /\ a.v = rules[w.d].v
      /\ a.action = "verdict" => w.op = "check"
      /\ w.op = "reload" => a.action = "RELOADED" /\ a.text = "RELOADED"
  BY <1>0, AnswersTyped
<1>3. new.stage = "handled" /\ new.d = w.d /\ new.c = w.c /\ new.op = w.op /\ new.reply = a
  BY <1>0 DEF Work
<1>4. work' = (work \ {w}) \cup {new}
  BY <1>1
<1> HIDE DEF new
<1>5. UNCHANGED <<pc, op, got, sentAt, known>>
  BY DEF Handle, clientVars
<1>6. ~Pending(w.d)
  BY <1>0 DEF Pending, RInv, CInv, IInv, Serial
<1>7. w.d = known[w.c].d => rules[w.d].v >= known[w.c].v
  BY <1>0, <1>6, VisibleTypes DEF ClientOk, Fresh
<1>8. ConnOk(new)'
  BY <1>2, <1>3, <1>5, <1>7 DEF ConnOk
<1> QED
  BY <1>4, <1>5, <1>8, ServerVisible

\* The connection after a later step, with what that step must establish.
LEMMA StageVisible ==
  ASSUME RInv, ~DbCanFail, UNCHANGED platform, Step, NEW w \in work, w.stage # "queued",
         NEW s \in {"sent", "reacted", "disconnected"},
         work' = (work \ {w}) \cup {[w EXCEPT !.stage = s]},
         UNCHANGED <<sentAt, known, pc, op>>,
         s = "reacted" => UNCHANGED got /\ (w.op = "reload" => FreshNext(w.d, sentAt[w.c])),
         \A c \in Clients : got'[c] = got[c] \/ (got'[c] # NoReply /\ got'[c] = Silence)
  PROVE  Visible'
<1> DEFINE new == [w EXCEPT !.stage = s]
<1>0. w \in Work /\ w.c \in Clients
  BY VisibleTypes
<1>1. /\ new.stage = s /\ new.d = w.d /\ new.c = w.c /\ new.op = w.op
      /\ new.reply = w.reply
  BY <1>0 DEF Work
<1>2. work' = (work \ {w}) \cup {new}
  OBVIOUS
<1> HIDE DEF new
<1>3. Waits(new.c, new)' => Waits(w.c, w)
  BY <1>0, <1>1 DEF Waits
<1>4. ConnOk(w)
  BY VisibleTypes
<1>5. FreshNext(w.d, sentAt[w.c]) => Fresh(new.d, sentAt[new.c])'
  BY <1>1 DEF Fresh, FreshNext, Reached, Pending
<1>6. ConnOk(new)'
  BY <1>1, <1>3, <1>4, <1>5 DEF ConnOk
<1> QED
  BY <1>2, <1>6, ServerVisible

LEMMA ServerStepVisible ==
  ASSUME RInv, ~DbCanFail, UNCHANGED platform, Step, NEW w \in work, ServerStep(w)
  PROVE  Visible'
<1>0. /\ TypeOK /\ w \in Work /\ w.c \in Clients /\ w.d \in Daemons /\ phase[w.d] = "serving"
      /\ ConnOk(w) /\ w.reply \in Replies /\ Silence # NoReply
      /\ sentAt[w.c] \in Nat /\ sentAt[w.c] <= dbRules
  <2>1. Silence # NoReply
    BY RuleDaemonAssumption, NoReplyAssumption DEF Silence, Reply, Replies, Markers
  <2> QED
    BY <2>1, VisibleTypes
<1>1. CASE Handle(w)
  BY <1>1, HandleVisible
<1>2. CASE Send(w)
  BY <1>2, StageVisible DEF Send, clientVars
<1>3. CASE ReactPosix(w)
  <2>1. w.op = "reload" => FreshNext(w.d, sentAt[w.c])
    <3>1. w.op = "reload" => rules'[w.d].v = dbRules
      BY <1>0, <1>3, ReactLoads DEF ReactPosix, ConnOk
    <3>2. phase'[w.d] \in {"serving", "stopping"}
      BY <1>0, <1>3, ReactLoads DEF ReactPosix
    <3> QED
      BY <1>0, <3>1, <3>2 DEF FreshNext
  <2>2. /\ w.stage = "sent" /\ work' = (work \ {w}) \cup {[w EXCEPT !.stage = "reacted"]}
        /\ UNCHANGED <<got, sentAt, known, pc, op>>
    BY <1>3 DEF ReactPosix, React, clientVars
  <2> QED
    BY <2>1, <2>2, StageVisible
<1>4. CASE Close(w)
  <2>1. /\ w.stage = "reacted" /\ work' = work \ {w} /\ got' = [got EXCEPT ![w.c] = w.reply]
        /\ UNCHANGED <<sentAt, known, pc, op>>
    BY <1>4 DEF Close, ClosePosix, clientVars
  <2>2. Waits(w.c, w)
    BY <2>1 DEF RInv, CInv, Conns, Awaited, Staged
  <2>3. w.op = "reload" => FreshNext(w.d, sentAt[w.c])
    BY <1>0, <2>1, <2>2, FreshStays DEF ConnOk
  <2>4. got'[w.c] = w.reply /\ \A c \in Clients : c # w.c => got'[c] = got[c]
    BY <1>0, <2>1, Typing
  <2>5. ClientOk(w.c)'
    BY <2>1, <2>2, <2>3, <2>4, ReplyArrives
  <2> QED
    BY <1>0, <2>1, <2>4, <2>5, ServerVisible, NoReplyAssumption
<1>5. CASE Disconnect(w)
  <2>1. \A c \in Clients : got'[c] = got[c] \/ (got'[c] # NoReply /\ got'[c] = Silence)
    BY <1>0, <1>5, Typing DEF Disconnect
  <2> QED
    BY <1>5, <2>1, StageVisible DEF Disconnect, clientVars
<1>6. CASE ReactWindows(w)
  BY <1>6, ServerVisible DEF ReactWindows, React, clientVars
<1> QED
  BY <1>1, <1>2, <1>3, <1>4, <1>5, <1>6 DEF ServerStep

LEMMA ClientStepVisible ==
  ASSUME RInv, ~DbCanFail, UNCHANGED platform, Step, NEW c \in Clients, Begin(c) \/ ClientStep(c),
         Conns'
  PROVE  Visible'
<1>0. /\ TypeOK /\ ClientOk(c) /\ Silence # NoReply
      /\ \A w \in work : Waits(c, w) => w.c = c
  <2>1. Silence # NoReply
    BY RuleDaemonAssumption, NoReplyAssumption DEF Silence, Reply, Replies, Markers
  <2> QED
    BY <2>1, VisibleTypes DEF Waits
<1>1. CASE Connect(c)
  <2>1. /\ UNCHANGED <<op, known>>
        /\ pc'[c] = "await" /\ sentAt'[c] = dbRules
        /\ \A e \in Clients : e # c => UNCHANGED <<sentAt[e], known[e], pc[e], op[e], got[e]>>
        /\ got'[c] \in {NoReply, Silence}
    BY <1>0, <1>1, Typing DEF Connect
  <2>2. ClientOk(c)'
    BY <2>1, ClientStays
  <2>3. CASE UNCHANGED work /\ got' = [got EXCEPT ![c] = Silence]
    <3>1. \A w \in work' : ~Waits(c, w)'
      BY <1>0, <2>3, Typing DEF Waits
    <3> QED
      BY <2>1, <2>2, <2>3, <3>1, CallerVisible
  <2>4. CASE \E d \in Daemons, p \in PayloadsOf(op[c]) :
             /\ Accepting(d)
             /\ work' = work \cup {[d |-> d, c |-> c, op |-> op[c], payload |-> p,
                                    stage |-> "queued", reply |-> Silence]}
    <3>1. PICK d \in Daemons, p \in PayloadsOf(op[c]) :
             work' = work \cup {[d |-> d, c |-> c, op |-> op[c], payload |-> p,
                                 stage |-> "queued", reply |-> Silence]}
      BY <2>4
    <3> DEFINE new == [d |-> d, c |-> c, op |-> op[c], payload |-> p,
                       stage |-> "queued", reply |-> Silence]
    <3>2. new.c = c /\ new.stage = "queued"
      OBVIOUS
    <3>3. work' = work \cup {new}
      BY <3>1
    <3> HIDE DEF new
    <3>4. \A w \in work' : w = new \/ (w \in work /\ w.c # c)
      BY <3>2, <3>3 DEF Conns, OneEach
    <3>5. ASSUME NEW w \in work', w = new PROVE ConnOk(w)'
      BY <3>2, <3>5 DEF ConnOk
    <3> QED
      BY <2>1, <2>2, <3>4, <3>5, CallerVisible
  <2> QED
    BY <1>1, <2>3, <2>4 DEF Connect
<1>2. CASE Read(c)
  <2>1. PICK w \in work : Waits(c, w) /\ w.stage = "sent" /\ got' = [got EXCEPT ![c] = w.reply]
    BY <1>2 DEF Read
  <2>2. ~Posix /\ UNCHANGED <<work, pc, op, sentAt, known, rules, phase>>
    BY <1>2 DEF Read, daemonVars, clientVars
  <2>3. w.c = c /\ w.reply # NoReply /\ Waits(w.c, w) /\ phase[w.d] = "serving" /\ ConnOk(w)
    BY <1>0, <2>1, VisibleTypes, NoReplyAssumption
  <2>4. /\ got'[c] = w.reply
        /\ \A e \in Clients : e # c => UNCHANGED <<sentAt[e], known[e], pc[e], op[e], got[e]>>
    BY <1>0, <2>1, <2>2, Typing
  <2>5. w.op = "reload" => FreshNext(w.d, sentAt[w.c])
    BY <2>1, <2>2, <2>3 DEF FreshNext, ConnOk
  <2>6. ClientOk(c)'
    BY <2>1, <2>2, <2>3, <2>4, <2>5, ReplyArrives
  <2>7. \A v \in work' : ~Waits(c, v)'
    BY <2>3, <2>4 DEF Waits
  <2> QED
    BY <2>2, <2>4, <2>6, <2>7, CallerVisible
<1>3. CASE Return(c)
  <2>1. /\ pc[c] = "await" /\ got[c] # NoReply /\ UNCHANGED <<work, got, op, sentAt>>
        /\ pc' = [pc EXCEPT ![c] = AfterAttempt(c)] /\ AfterAttempt(c) # "await"
        /\ known' = IF op[c] = "reload" /\ got[c] # Silence
                    THEN [known EXCEPT ![c] = [d |-> got[c].d, v |-> sentAt[c]]]
                    ELSE known
    BY <1>3 DEF Return, AfterAttempt
  <2>2. /\ pc'[c] # "await"
        /\ \A e \in Clients : e # c => UNCHANGED <<sentAt[e], known[e], pc[e], op[e], got[e]>>
    BY <1>0, <2>1, Typing
  <2>3. CASE op[c] = "reload" /\ got[c] # Silence
    <3>1. known'[c] = [d |-> got[c].d, v |-> sentAt[c]]
      BY <1>0, <2>1, <2>3, Typing
    <3>2. got[c].action = "RELOADED" /\ got[c].d \in Daemons /\ Fresh(got[c].d, sentAt[c])
      BY <1>0, <2>1, <2>3 DEF ClientOk
    <3>3. FreshNext(got[c].d, sentAt[c])
      BY <3>2, VisibleTypes, FreshStays
    <3>4. FreshNext(known'[c].d, known'[c].v)
      BY <3>1, <3>3
    <3>5. ClientOk(c)'
      BY <2>1, <2>2, <3>2, <3>4, ClientNext
    <3>6. \A w \in work' : ~Waits(c, w)'
      BY <2>2 DEF Waits
    <3> QED
      BY <2>1, <2>2, <3>1, <3>5, <3>6, CallerVisible
  <2>4. CASE ~(op[c] = "reload" /\ got[c] # Silence)
    <3>1. known' = known
      BY <2>1, <2>4
    <3>2. ClientOk(c)'
      BY <2>1, <2>2, <3>1, ClientStays
    <3>3. \A w \in work' : ~Waits(c, w)'
      BY <2>2 DEF Waits
    <3> QED
      BY <2>1, <2>2, <3>1, <3>2, <3>3, CallerVisible
  <2> QED
    BY <2>3, <2>4
<1>4. CASE Begin(c) \/ Alive(c) \/ StartByClient(c) \/ PollTimesOut(c) \/ RunLocal(c)
  <2>1. UNCHANGED <<work, got, sentAt, known>>
    BY <1>4 DEF Begin, Alive, StartByClient, PollTimesOut, RunLocal
  <2>2. /\ pc'[c] # "await"
        /\ \A e \in Clients : e # c => UNCHANGED <<pc[e], op[e]>>
    BY <1>0, <1>4, Typing DEF Begin, Alive, StartByClient, PollTimesOut, RunLocal
  <2>3. ClientOk(c)'
    BY <2>1, <2>2, ClientStays
  <2>4. \A w \in work' : ~Waits(c, w)'
    BY <2>2 DEF Waits
  <2> QED
    BY <2>1, <2>2, <2>3, <2>4, CallerVisible
<1> QED
  BY <1>1, <1>2, <1>3, <1>4 DEF ClientStep

LEMMA VisibleInit == Init => RInv
<1> SUFFICES ASSUME Init PROVE RInv
  OBVIOUS
<1>1. CInv
  BY CallsInit
<1>2. Bounded
  BY DEF Init, Bounded
<1>3. \A w \in work : ConnOk(w)
  BY DEF Init
<1>4. \A c \in Clients : ClientOk(c)
  BY RuleDaemonAssumption DEF Init, ClientOk
<1> QED
  BY <1>1, <1>2, <1>3, <1>4 DEF RInv, Visible

LEMMA VisibleNext ==
  ASSUME ~DbCanFail
  PROVE  RInv /\ [Next]_vars => RInv'
<1> SUFFICES ASSUME RInv, [Next]_vars PROVE RInv'
  OBVIOUS
<1>1. CInv' /\ Conns'
  BY CallsNext DEF RInv, CInv
<1>2. CASE Next
  <2>1. UNCHANGED platform /\ Step
    BY <1>2 DEF Next
  <2>2. Visible'
    BY <1>1, <2>1, DaemonVisible, ServerStepVisible, ClientStepVisible DEF Step
  <2> QED
    BY <1>1, <2>2 DEF RInv
<1>3. CASE UNCHANGED vars
  <2>1. Visible'
    <3>1. UNCHANGED <<platform, phase, rules, dbRules, work, pc, op, got, sentAt, known>>
      BY <1>3 DEF vars
    <3>2. Bounded'
      BY <3>1, Zenon DEF RInv, Visible, Bounded
    <3>3. \A w \in work' : ConnOk(w)'
      BY <3>1, Zenon DEF RInv, Visible, ConnOk, Fresh, Reached, Pending, Waits
    <3>4. \A c \in Clients : ClientOk(c)'
      <4>1. ASSUME NEW c \in Clients, ClientOk(c)
            PROVE  ClientOk(c)'
        <5>1. \A d, v : Fresh(d, v) => FreshNext(d, v)
          BY <3>1 DEF Fresh, FreshNext, Reached, Pending
        <5> QED
          BY <3>1, <4>1, <5>1, ClientNext DEF ClientOk
      <4> QED
        BY <4>1 DEF RInv, Visible
    <3> QED
      BY <3>2, <3>3, <3>4 DEF Visible
  <2> QED
    BY <1>1, <2>1 DEF RInv
<1> QED
  BY <1>2, <1>3

\* A check that a client makes once its reload has returned is never judged by a
\* table older than the one that was there when it asked for the reload, although
\* the daemon loads the table only after its answer is written - as long as the
\* table can be read: a daemon that cannot falls back to the built-in rules.
THEOREM ReloadsAreVisible ==
  ASSUME ~DbCanFail
  PROVE  Spec => []ReloadVisible
<1>1. RInv => ReloadVisible
  BY DEF RInv, Visible, ClientOk, ReloadVisible
<1> QED
  BY <1>1, VisibleInit, VisibleNext, PTL DEF Spec
=============================================================================
