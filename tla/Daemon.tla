------------------------------- MODULE Daemon -------------------------------
(***************************************************************************)
(* The sandbox daemon's own life and the way clients reach it: processes   *)
(* that compete for one host root, the claim, the host-wide record, the    *)
(* socket and its lock, the select loop with its bounded handlers, idle    *)
(* exit, the drains, and the client's activation, version handshake and    *)
(* one request per connection.                                             *)
(*                                                                         *)
(* What a verb does inside the service is the subject of SandboxService;   *)
(* here a task's sandbox is its durable row and whether its VM runs.  A VM *)
(* dies with the process that started it (lifeline, parent-death signal).  *)
(***************************************************************************)
EXTENDS Naturals, FiniteSets

CONSTANTS Daemons,      \* processes that may run as mgit-sandboxd
          Clients, Tasks, None,
          Proto,        \* the protocol of every process; 0 sends no hello
          MaxConns,     \* Config.MaxConns
          MaxSpawns, MaxRequests, MaxFaults, MaxStops    \* bounds

VARIABLES
  pc,       \* how far each daemon process is in run and Daemon.Run
  cancelled,\* the daemons whose signal context is done
  claim,    \* HostRootClaim: the flock on daemon.lock
  lock,     \* the flock on the socket's .lock file
  sock,     \* the socket file, by the daemon that bound it
  record,   \* daemon.json beside the socket
  row,      \* the durable registration of each task
  vms,      \* tasks whose VM runs
  quiet,    \* daemons whose idle clock has passed IdleGrace
  authed,   \* daemons with a tick pending on the authed channel
  todo,     \* the sandboxes a drain has yet to tear down
  conn,     \* each client's connection: to which daemon, how far
  client,   \* clients: what they do
  rootGone, \* the repository root was deleted
  stopper,  \* `mgit sandbox daemons stop': what it listed
  spawned, asked, faults, stops,
  sealed,   \* history: daemons whose drain listed the registry after the signal
  spared,   \* history: tasks that drain could not tear down
  unlisted  \* history: daemons whose record was not written, or removed by a stop

dvars == <<pc, cancelled, claim, lock, sock, record, quiet, authed, todo>>
svars == <<row, vms>>
cvars == <<conn, client>>
bvars == <<spawned, asked, faults, stops>>
hvars == <<rootGone, stopper, sealed, spared, unlisted>>
vars  == <<dvars, svars, cvars, bvars, hvars>>

Phases  == {"absent", "started", "claimed", "ready", "recorded", "serving",
            "leaving", "draining", "drained", "closed", "unrecorded"}
\* Phases in which the process has the socket open.
Bound   == {"serving", "leaving", "draining", "drained"}
Verbs   == {"register", "exec", "remove"}
Busy    == {"probe", "probing", "poll", "polling", "call", "calling"}
Conns   == [st : {"free", "queued", "greeted", "agreed", "ok", "failed"},
            to : Daemons \cup {None}]
Calls   == [st : Busy \cup {"idle", "gone"}, verb : Verbs \cup {"none"},
            task : Tasks \cup {None}]
NoConn  == [st |-> "free", to |-> None]
Idle    == [st |-> "idle", verb |-> "none", task |-> None]

TypeOK ==
  /\ pc \in [Daemons -> Phases] /\ cancelled \subseteq Daemons
  /\ {claim, lock, sock, record} \subseteq Daemons \cup {None}
  /\ row \in [Tasks -> {"none", "created", "running"}]
  /\ vms \subseteq Tasks /\ spared \subseteq Tasks /\ sealed \subseteq Daemons
  /\ quiet \subseteq Daemons /\ authed \subseteq Daemons /\ unlisted \subseteq Daemons
  /\ todo \in [Daemons -> SUBSET Tasks]
  /\ conn \in [Clients -> Conns] /\ client \in [Clients -> Calls]
  /\ rootGone \in BOOLEAN
  /\ stopper \in [rec : Daemons \cup {None}, alive : BOOLEAN]
  /\ spawned \in 0..MaxSpawns /\ asked \in 0..MaxRequests
  /\ faults \in 0..MaxFaults /\ stops \in 0..MaxStops

Init ==
  /\ pc = [d \in Daemons |-> "absent"] /\ cancelled = {}
  /\ claim = None /\ lock = None /\ sock = None /\ record = None
  /\ row = [t \in Tasks |-> "none"] /\ vms = {} /\ sealed = {} /\ spared = {}
  /\ quiet = {} /\ authed = {} /\ todo = [d \in Daemons |-> {}]
  /\ conn = [c \in Clients |-> NoConn] /\ client = [c \in Clients |-> Idle]
  /\ rootGone = FALSE /\ stopper = [rec |-> None, alive |-> FALSE]
  /\ spawned = 0 /\ asked = 0 /\ faults = 0 /\ stops = 0 /\ unlisted = {}

Alive(d)    == pc[d] # "absent"
Fault       == faults < MaxFaults /\ faults' = faults + 1
HandlersOf(d) == {c \in Clients : conn[c].to = d /\ conn[c].st \notin {"free", "queued"}}
Answering   == sock # None /\ pc[sock] \in Bound
Frees(c)    == conn' = [conn EXCEPT ![c] = NoConn]
Go(d, from, to) == pc[d] = from /\ pc' = [pc EXCEPT ![d] = to]

\* A process that ends takes its connections, its locks and its VMs along.
Ends(d) ==
  /\ pc' = [pc EXCEPT ![d] = "absent"]
  /\ claim' = IF claim = d THEN None ELSE claim
  /\ lock' = IF lock = d THEN None ELSE lock
  /\ vms' = IF claim = d THEN {} ELSE vms
  /\ conn' = [c \in Clients |-> IF conn[c].to = d THEN NoConn ELSE conn[c]]
  /\ cancelled' = cancelled \ {d} /\ quiet' = quiet \ {d} /\ authed' = authed \ {d}
  /\ unlisted' = unlisted \ {d} /\ sealed' = sealed \ {d}
  /\ todo' = [todo EXCEPT ![d] = {}]

-----------------------------------------------------------------------------
(* A daemon starts. *)

\* Mutant: the registry is rehydrated before the host root is claimed.
RehydrateFirst(d) ==
  /\ row' = [t \in Tasks |-> IF row[t] = "running" THEN "none" ELSE row[t]]
  /\ IF claim = None
     THEN Go(d, "started", "claimed") /\ claim' = d
     ELSE Go(d, "started", "absent") /\ UNCHANGED claim
  /\ UNCHANGED <<cancelled, lock, sock, record, quiet, authed, todo, vms, cvars, bvars,
                 hvars>>

\* ClaimHostRoot, before anything reads the index; a held root ends the process.
ClaimHostRoot(d) ==
  /\ IF claim = None
     THEN Go(d, "started", "claimed") /\ claim' = d
     ELSE Go(d, "started", "absent") /\ UNCHANGED claim
  /\ UNCHANGED <<cancelled, lock, sock, record, quiet, authed, todo, svars, cvars, bvars,
                 hvars>>

\* The service is wired and the registry rehydrated: a row that claims a VM this
\* process cannot verify is discarded, a row that never booted returns.
Rehydrate(d) ==
  /\ Go(d, "claimed", "ready")
  /\ row' = [t \in Tasks |-> IF row[t] = "running" THEN "none" ELSE row[t]]
  /\ UNCHANGED <<cancelled, claim, lock, sock, record, quiet, authed, todo, vms, cvars, bvars,
                 hvars>>

\* Wiring or rehydration fails: run returns 2.
StartFails(d) ==
  /\ pc[d] \in {"claimed", "ready", "recorded"} /\ Fault
  /\ Ends(d)
  /\ record' = IF pc[d] = "recorded" THEN None ELSE record
  /\ UNCHANGED <<sock, row, client, spawned, asked, stops, rootGone, stopper, spared>>

\* Daemon.writeRecord: a record that cannot be written is logged, never fatal.
WriteRecord(d) ==
  /\ Go(d, "ready", "recorded")
  /\ \/ record' = d /\ UNCHANGED <<faults, unlisted>>
     \/ Fault /\ unlisted' = unlisted \cup {d} /\ UNCHANGED record
  /\ UNCHANGED <<cancelled, claim, lock, sock, quiet, authed, todo, svars, cvars,
                 spawned, asked, stops, rootGone, stopper, sealed, spared>>

\* Daemon.listen: the socket lock, the stale file replaced, the socket bound.
\* Whoever holds the lock already is another daemon: Run returns through its
\* deferred removal of the record.
Listen(d) ==
  /\ IF lock = None
     THEN /\ Go(d, "recorded", "serving")
          /\ lock' = d /\ sock' = d /\ UNCHANGED record
     ELSE /\ Go(d, "recorded", "unrecorded")
          /\ record' = None /\ UNCHANGED <<lock, sock>>
  /\ UNCHANGED <<cancelled, claim, quiet, authed, todo, svars, cvars, bvars,
                 hvars>>

-----------------------------------------------------------------------------
(* The select loop. *)

\* A connection the accept loop hands over: a handler if a slot is free, closed
\* otherwise.  The handler authenticates the peer, ticks and greets.
Accept(d, c) ==
  /\ pc[d] = "serving" /\ conn[c].st = "queued" /\ conn[c].to = d
  /\ IF Cardinality(HandlersOf(d)) < MaxConns
     THEN conn' = [conn EXCEPT ![c].st = "greeted"] /\ authed' = authed \cup {d}
     ELSE Frees(c) /\ UNCHANGED authed
  /\ UNCHANGED <<pc, cancelled, claim, lock, sock, record, quiet, todo, svars, client, bvars,
                 hvars>>

Authed(d) ==
  /\ pc[d] = "serving" /\ d \in authed
  /\ authed' = authed \ {d} /\ quiet' = quiet \ {d}
  /\ UNCHANGED <<pc, cancelled, claim, lock, sock, record, todo, svars, cvars, bvars,
                 hvars>>

\* hasSandboxes asks the service what is registered, not the backend what runs.
HasSandboxes == \E t \in Tasks : row[t] # "none"

\* Mutant: the idle clock starts again at every poll.
PollRestartsClock(d) ==
  /\ pc[d] = "serving"
  /\ IF rootGone THEN pc' = [pc EXCEPT ![d] = "leaving"] /\ UNCHANGED quiet
     ELSE quiet' = quiet \ {d} /\ UNCHANGED pc
  /\ UNCHANGED <<cancelled, claim, lock, sock, record, authed, todo, svars, cvars, bvars,
                 hvars>>

\* The poll ticker: a deleted root drains; registered sandboxes restart the idle
\* clock; a clock past IdleGrace with none registered ends Run without a drain.
\* A failed listing does nothing.
Poll(d) ==
  /\ pc[d] = "serving"
  /\ IF rootGone
     THEN pc' = [pc EXCEPT ![d] = "leaving"] /\ UNCHANGED quiet
     ELSE IF HasSandboxes
     THEN quiet' = quiet \ {d} /\ UNCHANGED pc
     ELSE IF d \in quiet
     THEN pc' = [pc EXCEPT ![d] = "drained"] /\ UNCHANGED quiet
     ELSE quiet' = quiet \cup {d} /\ UNCHANGED pc
  /\ UNCHANGED <<cancelled, claim, lock, sock, record, authed, todo, svars, cvars, bvars,
                 hvars>>

\* The context is done: drain before exiting.
Shutdown(d) ==
  /\ d \in cancelled /\ Go(d, "serving", "leaving")
  /\ UNCHANGED <<cancelled, claim, lock, sock, record, quiet, authed, todo, svars, cvars,
                 bvars, hvars>>

\* So does a failed Accept: no VM is left unsupervised.
AcceptFails(d) ==
  /\ Fault /\ Go(d, "serving", "leaving")
  /\ UNCHANGED <<cancelled, claim, lock, sock, record, quiet, authed, todo, svars, cvars,
                 spawned, asked, stops, hvars>>

-----------------------------------------------------------------------------
(* The drain, through the service, and the deferred clean-up. *)

\* listForDrain: one listing.  A listing that fails ends the drain.
DrainList(d) ==
  /\ \/ /\ Go(d, "leaving", "draining") /\ UNCHANGED faults
        /\ todo' = [todo EXCEPT ![d] = {t \in Tasks : row[t] # "none"}]
        /\ sealed' = IF d \in cancelled THEN sealed \cup {d} ELSE sealed
     \/ Go(d, "leaving", "drained") /\ Fault /\ UNCHANGED <<todo, sealed>>
  /\ spared' = {}
  /\ UNCHANGED <<cancelled, claim, lock, sock, record, quiet, authed, svars, cvars,
                 spawned, asked, stops, rootGone, stopper, unlisted>>

\* teardownForDrain: a forced Remove; one that fails does not strand the rest.
DrainOne(d, t) ==
  /\ pc[d] = "draining" /\ t \in todo[d]
  /\ todo' = [todo EXCEPT ![d] = @ \ {t}]
  /\ \/ /\ row' = [row EXCEPT ![t] = "none"] /\ vms' = vms \ {t}
        /\ UNCHANGED <<faults, spared>>
     \/ Fault /\ spared' = spared \cup {t} /\ UNCHANGED svars
  /\ UNCHANGED <<pc, cancelled, claim, lock, sock, record, quiet, authed, cvars,
                 spawned, asked, stops, rootGone, stopper, sealed, unlisted>>

\* cleanupSocket, once the drain is over: waiting connections are closed, the file
\* removed, the lock released.
CleanupSocket(d) ==
  /\ pc[d] = "drained" \/ (pc[d] = "draining" /\ todo[d] = {})
  /\ pc' = [pc EXCEPT ![d] = "closed"]
  /\ sock' = None /\ lock' = None
  /\ conn' = [c \in Clients |-> IF conn[c].to = d /\ conn[c].st = "queued" THEN NoConn ELSE conn[c]]
  /\ UNCHANGED <<cancelled, claim, record, quiet, authed, todo, svars, client, bvars,
                 hvars>>

RemoveRecord(d) ==
  /\ Go(d, "closed", "unrecorded")
  /\ \/ record' = None /\ UNCHANGED faults
     \/ Fault /\ UNCHANGED record
  /\ UNCHANGED <<cancelled, claim, lock, sock, quiet, authed, todo, svars, cvars,
                 spawned, asked, stops, hvars>>

\* The claim is released last, by main, and the process ends.
Exit(d) ==
  /\ pc[d] = "unrecorded" /\ Ends(d)
  /\ UNCHANGED <<sock, record, row, client, bvars, rootGone, stopper, spared>>

Crash(d) ==
  /\ Alive(d) /\ Fault /\ Ends(d)
  /\ UNCHANGED <<sock, record, row, client, spawned, asked, stops, rootGone, stopper, spared>>

Signal(d) ==
  /\ pc[d] \notin {"absent", "started", "claimed"} /\ d \notin cancelled /\ Fault
  /\ cancelled' = cancelled \cup {d}
  /\ UNCHANGED <<pc, claim, lock, sock, record, quiet, authed, todo, svars, cvars,
                 spawned, asked, stops, hvars>>

RootVanishes ==
  /\ ~rootGone /\ Fault /\ rootGone' = TRUE
  /\ UNCHANGED <<dvars, svars, cvars, spawned, asked, stops, stopper, sealed, spared, unlisted>>

-----------------------------------------------------------------------------
(* A handler serves the one verb of its connection.  The signal's context   *)
(* is the handler's: once it is done the service's writes fail.             *)

Effect(d, c, ok) ==
  LET t == client[c].task IN
  CASE client[c].verb = "register" ->
         /\ ok = (d \notin cancelled /\ row[t] = "none")
         /\ row' = IF ok THEN [row EXCEPT ![t] = "created"] ELSE row
         /\ UNCHANGED vms
    [] client[c].verb = "exec" ->
         /\ ok = (d \notin cancelled /\ row[t] # "none")
         /\ row' = IF ok THEN [row EXCEPT ![t] = "running"] ELSE row
         /\ vms' = IF ok THEN vms \cup {t} ELSE vms
    [] OTHER ->
         /\ ok = (d \notin cancelled /\ row[t] # "none")
         /\ row' = IF ok THEN [row EXCEPT ![t] = "none"] ELSE row
         /\ vms' = IF ok THEN vms \ {t} ELSE vms

Serve(c) ==
  /\ conn[c].st = "agreed"
  /\ \E ok \in BOOLEAN :
       /\ Effect(conn[c].to, c, ok)
       /\ conn' = [conn EXCEPT ![c].st = IF ok THEN "ok" ELSE "failed"]
  /\ UNCHANGED <<dvars, client, bvars, hvars>>

-----------------------------------------------------------------------------
(* Clients. *)

HangUp(c)   == IF conn[c].st \in {"queued", "greeted"} THEN Frees(c) ELSE UNCHANGED conn
Return(c)   == client' = [client EXCEPT ![c] = Idle]
Step(c, st) == client' = [client EXCEPT ![c].st = st]

\* sandboxConnectFor: a request begins with the activation probe.
Ask(c) ==
  /\ client[c].st \in {"idle", "gone"} /\ asked < MaxRequests
  /\ conn[c] = NoConn
  /\ asked' = asked + 1
  /\ \E v \in Verbs, t \in Tasks : client' = [client EXCEPT ![c] = [st |-> "probe", verb |-> v, task |-> t]]
  /\ UNCHANGED <<dvars, svars, conn, spawned, faults, stops, hvars>>

\* Connecting to a socket somebody listens on.
Dial(c) ==
  /\ client[c].st \in {"probe", "poll", "call"} /\ Answering
  /\ Step(c, CASE client[c].st = "probe" -> "probing" [] client[c].st = "poll" -> "polling" [] OTHER -> "calling")
  /\ conn' = [conn EXCEPT ![c] = [st |-> "queued", to |-> sock]]
  /\ UNCHANGED <<dvars, svars, bvars, hvars>>

\* dialOK: the whole greeting arrived; the probe's connection is closed.
ProbeOK(c) ==
  /\ client[c].st \in {"probing", "polling"} /\ conn[c].st = "greeted"
  /\ Step(c, "call") /\ Frees(c)
  /\ UNCHANGED <<dvars, svars, bvars, hvars>>

\* A new process is none that a record or a listing still names.
Spares == {d \in Daemons : ~Alive(d) /\ d \notin {record, stopper.rec}}

\* ensureRunning: the first probe failed (nobody listens, no greeting in time, or
\* turned away), so a daemon is spawned, once.
ProbeFails(c) ==
  /\ client[c].st = "probing" \/ (client[c].st = "probe" /\ ~Answering)
  /\ HangUp(c)
  /\ \/ /\ spawned < MaxSpawns /\ spawned' = spawned + 1
        /\ \E d \in Spares : pc' = [pc EXCEPT ![d] = "started"]
        /\ Step(c, "poll")
     \/ Return(c) /\ UNCHANGED <<pc, spawned>>
  /\ UNCHANGED <<cancelled, claim, lock, sock, record, quiet, authed, todo, svars,
                 asked, faults, stops, hvars>>

\* A later probe that fails is repeated until the activation wait is over.
PollAgain(c) ==
  /\ client[c].st = "polling" /\ Step(c, "poll") /\ HangUp(c)
  /\ UNCHANGED <<dvars, svars, bvars, hvars>>

\* Mutant: the activation wait has no end.
PollForever(c) == PollAgain(c)

PollEnds(c) ==
  /\ client[c].st \in {"poll", "polling"} /\ Return(c) /\ HangUp(c)
  /\ UNCHANGED <<dvars, svars, bvars, hvars>>

\* dialGreeted finds nobody, or the greeting or the answer does not come: the
\* request fails for the client.  A handler already serving goes on.
CallFails(c) ==
  /\ client[c].st = "calling" \/ (client[c].st = "call" /\ ~Answering)
  /\ IF conn[c].st = "agreed" THEN Step(c, "gone") ELSE Return(c)
  /\ HangUp(c)
  /\ UNCHANGED <<dvars, svars, bvars, hvars>>

\* serveHandshake and Client.handshake: the hello is exchanged before any verb; a
\* peer of another protocol, or one that sends no hello, is refused.
Handshake(c) ==
  /\ client[c].st = "calling" /\ conn[c].st = "greeted"
  /\ IF Proto[c] = Proto[conn[c].to]
     THEN conn' = [conn EXCEPT ![c].st = "agreed"] /\ UNCHANGED client
     ELSE Frees(c) /\ Return(c)
  /\ UNCHANGED <<dvars, svars, bvars, hvars>>

\* The response reaches the client, if it is still there; the slot is free.
Reply(c) ==
  /\ conn[c].st \in {"ok", "failed"} /\ Frees(c)
  /\ Return(c)
  /\ UNCHANGED <<dvars, svars, bvars, hvars>>

-----------------------------------------------------------------------------
(* `mgit sandbox daemons stop': listing and acting are two steps. *)

StopLists ==
  /\ stops < MaxStops /\ stops' = stops + 1
  /\ stopper.rec = None /\ record # None
  /\ stopper' = [rec |-> record, alive |-> Alive(record)]
  /\ UNCHANGED <<dvars, svars, cvars, spawned, asked, faults, rootGone, sealed, spared, unlisted>>

\* stopDaemon: a record found dead is removed; a live pid is signalled when its
\* command line is the recorded daemon's.
StopActs ==
  /\ stopper.rec # None
  /\ IF ~stopper.alive
     THEN /\ record' = None /\ UNCHANGED cancelled
          /\ unlisted' = unlisted \cup {d \in Daemons : d = record /\ Alive(d)}
     ELSE /\ UNCHANGED <<record, unlisted>>
          /\ cancelled' = IF Alive(stopper.rec) THEN cancelled \cup {stopper.rec} ELSE cancelled
  /\ stopper' = [rec |-> None, alive |-> FALSE]
  /\ UNCHANGED <<pc, claim, lock, sock, quiet, authed, todo, svars, cvars, bvars, rootGone, sealed, spared>>

-----------------------------------------------------------------------------
DaemonStep(d) ==
  \/ ClaimHostRoot(d) \/ Rehydrate(d) \/ WriteRecord(d) \/ Listen(d)
  \/ Authed(d) \/ Poll(d) \/ Shutdown(d)
  \/ DrainList(d) \/ CleanupSocket(d) \/ RemoveRecord(d) \/ Exit(d)
  \/ \E t \in Tasks : DrainOne(d, t)
  \/ \E c \in Clients : Accept(d, c)

ConnStep(c)   == Serve(c) \/ Reply(c)
ClientStep(c) ==
  \/ Dial(c) \/ ProbeFails(c) \/ PollAgain(c) \/ PollEnds(c) \/ CallFails(c)
  \/ ProbeOK(c) \/ Handshake(c)

Environment ==
  \/ \E c \in Clients : Ask(c)
  \/ \E d \in Daemons : Crash(d) \/ Signal(d) \/ StartFails(d) \/ AcceptFails(d)
  \/ RootVanishes \/ StopLists

Next ==
  \/ \E d \in Daemons : DaemonStep(d)
  \/ \E c \in Clients : ConnStep(c) \/ ClientStep(c)
  \/ StopActs
  \/ Environment

Spec == Init /\ [][Next]_vars

\* A process and a handler goroutine are scheduled; a client's timers fire.
Fairness ==
  /\ \A d \in Daemons : WF_vars(DaemonStep(d))
  /\ \A c \in Clients : WF_vars(ConnStep(c)) /\ WF_vars(ClientStep(c)) /\ WF_vars(PollEnds(c))

FairSpec == Spec /\ Fairness

-----------------------------------------------------------------------------
(* Properties. *)

\* A running VM is registered as running, and the process that started it still
\* holds the host root: no daemon rehydrates, and discards as killed, a sandbox
\* another one is serving (ClaimHostRoot before the index is read).
VMsSupervised ==
  vms # {} => claim # None /\ \A t \in vms : row[t] = "running"

\* A socket that answers has its daemon's record beside it, whatever daemons came
\* before, unless that record could not be written or a stop that found an older
\* record dead has removed it since (Daemon.Run: "the socket answering must imply
\* the record exists").
AnswerImpliesRecord == Answering => record = sock \/ sock \in unlisted

\* A drain that listed the registry after the signal leaves no registration but
\* those it failed to tear down: nothing is registered behind the listing
\* (handlers carry the signal's context).
SignalDrainComplete ==
  \A d \in sealed : \A t \in Tasks : row[t] # "none" => t \in todo[d] \cup spared

\* Every request comes back to its caller: served, refused or timed out,
\* whatever happens to the daemons meanwhile (ensureRunning, dialGreeted).
Asking(c) == client[c].st \in Busy
RequestsReturn == \A c \in Clients : []<>~Asking(c)

\* No daemon lingers with nothing to supervise (the poll ticker of Daemon.Run):
\* again and again there is either none, or a registered sandbox in a repository
\* that still exists.
Lingering == (\E d \in Daemons : Alive(d)) /\ ~(HasSandboxes /\ ~rootGone)
NoLingeringDaemon == []<>~Lingering

\* What a daemon answers for is in order whoever came before it: its VMs are
\* supervised, its socket is on record, its drain leaves nothing behind (Daemon.Run).
DaemonStands == VMsSupervised /\ AnswerImpliesRecord /\ SignalDrainComplete

-----------------------------------------------------------------------------
(* Why DaemonStands holds: every process past ClaimHostRoot is the claimer,  *)
(* so no two of them ever are.                                               *)

Connected == Bound \cup {"closed", "unrecorded"}
Recorded  == Bound \cup {"recorded", "closed"}

OneClaimer     == \A d \in Daemons : pc[d] \notin {"absent", "started"} => claim = d
RecordKept     == \A d \in Daemons : pc[d] \in Recorded => record = d \/ d \in unlisted
PeerIsUp       == \A c \in Clients : conn[c].st # "free" =>
                    conn[c].to \in Daemons /\ pc[conn[c].to] \in Connected
ServedIsAsked  == \A c \in Clients :
                    /\ client[c].st # "idle" => client[c].task \in Tasks
                    /\ conn[c].st = "agreed" => client[c].st \in {"calling", "gone"}
VMsOutlastBoot == vms # {} => claim \in Daemons /\ pc[claim] # "claimed"
SealedIsLast   == \A d \in sealed : d \in cancelled /\ pc[d] \in {"draining", "closed", "unrecorded"}

\* The constants as the code has them: None stands for no process.
WellFormed ==
  None \notin Daemons /\ {MaxSpawns, MaxRequests, MaxFaults, MaxStops} \subseteq Nat

Ownership == OneClaimer /\ RecordKept /\ PeerIsUp /\ ServedIsAsked
             /\ VMsOutlastBoot /\ SealedIsLast
=============================================================================
