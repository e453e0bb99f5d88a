---------------------------- MODULE LandNotify -----------------------------
(***************************************************************************)
(* The automatic land: the guest's land-ready signal, and the host's notify *)
(* listener, peer binding and land handlers.                               *)
(*                                                                         *)
(* The guest fingerprints its private store after each exec and signals    *)
(* only a change; the host answers a signal by pulling and landing.  Any   *)
(* number of exec connections and land handlers overlap, and lands asked   *)
(* for while one runs share its pull.                                      *)
(***************************************************************************)
EXTENDS Naturals, FiniteSets

CONSTANTS
  Execs,      \* exec connections of the guest's supervisor
  Handlers,   \* goroutines of NotifyServer.Serve, and of the land verb
  MaxCommits, MaxExecs, MaxFaults  \* bounds

VARIABLES
  store,      \* commits in the guest's private store
  gate,       \* landReadyGate.last
  exec,       \* the stage of each exec connection
  listening,  \* NotifyController.servers holds the sandbox
  life,       \* how far the sandbox's launch has come, or that it is gone
  handler,    \* the stage of each land: with the commits it pulled
  landed,     \* commits the host has landed
  missed,     \* a signal was lost, its land failed, or it joined a land too late,
              \* and no pull has read the guest's HEAD since (for the property)
  spent

vars == <<store, gate, exec, listening, life, handler, landed, missed, spent>>

Kinds == {"execs", "faults"}

TypeOK ==
  /\ store \in 0..MaxCommits /\ gate \in 0..MaxCommits /\ landed \in 0..MaxCommits
  /\ exec \in [Execs -> {"idle", "running", "emit"}]
  /\ listening \in BOOLEAN /\ missed \in BOOLEAN
  /\ life \in {"new", "bound", "up", "gone"}
  /\ handler \in [Handlers -> [at : {"idle", "authorize", "land", "pull", "import", "joined"},
                               pulled : 0..MaxCommits]]
  /\ spent \in [Kinds -> Nat]

IdleHandler == [at |-> "idle", pulled |-> 0]

Init ==
  /\ store = 0 /\ gate = 0 /\ landed = 0
  /\ exec = [e \in Execs |-> "idle"]
  /\ listening = FALSE /\ life = "new"
  /\ handler = [h \in Handlers |-> IdleHandler]
  /\ missed = FALSE
  /\ spent = [k \in Kinds |-> 0]

Spend(k, limit) == spent[k] < limit /\ spent' = [spent EXCEPT ![k] = @ + 1]

\* What a step costs that may fail.
Try(ok) == IF ok THEN UNCHANGED spent ELSE Spend("faults", MaxFaults)

\* PeerBinder.bindings holds the sandbox.
Bound == life \in {"bound", "up"}

-----------------------------------------------------------------------------
(* Launch: once the VM runs, the host binds the peer, and then starts the   *)
(* sandbox's listener, without which it runs all the same (registerNotify). *)
Bind ==
  /\ life = "new" /\ life' = "bound"
  /\ UNCHANGED <<store, gate, exec, listening, handler, landed, missed, spent>>

Register(ok) ==
  /\ life = "bound" /\ life' = "up"
  /\ Try(ok) /\ listening' = ok
  /\ UNCHANGED <<store, gate, exec, handler, landed, missed>>

-----------------------------------------------------------------------------
(* The guest *)

(* serveVsock hands an accepted exec connection to its own goroutine; the   *)
(* service sends none before Launch has returned (EnsureRunning).           *)
serveExecConn(e) ==
  /\ life = "up" /\ exec[e] = "idle" /\ Spend("execs", MaxExecs)
  /\ exec' = [exec EXCEPT ![e] = "running"]
  /\ UNCHANGED <<store, gate, listening, life, handler, landed, missed>>

Commit(e) ==
  /\ exec[e] = "running" /\ store < MaxCommits
  /\ store' = store + 1
  /\ UNCHANGED <<gate, exec, listening, life, handler, landed, missed, spent>>

(* storeFingerprint: HEAD, the packed and the loose refs. *)
storeFingerprint == store

(* changed: compare the store's refs with the last look, and remember them. *)
changed(e) ==
  /\ exec[e] = "running"
  /\ gate' = storeFingerprint
  /\ exec' = [exec EXCEPT ![e] = IF storeFingerprint = gate THEN "idle" ELSE "emit"]
  /\ UNCHANGED <<store, listening, life, handler, landed, missed, spent>>

(* emitLandReady: one dial, whose failure is only logged. *)
emitLandReady(e, ok) ==
  /\ exec[e] = "emit"
  /\ exec' = [exec EXCEPT ![e] = "idle"]
  /\ Try(ok)
  /\ IF ok /\ listening
     THEN \E h \in Handlers : /\ handler[h].at = "idle"
                              /\ handler' = [handler EXCEPT ![h].at = "authorize"]
                              /\ UNCHANGED missed
     ELSE missed' = TRUE /\ UNCHANGED handler
  /\ UNCHANGED <<store, gate, listening, life, landed>>

-----------------------------------------------------------------------------
(* The host *)

(* Authorize: the listener's peer is the one bound to the sandbox. *)
Authorize == Bound

(* TaskFor: the task the controller registered the sandbox for. *)
TaskFor == listening

\* The lands that run flight.Do's function for the sandbox.
Leading == {h \in Handlers : handler[h].at \in {"pull", "import"}}

(* Mutant: a signal that arrives while a land is running is ignored. *)
handleOneAtATime(h) ==
  /\ handler[h].at = "authorize"
  /\ IF Leading # {} THEN handler' = [handler EXCEPT ![h] = IdleHandler] /\ UNCHANGED missed
     ELSE IF Authorize /\ TaskFor
     THEN handler' = [handler EXCEPT ![h].at = "land"] /\ UNCHANGED missed
     ELSE handler' = [handler EXCEPT ![h] = IdleHandler] /\ missed' = TRUE
  /\ UNCHANGED <<store, gate, exec, listening, life, landed, spent>>

(* handle: Authorize against the binding, TaskFor, then Land. *)
handle(h) ==
  /\ handler[h].at = "authorize"
  /\ IF Authorize /\ TaskFor
     THEN handler' = [handler EXCEPT ![h].at = "land"] /\ UNCHANGED missed
     ELSE handler' = [handler EXCEPT ![h] = IdleHandler] /\ missed' = TRUE
  /\ UNCHANGED <<store, gate, exec, listening, life, landed, spent>>

(* serveLand: the control plane's land verb, beside the signals. *)
serveLand(h) ==
  /\ handler[h].at = "idle" /\ life = "up"
  /\ handler' = [handler EXCEPT ![h].at = "land"]
  /\ UNCHANGED <<store, gate, exec, listening, life, landed, missed, spent>>

(* Land: flight.Do leads a land, or waits for the one that is running, even *)
(* if that one has read the guest's HEAD before the commit it was asked for. *)
Land(h) ==
  /\ handler[h].at = "land"
  /\ handler' = [handler EXCEPT ![h].at = IF Leading = {} THEN "pull" ELSE "joined"]
  /\ missed' = (missed \/ \E g \in Leading : handler[g].at = "import" /\ handler[g].pulled < gate)
  /\ UNCHANGED <<store, gate, exec, listening, life, landed, spent>>

\* A land and all that joined it are over.
Finished(h) == [g \in Handlers |-> IF g = h \/ handler[g].at = "joined" THEN IdleHandler
                                                                     ELSE handler[g]]

(* landGuarded and Pull: the guest streams what its HEAD reaches when it is *)
(* asked; a slot may not come free, and a pull may fail.                    *)
ServeLandHead(h, ok) ==
  /\ handler[h].at = "pull"
  /\ Try(ok)
  /\ IF ok /\ Bound
     THEN handler' = [handler EXCEPT ![h] = [at |-> "import", pulled |-> store]] /\ missed' = FALSE
     ELSE handler' = Finished(h) /\ missed' = TRUE
  /\ UNCHANGED <<store, gate, exec, listening, life, landed>>

(* The rest of landOnce: what is new is verified and imported, or nothing. *)
landOnce(h, ok) ==
  /\ handler[h].at = "import"
  /\ Try(ok)
  /\ landed' = IF ok /\ handler[h].pulled > landed THEN handler[h].pulled ELSE landed
  /\ missed' = (missed \/ ~ok)
  /\ handler' = Finished(h)
  /\ UNCHANGED <<store, gate, exec, listening, life>>

(* Remove ends the guest, invalidates its binding and then its listener; a  *)
(* land in flight goes on (context.WithoutCancel).                          *)
Invalidate ==
  /\ life = "up" /\ Spend("faults", MaxFaults)
  /\ life' = "gone"
  /\ exec' = [e \in Execs |-> "idle"]
  /\ missed' = TRUE
  /\ UNCHANGED <<store, gate, listening, handler, landed>>

Deregister ==
  /\ life = "gone" /\ listening
  /\ listening' = FALSE
  /\ UNCHANGED <<store, gate, exec, life, handler, landed, missed, spent>>

-----------------------------------------------------------------------------
Next ==
  \/ Bind \/ Invalidate \/ Deregister
  \/ \E e \in Execs : serveExecConn(e) \/ Commit(e) \/ changed(e)
  \/ \E h \in Handlers : handle(h) \/ serveLand(h) \/ Land(h)
  \/ \E ok \in BOOLEAN :
       \/ Register(ok)
       \/ \E e \in Execs : emitLandReady(e, ok)
       \/ \E h \in Handlers : ServeLandHead(h, ok) \/ landOnce(h, ok)

Spec == Init /\ [][Next]_vars

-----------------------------------------------------------------------------
Quiet == (\A e \in Execs : exec[e] = "idle") /\ (\A h \in Handlers : handler[h].at = "idle")

(* Once the guest's execs and the host's lands are quiet, everything the    *)
(* guest committed has landed, unless the last signal was lost, its land    *)
(* failed, or it joined a land that had read an older HEAD; and whatever    *)
(* was missed, the next land makes good.  The gate that suppresses          *)
(* redundant signals never swallows the one that carried a commit           *)
(* (landReadyGate, flight.Do).                                              *)
QuietMeansLanded == Quiet /\ ~missed => landed = store

(* What serve_linux.go says of the signal, "the host lands as soon as there *)
(* is something to land", if that held whenever nothing failed: a signal    *)
(* that joins a running land is answered with what that one pulled.         *)
LandsAsSoon == Quiet /\ listening /\ spent["faults"] = 0 => landed = store

(* Why it holds: neither the gate nor the host is ahead of the store; what  *)
(* the gate has not seen has its command running, and what it has seen is   *)
(* landed, or its signal or its land is on the way.                         *)
NothingAhead ==
  gate <= store /\ landed <= store /\ \A h \in Handlers : handler[h].pulled <= store
GateFollows ==
  /\ life = "gone" => missed
  /\ life = "gone" \/ gate = store \/ \E e \in Execs : exec[e] = "running"
OnTheWay ==
  \/ missed \/ landed >= gate
  \/ \E e \in Execs : exec[e] = "emit"
  \/ \E h \in Handlers : \/ handler[h].at \in {"authorize", "land", "pull"}
                         \/ handler[h].at = "import" /\ handler[h].pulled >= gate
LandPending == NothingAhead /\ GateFollows /\ OnTheWay

WellFormed == {MaxCommits, MaxExecs, MaxFaults} \subseteq Nat
=============================================================================
