---------------------------- MODULE EgressControl ----------------------------
(***************************************************************************)
(* The egress policy of one allowlist-mode sandbox: the policy verb        *)
(* (EgressPolicyService), the capability broker (CapabilityService), the   *)
(* registration whose launch options a policy may be staged onto           *)
(* (SandboxService), and the engine in the daemon that decides and splices *)
(* the guest's flows (internal/sandboxd/egress).                           *)
(*                                                                         *)
(* A boot brings up a new stack; the stacks are numbered, because a policy *)
(* change, an approval or a flow looks its stack up under Runner.mu and    *)
(* works on it after the lock is released, when another one may have taken *)
(* its place.  The service lock is free during a boot, held by a teardown, *)
(* and unknown to the broker and the engine, which have locks of their     *)
(* own.                                                                    *)
(***************************************************************************)
EXTENDS Integers, Sequences, FiniteSets, FiniteSetsExt

CONSTANTS
  Dests,       \* ip:port destinations outside the unconditionally denied ranges
  Names,       \* host names
  Lookup,      \* what the host resolves a name to
  Policies,    \* allow lists callers set: sets of destinations and names
  Setters,     \* requests to change the policy
  Approvers,   \* requests to approve a pending capability
  Flows,       \* connections of the guest
  None,
  MaxStacks,   \* bound: boots that bring up a stack
  MaxSets,     \* bound: policy changes asked for
  MaxCrashes   \* bound: restarts of the daemon

ASSUME EgressAssumption ==
  /\ Lookup \in [Names -> SUBSET Dests]
  /\ Policies \subseteq SUBSET (Dests \cup Names)
  /\ None \notin Dests
  /\ {MaxStacks, MaxSets, MaxCrashes} \subseteq Nat

VARIABLES
  state,     \* the recorded state of the registration
  boot,      \* how far the boot in flight has come
  tearing,   \* a teardown holds the service lock and has revoked the grants
  opts,      \* reg.opts.Network.Allowlist
  row,       \* the allow list of the durable registry row
  launch,    \* the copy of opts a launch in flight has taken
  stacks,    \* every egress stack ever started
  active,    \* Runner.active: the number of the running stack, or 0
  replay,    \* grants ReplayGrants has still to apply
  live, pending,   \* the broker's grants and requests
  set, app, flow,  \* what each request and each connection is doing
  granted,   \* policy_granted events: the destinations they name
  requested, \* policy_changed events of phase requested, and the created event
  promised,  \* history: the policy last reported as the one to boot with
  astray,    \* history: grants recorded after the stack they widened was gone
  asked, crashes

registration == <<state, boot, tearing, opts, row, launch, promised>>
engine       == <<stacks, active>>
broker       == <<live, pending, granted, astray>>
bounds       == <<asked, crashes>>
vars == <<registration, engine, broker, replay, set, app, flow, requested, bounds>>

\* A stack: its compiled rules, the live grants, what the resolver has pinned,
\* how often the rules were swapped, and the last swap whose CloseAll is done.
Stack == [rules : SUBSET (Dests \cup Names), grants : SUBSET Dests,
          pins : SUBSET Dests, swaps : Nat, killed : Nat]

Setter   == [stage : {"idle", "stage", "swap", "kill"},
             policy : SUBSET (Dests \cup Names), drain : BOOLEAN, on : Nat, swap : Nat]
Approver == [stage : {"idle", "widen", "hold", "drop"},
             dest : Dests \cup {None}, on : Nat]
\* A connection: the rules it was authorised by (`since' counts the swaps before
\* them), whether it is in the registry of its stack, and (history) whether a kill
\* ran between its authorisation and its entry there.
FlowRec  == [stage : {"idle", "resolving", "dialing", "spliced", "denied"},
             dest : Dests \cup {None}, name : Names \cup {None},
             on : Nat, since : Nat, tracked : BOOLEAN, missed : BOOLEAN]

NoSet  == [stage |-> "idle", policy |-> {}, drain |-> FALSE, on |-> 0, swap |-> 0]
NoApp  == [stage |-> "idle", dest |-> None, on |-> 0]
NoFlow == [stage |-> "idle", dest |-> None, name |-> None, on |-> 0, since |-> 0,
           tracked |-> FALSE, missed |-> FALSE]

TypeOK ==
  /\ state \in {"created", "running", "suspended", "gone"}
  /\ boot \in {"none", "launching", "replaying"}
  /\ tearing \in BOOLEAN
  /\ {opts, row, promised} \cup requested \subseteq Policies /\ launch \in Policies \cup {{}}
  /\ stacks \in Seq(Stack) /\ active \in {0, Len(stacks)}
  /\ replay \subseteq Dests /\ live \subseteq Dests /\ pending \subseteq Dests
  /\ granted \subseteq Dests /\ astray \subseteq Dests
  /\ set \in [Setters -> Setter] /\ app \in [Approvers -> Approver]
  /\ flow \in [Flows -> FlowRec]
  /\ asked \in 0..MaxSets /\ crashes \in 0..MaxCrashes

Init ==
  /\ state = "created" /\ boot = "none" /\ tearing = FALSE
  /\ \E p \in Policies :
       opts = p /\ row = p /\ promised = p /\ requested = {p}
  /\ launch = {}
  /\ stacks = <<>> /\ active = 0 /\ replay = {}
  /\ live = {} /\ pending = {} /\ granted = {} /\ astray = {}
  /\ set = [s \in Setters |-> NoSet]
  /\ app = [a \in Approvers |-> NoApp]
  /\ flow = [f \in Flows |-> NoFlow]
  /\ asked = 0 /\ crashes = 0

\* SandboxService.mu is free, and the sandbox is registered: Status answers.
Known  == ~tearing /\ state # "gone"
Booted == state = "running" \/ boot # "none"

------------------------------------------------------------------------------
(* The sandbox service: boots, suspends, teardowns, restarts. *)

\* Runner.Stop takes the stack out of the map.  What is still on its way through
\* it reads its rules, grants and pins no more.
Stop ==
  /\ active' = 0
  /\ stacks' = IF active = 0 THEN stacks
               ELSE [stacks EXCEPT ![active].rules = {}, ![active].grants = {}, ![active].pins = {}]

\* EnsureRunning claims the boot and copies the options.
StartBoot ==
  /\ Known /\ ~Booted /\ Len(stacks) < MaxStacks
  /\ boot' = "launching" /\ launch' = opts
  /\ UNCHANGED <<state, tearing, opts, row, promised, engine, broker, replay, set, app,
                 flow, requested, bounds>>

\* runBoot up to the start of ReplayGrants: the VM is launched and its stack
\* started from the launch options, or the boot has failed.
StartEgress ==
  /\ boot = "launching"
  /\ \/ /\ boot' = "replaying" /\ replay' = live
        /\ stacks' = Append(stacks, [rules |-> launch, grants |-> {}, pins |-> {},
                                     swaps |-> 0, killed |-> 0])
        /\ active' = Len(stacks) + 1
     \/ boot' = "none" /\ UNCHANGED <<replay, engine>>
  /\ launch' = {}
  /\ UNCHANGED <<state, tearing, opts, row, promised, broker, set, app, flow,
                 requested, bounds>>

\* ReplayGrants: AllowEgress for one grant after the other.
ReplayGrants ==
  /\ boot = "replaying"
  /\ \E d \in replay : /\ replay' = replay \ {d}
                       /\ stacks' = [stacks EXCEPT ![active].grants = @ \cup {d}]
  /\ UNCHANGED <<registration, active, broker, set, app, flow, requested, bounds>>

\* The rest of runBoot and settleBoot: the sandbox runs, or what was brought up
\* is rolled back.
SettleBoot ==
  /\ boot = "replaying"
  /\ boot' = "none"
  /\ \/ replay = {} /\ state' = "running" /\ UNCHANGED <<engine, replay>>
     \/ state' = state /\ Stop /\ replay' = {}
  /\ UNCHANGED <<tearing, opts, row, launch, promised, broker, set, app, flow,
                 requested, bounds>>

\* suspendLocked: the stack is stopped first; when the VM then cannot be stopped
\* or the pause not recorded, the sandbox stays booted without a stack.
Suspend ==
  /\ Known /\ state = "running"
  /\ Stop
  /\ state' \in {"running", "suspended"}
  /\ UNCHANGED <<boot, tearing, opts, row, launch, promised, broker, replay, set, app,
                 flow, requested, bounds>>

\* teardownLocked of a sandbox that is not booted touches neither the broker nor
\* the engine.
TeardownUnbooted ==
  /\ Known /\ ~Booted
  /\ state' = "gone"
  /\ UNCHANGED <<boot, tearing, opts, row, launch, promised, engine, broker, replay, set, app,
                 flow, requested, bounds>>

\* teardownLocked of a booted one: CapabilityService.Revoke empties the broker ...
RevokeGrants ==
  /\ Known /\ state = "running"
  /\ tearing' = TRUE
  /\ live' = {} /\ pending' = {} /\ astray' = {}
  /\ UNCHANGED <<state, boot, opts, row, launch, promised, engine, granted, replay, set, app,
                 flow, requested, bounds>>

\* ... then RevokeAll, StopEgress, the VM, the terminal event and the row: all
\* done, or left for a retry once the stack is down.
EndTeardown ==
  /\ tearing
  /\ tearing' = FALSE /\ state' \in {"running", "gone"}
  /\ Stop
  /\ UNCHANGED <<boot, opts, row, launch, promised, broker, replay, set, app, flow,
                 requested, bounds>>

\* The daemon dies with its VMs, stacks and memory; the next one adopts a sandbox
\* recorded as created and ends any other.
Restart ==
  /\ crashes < MaxCrashes /\ crashes' = crashes + 1
  /\ state' = IF state = "created" THEN "created" ELSE "gone"
  /\ boot' = "none" /\ tearing' = FALSE /\ opts' = row /\ launch' = {}
  /\ Stop /\ replay' = {} /\ live' = {} /\ pending' = {} /\ astray' = {}
  /\ set' = [s \in Setters |-> NoSet]
  /\ app' = [a \in Approvers |-> NoApp]
  /\ flow' = [f \in Flows |-> NoFlow]
  /\ UNCHANGED <<row, promised, granted, requested, asked>>

------------------------------------------------------------------------------
(* The policy verb. *)

(* Mutant: a change goes ahead although its request could not be recorded. *)
AskSetUnrecorded(s) ==
  /\ set[s].stage = "idle" /\ Known /\ asked < MaxSets
  /\ asked' = asked + 1
  /\ \E p \in Policies, d \in BOOLEAN :
       /\ set' = [set EXCEPT ![s] = [NoSet EXCEPT
                    !.stage = IF state = "running" THEN "swap" ELSE "stage",
                    !.policy = p, !.drain = d]]
       /\ requested' \in {requested, requested \cup {p}}
  /\ UNCHANGED <<registration, engine, broker, replay, app, flow, crashes>>

\* servePolicySet and Set up to the recorded request: the state the registration
\* has now decides which way the change goes.  A request that cannot be recorded
\* changes nothing.
AskSet(s) ==
  /\ set[s].stage = "idle" /\ Known /\ asked < MaxSets
  /\ asked' = asked + 1
  /\ \E p \in Policies, d \in BOOLEAN :
       /\ set' = [set EXCEPT ![s] = [NoSet EXCEPT
                    !.stage = IF state = "running" THEN "swap" ELSE "stage",
                    !.policy = p, !.drain = d]]
       /\ requested' = requested \cup {p}
  /\ UNCHANGED <<registration, engine, broker, replay, app, flow, crashes>>

(* Mutant: only a finished boot refuses a staged policy. *)
LaunchedWhenRunning == state = "running"

\* pendingRegLocked: a boot in flight has taken its options already.
Launched == Booted

\* stageSet: onto the launch options of a sandbox that has not booted, the row
\* first; a sandbox that has booted by now is served by its stack; a failure, or a
\* sandbox that is gone, ends the request.
StageSet(s) ==
  /\ set[s].stage = "stage" /\ ~tearing
  /\ \/ /\ state # "gone" /\ ~Launched
        /\ row' = set[s].policy /\ opts' = set[s].policy /\ promised' = set[s].policy
        /\ set' = [set EXCEPT ![s] = NoSet]
     \/ /\ state = "gone" \/ ~Launched
        /\ set' = [set EXCEPT ![s] = NoSet] /\ UNCHANGED <<row, opts, promised>>
     \/ /\ state # "gone" /\ Launched
        /\ set' = [set EXCEPT ![s].stage = "swap"] /\ UNCHANGED <<row, opts, promised>>
  /\ UNCHANGED <<state, boot, tearing, launch, engine, broker, replay, app, flow, requested,
                 bounds>>

\* Runner.SetPolicy up to SetRules: without a running stack the change fails;
\* otherwise the rules are replaced and the grants dropped, while the pins of the
\* resolver stay.  Rules swapped on a stack that stopped after it was looked up
\* are as good as swapped just before it stopped.
SetRules(s) ==
  /\ set[s].stage = "swap"
  /\ IF active = 0
     THEN set' = [set EXCEPT ![s] = NoSet] /\ stacks' = stacks
     ELSE /\ stacks' = [stacks EXCEPT ![active].rules = set[s].policy, ![active].grants = {},
                                      ![active].swaps = @ + 1]
          /\ set' = [set EXCEPT ![s] = IF set[s].drain THEN NoSet
                                       ELSE [NoSet EXCEPT !.stage = "kill", !.on = active,
                                                          !.swap = stacks[active].swaps + 1]]
  /\ UNCHANGED <<registration, active, broker, replay, app, flow, requested, bounds>>

\* Authorised, and on its way to the registry.
OnItsWay(f) == flow[f].stage \in {"resolving", "dialing"}

\* FlowRegistry.CloseAll: every flow the registry of the stack holds is closed;
\* one that is still being resolved or dialed is not among them.
CloseAll(s) ==
  /\ set[s].stage = "kill"
  /\ LET k == set[s].on
     IN /\ flow' = [f \in Flows |->
                      IF flow[f].on # k THEN flow[f]
                      ELSE IF flow[f].tracked THEN NoFlow
                      ELSE [flow[f] EXCEPT !.missed = @ \/ OnItsWay(f)]]
        /\ stacks' = [stacks EXCEPT ![k].killed = Max({@, set[s].swap})]
  /\ set' = [set EXCEPT ![s] = NoSet]
  /\ UNCHANGED <<registration, active, broker, replay, app, requested, bounds>>

------------------------------------------------------------------------------
(* The capability broker. *)

\* serveGrant, Approve and Grant up to the recorded policy_granted event.
Approve(a) ==
  /\ app[a].stage = "idle" /\ Known
  /\ \E d \in pending :
       /\ app' = [app EXCEPT ![a] = [stage |-> "widen", dest |-> d, on |-> 0]]
       /\ granted' = granted \cup {d}
  /\ UNCHANGED <<registration, engine, live, pending, astray, replay, set, flow, requested,
                 bounds>>

\* AllowEgress: without a running stack the grant fails and stays pending.
AllowEgress(a) ==
  /\ app[a].stage = "widen"
  /\ IF active = 0
     THEN app' = [app EXCEPT ![a] = NoApp] /\ stacks' = stacks
     ELSE /\ stacks' = [stacks EXCEPT ![active].grants = @ \cup {app[a].dest}]
          /\ app' = [app EXCEPT ![a].stage = "hold", ![a].on = active]
  /\ UNCHANGED <<registration, active, broker, replay, set, flow, requested, bounds>>

\* The end of Grant: the grant is held live.
HoldGrant(a) ==
  /\ app[a].stage = "hold"
  /\ live' = live \cup {app[a].dest}
  /\ astray' = IF app[a].on = active THEN astray ELSE astray \cup {app[a].dest}
  /\ app' = [app EXCEPT ![a].stage = "drop", ![a].on = 0]
  /\ UNCHANGED <<registration, engine, pending, granted, replay, set, flow, requested, bounds>>

\* The end of Approve: the request is no longer pending.
DropRequest(a) ==
  /\ app[a].stage = "drop"
  /\ pending' = pending \ {app[a].dest}
  /\ app' = [app EXCEPT ![a] = NoApp]
  /\ UNCHANGED <<registration, engine, live, granted, astray, replay, set, flow, requested,
                 bounds>>

------------------------------------------------------------------------------
(* The data path. *)

\* authorizeRawIP: a rule, a grant, or a pin of the resolver.
Admits(k, d) == d \in stacks[k].rules \cup stacks[k].grants \cup stacks[k].pins

\* The transparent proxy takes a connection and asks the authorizer.
Connect(f) ==
  /\ flow[f].stage = "idle" /\ active # 0
  /\ \E d \in Dests :
       flow' = [flow EXCEPT ![f] = [NoFlow EXCEPT !.dest = d, !.on = active,
                  !.stage = IF Admits(active, d) THEN "dialing" ELSE "denied",
                  !.since = stacks[active].swaps]]
  /\ UNCHANGED <<registration, engine, broker, replay, set, app, requested, bounds>>

\* A DNS query, or a CONNECT by name: the name must be on the list.
AskName(f) ==
  /\ flow[f].stage = "idle" /\ active # 0
  /\ \E n \in Names \cap stacks[active].rules :
       flow' = [flow EXCEPT ![f] = [NoFlow EXCEPT !.stage = "resolving", !.name = n, !.on = active,
                                                  !.since = stacks[active].swaps]]
  /\ UNCHANGED <<registration, engine, broker, replay, set, app, requested, bounds>>

\* Resolver.Resolve after its gate: the answer is pinned, and a CONNECT goes on
\* to dial one of the addresses; or the lookup fails.
Resolve(f) ==
  /\ flow[f].stage = "resolving"
  /\ LET answer == Lookup[flow[f].name]
     IN \/ /\ stacks' = IF flow[f].on = active
                        THEN [stacks EXCEPT ![active].pins = @ \cup answer] ELSE stacks
           /\ \/ flow' = [flow EXCEPT ![f] = NoFlow]
              \/ \E d \in answer :
                   flow' = [flow EXCEPT ![f].stage = "dialing", ![f].dest = d]
        \/ flow' = [flow EXCEPT ![f] = NoFlow] /\ stacks' = stacks
  /\ UNCHANGED <<registration, active, broker, replay, set, app, requested, bounds>>

(* Mutant: this path does not register its flows. *)
SpliceUntracked(f) ==
  /\ flow[f].stage = "dialing"
  /\ flow' = [flow EXCEPT ![f].stage = "spliced"]
  /\ UNCHANGED <<registration, engine, broker, replay, set, app, requested, bounds>>

\* SpliceTracked, once the destination was dialed.
SpliceTracked(f) ==
  /\ flow[f].stage = "dialing"
  /\ flow' = [flow EXCEPT ![f].stage = "spliced", ![f].tracked = TRUE]
  /\ UNCHANGED <<registration, engine, broker, replay, set, app, requested, bounds>>

\* The dial fails, or one side closes the connection, as the end of the VM does.
EndFlow(f) ==
  /\ flow[f].stage \in {"dialing", "spliced"}
  /\ flow' = [flow EXCEPT ![f] = NoFlow]
  /\ UNCHANGED <<registration, engine, broker, replay, set, app, requested, bounds>>

\* CapabilityService.RecordDenial, from the authorizer's deny path.
RecordDenial(f) ==
  /\ flow[f].stage = "denied"
  /\ flow' = [flow EXCEPT ![f] = NoFlow]
  /\ pending' = IF flow[f].dest \in live THEN pending ELSE pending \cup {flow[f].dest}
  /\ UNCHANGED <<registration, engine, live, granted, astray, replay, set, app, requested, bounds>>

------------------------------------------------------------------------------
Next ==
  \/ StartBoot \/ StartEgress \/ ReplayGrants \/ SettleBoot
  \/ Suspend \/ TeardownUnbooted \/ RevokeGrants \/ EndTeardown \/ Restart
  \/ \E s \in Setters : AskSet(s) \/ StageSet(s) \/ SetRules(s) \/ CloseAll(s)
  \/ \E a \in Approvers :
       Approve(a) \/ AllowEgress(a) \/ HoldGrant(a) \/ DropRequest(a)
  \/ \E f \in Flows :
       Connect(f) \/ AskName(f) \/ Resolve(f) \/ SpliceTracked(f) \/ EndFlow(f) \/ RecordDenial(f)

Spec == Init /\ [][Next]_vars

------------------------------------------------------------------------------
(* Properties. *)

\* Nothing widens egress before the trail says so: every rule set a stack has or
\* a launch would use was recorded as requested, and every grant a stack honours
\* or the broker holds was recorded as granted (Set and Grant: the event comes
\* first), on every way a rule or a grant can travel: staged, live, replayed.
RecordedFirst ==
  /\ {opts, row} \subseteq requested
  /\ active # 0 => stacks[active].rules \in requested /\ stacks[active].grants \subseteq granted
  /\ live \subseteq granted

\* A stack starts with the policy last reported as pending, whatever boot, failed
\* save or restart came between the report and the start
\* (StagePendingEgressPolicy, pendingRegLocked).
StagedIsEnforced ==
  [][Len(stacks') > Len(stacks) => stacks'[Len(stacks')].rules = promised]_vars

\* A running sandbox honours every grant the broker holds for it, also after a
\* boot that had to replay them, as long as nobody replaced the rules of its stack
\* (SetRules drops the grants) and the grant was held while the stack it widened
\* still ran (ReplayGrants, Grant).
GrantsHonoured ==
  state = "running" /\ ~tearing /\ active # 0 /\ stacks[active].swaps = 0
    => live \ astray \subseteq stacks[active].grants

\* Replayed, or "silently denied forever" (ReplayGrants): the same for every
\* grant, whichever stack it widened.
HeldIsHonoured ==
  state = "running" /\ ~tearing /\ active # 0 /\ stacks[active].swaps = 0
    => live \subseteq stacks[active].grants

\* Once a policy change that does not drain is done, every flow left was
\* authorised by its rules or by later ones, also when several changes run at
\* once, unless the flow was still being resolved or dialed when the registry was
\* emptied (Runner.SetPolicy: swap first, then CloseAll; SpliceTracked).
KillReachesAll ==
  \A f \in Flows : flow[f].stage = "spliced" /\ ~flow[f].missed =>
                     flow[f].since >= stacks[flow[f].on].killed

\* "expects the grant to be GONE" (Runner.SetPolicy; ADR-012): the same without
\* the exception.
RevokedIsGone ==
  \A f \in Flows : flow[f].stage = "spliced" => flow[f].since >= stacks[flow[f].on].killed

\* One prompt per capability: a destination the broker holds a grant for is not
\* asked for again, except while its approval is finishing (RecordDenial,
\* Approve).
OnePrompt ==
  pending \cap live \subseteq {app[a].dest : a \in {b \in Approvers : app[b].stage = "drop"}}

\* A stack runs only for a sandbox that is booted or booting, so that no listener
\* outlives its VM.
NoStrayStack == active # 0 => Booted

\* "a caller who still wants it re-grants it against the new rules" (SetRules;
\* ADR-012): when a denial has been recorded, its destination can be approved,
\* or is admitted by now.
RegrantPossible ==
  [][\A f \in Flows :
       flow[f].stage = "denied" /\ flow'[f].stage = "idle" /\ crashes' = crashes =>
         \/ flow[f].dest \in pending'
         \/ active = 0
         \/ Admits(active, flow[f].dest)]_vars

\* Grants are accounted for: recorded before they widen anything; when held in
\* time, honoured by every later boot until the rules of the stack are replaced;
\* and asked for once (Grant, ReplayGrants, RecordDenial).
GrantsAccounted == TypeOK /\ RecordedFirst /\ GrantsHonoured /\ OnePrompt

\* A revoked policy leaves no flow it allowed but those caught between their
\* authorisation and the registry, and no stack outlives its VM (Runner.SetPolicy,
\* Suspend).
NothingOutlives == KillReachesAll /\ NoStrayStack
==============================================================================
