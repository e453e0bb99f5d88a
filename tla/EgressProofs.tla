---------------------------- MODULE EgressProofs ----------------------------
(***************************************************************************)
(* Theorems about the egress policy of a sandbox, for every set of         *)
(* destinations, names, policies, requests and connections, and any number *)
(* of boots, changes and restarts: grants are recorded, honoured and asked *)
(* for once; a kill leaves no older flow that was established, and no      *)
(* stack outlives its VM; a stack starts with the policy last reported.    *)
(***************************************************************************)
EXTENDS EgressControl, TLAPS

-----------------------------------------------------------------------------
(* The inductive invariant. *)

\* What a request or a connection points to is there: the stack it works on has
\* been started, its swap has happened, its destination or its name is known.
\* No kill is ahead of the swaps of its stack.
Grounded ==
  /\ \A s \in Setters : set[s].stage = "kill" =>
       set[s].on \in 1..Len(stacks) /\ set[s].swap <= stacks[set[s].on].swaps
  /\ \A a \in Approvers : app[a].stage = "hold" => app[a].on \in 1..Len(stacks)
  /\ \A f \in Flows : flow[f].stage # "idle" => flow[f].on \in 1..Len(stacks)
  /\ \A f \in Flows : flow[f].stage \in {"dialing", "spliced", "denied"} => flow[f].dest \in Dests
  /\ \A f \in Flows : flow[f].stage = "resolving" => flow[f].name \in Names
  /\ \A k \in 1..Len(stacks) : stacks[k].killed <= stacks[k].swaps

\* How a boot, a teardown and the running stack exclude each other.
Phases ==
  /\ boot # "none" => state # "running"
  /\ tearing => state = "running"
  /\ active # 0 => state = "running" \/ boot = "replaying"
  /\ boot = "replaying" => active # 0
  /\ replay # {} => boot = "replaying"

\* RecordedFirst, for what is still on its way to a stack as well.
Recorded ==
  /\ {opts, row} \subseteq requested
  /\ active # 0 => stacks[active].rules \in requested /\ stacks[active].grants \subseteq granted
  /\ live \subseteq granted /\ replay \subseteq granted
  /\ boot = "launching" => launch \in requested
  /\ \A s \in Setters : set[s].stage \in {"stage", "swap"} => set[s].policy \in requested
  /\ \A a \in Approvers : app[a].stage # "idle" => app[a].dest \in granted

\* The options, the row and the copy a launch has taken are what was reported.
Reported ==
  /\ opts = promised /\ row = promised
  /\ boot = "launching" => launch = promised

\* GrantsHonoured, for a boot that is replaying and an approval about to be held.
Honoured ==
  active # 0 /\ stacks[active].swaps = 0 =>
    /\ live \ astray \subseteq stacks[active].grants \cup replay
    /\ \A a \in Approvers : app[a].stage = "hold" /\ app[a].on = active =>
         app[a].dest \in stacks[active].grants

\* Authorised at all, and by the rules of the last kill or later ones, unless that
\* kill has missed it.
InTime(e) ==
  e.stage \in {"resolving", "dialing", "spliced"} /\ ~e.missed => e.since >= stacks[e.on].killed

\* KillReachesAll, for flows on their way as well, and why CloseAll reaches every
\* established one.
Reached ==
  /\ \A f \in Flows : InTime(flow[f])
  /\ \A f \in Flows : flow[f].stage = "spliced" => flow[f].tracked

\* The three theorems' properties follow from it; every action keeps it.
IInv == TypeOK /\ Grounded /\ Phases /\ Recorded /\ Reported /\ Honoured /\ OnePrompt /\ Reached

-----------------------------------------------------------------------------
(* Stacks. *)

\* One stack changed, the others as they were.
Edited(k, e) ==
  /\ stacks' \in Seq(Stack) /\ Len(stacks') = Len(stacks)
  /\ stacks'[k] = e /\ \A j \in 1..Len(stacks) : j # k => stacks'[j] = stacks[j]

\* What is read from the stacks is a stack.
LEMMA StackFields ==
  ASSUME stacks \in Seq(Stack), NEW k \in 1..Len(stacks)
  PROVE  /\ stacks[k] \in Stack
         /\ stacks[k].rules \in SUBSET (Dests \cup Names) /\ stacks[k].grants \in SUBSET Dests
         /\ stacks[k].pins \in SUBSET Dests /\ stacks[k].swaps \in Nat /\ stacks[k].killed \in Nat
<1>1. stacks[k] \in Stack
  OBVIOUS
<1> QED
  BY <1>1 DEF Stack

\* Replacing one element of a sequence.
LEMMA EditFacts ==
  ASSUME stacks \in Seq(Stack), NEW k \in 1..Len(stacks), NEW e \in Stack,
         stacks' = [stacks EXCEPT ![k] = e]
  PROVE  Edited(k, e)
<1>1. stacks \in [1..Len(stacks) -> Stack] /\ Len(stacks) \in Nat
  OBVIOUS
<1>2. stacks' \in [1..Len(stacks) -> Stack]
  BY <1>1
<1>3. stacks' \in Seq(Stack) /\ Len(stacks') = Len(stacks)
  BY <1>1, <1>2
<1> QED
  BY <1>1, <1>3 DEF Edited

\* The number of the running stack is the number of a stack.
LEMMA ActiveIsStack ==
  ASSUME TypeOK, active # 0 PROVE active \in 1..Len(stacks)
BY DEF TypeOK

\* Stop keeps the swaps and the kills of every stack.
Stopped ==
  /\ active' = 0 /\ stacks' \in Seq(Stack) /\ Len(stacks') = Len(stacks)
  /\ \A k \in 1..Len(stacks) :
       stacks'[k].swaps = stacks[k].swaps /\ stacks'[k].killed = stacks[k].killed

\* Stopping clears the rules, the grants and the pins, and only those.
LEMMA StopFacts ==
  ASSUME TypeOK, Stop PROVE Stopped
<1>1. CASE active = 0
  BY <1>1 DEF Stop, TypeOK, Stopped
<1>2. CASE active # 0
  <2> DEFINE e == [stacks[active] EXCEPT !.rules = {}, !.grants = {}, !.pins = {}]
  <2>1. active \in 1..Len(stacks) /\ stacks \in Seq(Stack)
    BY <1>2, ActiveIsStack DEF TypeOK
  <2>2. e \in Stack /\ e.swaps = stacks[active].swaps /\ e.killed = stacks[active].killed
    BY Zenon, <2>1, StackFields DEF Stack
  <2>3. stacks' = [stacks EXCEPT ![active] = e]
    BY Zenon, <1>2, <2>1 DEF Stop
  <2> HIDE DEF e
  <2>4. Edited(active, e)
    BY Zenon, <2>1, <2>2, <2>3, EditFacts
  <2> QED
    BY Zenon, <2>1, <2>2, <2>4 DEF Edited, Stopped, Stop
<1> QED
  BY <1>1, <1>2

\* What one stack is to the invariant, and that the others are as they were.
Becomes(k, rules, grants, swaps, killed) ==
  /\ stacks' \in Seq(Stack) /\ Len(stacks') = Len(stacks)
  /\ stacks'[k].rules = rules /\ stacks'[k].grants = grants
  /\ stacks'[k].swaps = swaps /\ stacks'[k].killed = killed
  /\ \A j \in 1..Len(stacks) : j # k => stacks'[j] = stacks[j]

\* AllowEgress and ReplayGrants add a destination to the running stack.
LEMMA WidenFacts ==
  ASSUME TypeOK, active # 0, NEW d \in Dests,
         stacks' = [stacks EXCEPT ![active].grants = @ \cup {d}]
  PROVE  Becomes(active, stacks[active].rules, stacks[active].grants \cup {d},
                 stacks[active].swaps, stacks[active].killed)
<1> DEFINE e == [stacks[active] EXCEPT !.grants = @ \cup {d}]
<1>1. active \in 1..Len(stacks) /\ stacks \in Seq(Stack)
  BY ActiveIsStack DEF TypeOK
<1>2. /\ e \in Stack /\ e.rules = stacks[active].rules /\ e.grants = stacks[active].grants \cup {d}
      /\ e.swaps = stacks[active].swaps /\ e.killed = stacks[active].killed
  BY Zenon, <1>1, StackFields DEF Stack
<1>3. stacks' = [stacks EXCEPT ![active] = e]
  BY <1>1
<1> HIDE DEF e
<1> QED
  BY ZenonT(60), <1>1, <1>2, <1>3, EditFacts DEF Edited, Becomes

\* Resolve pins addresses in the running stack.
LEMMA PinFacts ==
  ASSUME TypeOK, active # 0, NEW A \in SUBSET Dests,
         stacks' = [stacks EXCEPT ![active].pins = @ \cup A]
  PROVE  Becomes(active, stacks[active].rules, stacks[active].grants,
                 stacks[active].swaps, stacks[active].killed)
<1> DEFINE e == [stacks[active] EXCEPT !.pins = @ \cup A]
<1>1. active \in 1..Len(stacks) /\ stacks \in Seq(Stack)
  BY ActiveIsStack DEF TypeOK
<1>2. /\ e \in Stack /\ e.rules = stacks[active].rules /\ e.grants = stacks[active].grants
      /\ e.swaps = stacks[active].swaps /\ e.killed = stacks[active].killed
  BY Zenon, <1>1, StackFields DEF Stack
<1>3. stacks' = [stacks EXCEPT ![active] = e]
  BY <1>1
<1> HIDE DEF e
<1> QED
  BY ZenonT(60), <1>1, <1>2, <1>3, EditFacts DEF Edited, Becomes

\* SetRules replaces the rules, drops the grants and counts the swap.
LEMMA SwapFacts ==
  ASSUME TypeOK, active # 0, NEW p \in SUBSET (Dests \cup Names),
         stacks' = [stacks EXCEPT ![active].rules = p, ![active].grants = {},
                                  ![active].swaps = @ + 1]
  PROVE  Becomes(active, p, {}, stacks[active].swaps + 1, stacks[active].killed)
<1> DEFINE e == [stacks[active] EXCEPT !.rules = p, !.grants = {}, !.swaps = @ + 1]
<1>1. active \in 1..Len(stacks) /\ stacks \in Seq(Stack)
  BY ActiveIsStack DEF TypeOK
<1>2. /\ e \in Stack /\ e.rules = p /\ e.grants = {}
      /\ e.swaps = stacks[active].swaps + 1 /\ e.killed = stacks[active].killed
  BY <1>1, StackFields DEF Stack
<1>3. stacks' = [stacks EXCEPT ![active] = e]
  BY Zenon, <1>1
<1> HIDE DEF e
<1> QED
  BY ZenonT(60), <1>1, <1>2, <1>3, EditFacts DEF Edited, Becomes

\* The larger of two numbers.
LEMMA MaxOfTwo ==
  ASSUME NEW x \in Nat, NEW y \in Nat
  PROVE  Max({x, y}) = IF x >= y THEN x ELSE y
BY DEF Max

\* CloseAll records the kill of a stack.
LEMMA KillFacts ==
  ASSUME TypeOK, NEW k \in 1..Len(stacks), NEW w \in Nat,
         stacks' = [stacks EXCEPT ![k].killed = Max({@, w})]
  PROVE  Becomes(k, stacks[k].rules, stacks[k].grants, stacks[k].swaps,
                 IF stacks[k].killed >= w THEN stacks[k].killed ELSE w)
<1> DEFINE m == IF stacks[k].killed >= w THEN stacks[k].killed ELSE w
           e == [stacks[k] EXCEPT !.killed = m]
<1>1. stacks \in Seq(Stack)
  BY DEF TypeOK
<1>2. m \in Nat /\ Max({stacks[k].killed, w}) = m
  BY Zenon, <1>1, StackFields, MaxOfTwo
<1> HIDE DEF m
<1>3. /\ e \in Stack /\ e.rules = stacks[k].rules /\ e.grants = stacks[k].grants
      /\ e.swaps = stacks[k].swaps /\ e.killed = m
  BY Zenon, <1>1, <1>2, StackFields DEF Stack
<1>4. stacks' = [stacks EXCEPT ![k] = e]
  BY Zenon, <1>1, <1>2
<1> HIDE DEF e
<1>5. Edited(k, e)
  BY Zenon, <1>1, <1>3, <1>4, EditFacts
<1> QED
  BY Zenon, <1>3, <1>5 DEF Edited, Becomes, m

\* StartEgress: a stack more, with nothing granted, swapped or killed.
LEMMA StartFacts ==
  ASSUME TypeOK, NEW p \in SUBSET (Dests \cup Names),
         stacks' = Append(stacks, [rules |-> p, grants |-> {}, pins |-> {},
                                   swaps |-> 0, killed |-> 0])
  PROVE  /\ stacks' \in Seq(Stack) /\ Len(stacks') = Len(stacks) + 1 /\ Len(stacks) \in Nat
         /\ \A j \in 1..Len(stacks) : stacks'[j] = stacks[j]
         /\ stacks'[Len(stacks) + 1].rules = p /\ stacks'[Len(stacks) + 1].grants = {}
         /\ stacks'[Len(stacks) + 1].swaps = 0 /\ stacks'[Len(stacks) + 1].killed = 0
<1> DEFINE e == [rules |-> p, grants |-> {}, pins |-> {}, swaps |-> 0, killed |-> 0]
<1>1. e \in Stack /\ e.rules = p /\ e.grants = {} /\ e.swaps = 0 /\ e.killed = 0
  BY DEF Stack
<1>2. stacks \in Seq(Stack) /\ stacks' = Append(stacks, e)
  BY DEF TypeOK
<1> HIDE DEF e
<1> QED
  BY <1>1, <1>2

-----------------------------------------------------------------------------
(* Requests and connections. *)

\* A request to change the policy, field by field.
LEMMA SetterMade ==
  ASSUME NEW st \in {"idle", "stage", "swap", "kill"}, NEW p \in SUBSET (Dests \cup Names),
         NEW b \in BOOLEAN, NEW k \in Nat, NEW w \in Nat
  PROVE  [stage |-> st, policy |-> p, drain |-> b, on |-> k, swap |-> w] \in Setter
BY Zenon DEF Setter

\* A connection, field by field.
LEMMA FlowMade ==
  ASSUME NEW st \in {"idle", "resolving", "dialing", "spliced", "denied"},
         NEW d \in Dests \cup {None}, NEW n \in Names \cup {None},
         NEW k \in Nat, NEW w \in Nat, NEW b \in BOOLEAN, NEW c \in BOOLEAN
  PROVE  [stage |-> st, dest |-> d, name |-> n, on |-> k, since |-> w, tracked |-> b,
          missed |-> c] \in FlowRec
BY Zenon DEF FlowRec

\* The request of a caller moves on.
LEMMA SetterMoves ==
  ASSUME set \in [Setters -> Setter], NEW s \in Setters, NEW e \in Setter,
         set' = [set EXCEPT ![s] = e]
  PROVE  /\ set' \in [Setters -> Setter] /\ set'[s] = e
         /\ \A r \in Setters : r # s => set'[r] = set[r]
OBVIOUS

\* A connection moves on.
LEMMA FlowMoves ==
  ASSUME flow \in [Flows -> FlowRec], NEW f \in Flows, NEW e \in FlowRec,
         flow' = [flow EXCEPT ![f] = e]
  PROVE  /\ flow' \in [Flows -> FlowRec] /\ flow'[f] = e
         /\ \A g \in Flows : g # f => flow'[g] = flow[g]
OBVIOUS

\* The idle request and the idle connection.
LEMMA IdleFacts ==
  /\ NoSet \in Setter /\ NoSet.stage = "idle"
  /\ NoApp \in Approver /\ NoApp.stage = "idle"
  /\ NoFlow \in FlowRec /\ NoFlow.stage = "idle"
BY Zenon, SetterMade, FlowMade DEF NoSet, NoFlow, NoApp, Approver

-----------------------------------------------------------------------------
(* One lemma per action. *)

\* AskSet: a request on record.
LEMMA AskSetStep ==
  ASSUME IInv, NEW s \in Setters, AskSet(s)
  PROVE  IInv'
<1> DEFINE Asked(p, b) == [NoSet EXCEPT !.stage = IF state = "running" THEN "swap" ELSE "stage",
                                        !.policy = p, !.drain = b]
<1>1. PICK p \in Policies, b \in BOOLEAN :
        set' = [set EXCEPT ![s] = Asked(p, b)] /\ requested' = requested \cup {p}
  BY Zenon DEF AskSet
<1>2. /\ Asked(p, b) \in Setter /\ Asked(p, b).stage \in {"swap", "stage"}
      /\ Asked(p, b).policy = p
  BY Zenon, IdleFacts, EgressAssumption DEF Setter
<1> HIDE DEF Asked
<1>3. /\ set' \in [Setters -> Setter] /\ set'[s] = Asked(p, b)
      /\ \A r \in Setters : r # s => set'[r] = set[r]
  BY <1>1, <1>2, SetterMoves DEF IInv, TypeOK
<1>4. /\ asked' \in 0..MaxSets
      /\ UNCHANGED <<registration, engine, broker, replay, app, flow, crashes>>
  BY EgressAssumption DEF AskSet, IInv, TypeOK
<1> USE <1>4 DEF registration, engine, broker
<1>5. TypeOK'
  BY <1>1, <1>3 DEF IInv, TypeOK
<1>6. Grounded'
  BY Zenon, <1>2, <1>3 DEF IInv, Grounded
<1>7. Recorded'
  BY <1>1, <1>2, <1>3 DEF IInv, Recorded
<1>8. Phases' /\ Reported' /\ Honoured' /\ OnePrompt' /\ Reached'
  BY DEF IInv, Phases, Reported, Honoured, OnePrompt, Reached, InTime
<1> QED
  BY <1>5, <1>6, <1>7, <1>8 DEF IInv

\* StageSet: options, row and report change together, and only before a launch.
LEMMA StageSetStep ==
  ASSUME IInv, NEW s \in Setters, StageSet(s)
  PROVE  IInv'
<1> DEFINE e == [set[s] EXCEPT !.stage = "swap"]
<1>1. set \in [Setters -> Setter] /\ set[s] \in Setter
  BY DEF IInv, TypeOK
<1>2. e \in Setter /\ e.stage = "swap" /\ e.policy = set[s].policy
  BY <1>1 DEF Setter
<1>3. set' = [set EXCEPT ![s] = NoSet] \/ set' = [set EXCEPT ![s] = e]
  BY DEF StageSet
<1> HIDE DEF e
<1>4. /\ set' \in [Setters -> Setter] /\ set'[s] \in {NoSet, e}
      /\ \A r \in Setters : r # s => set'[r] = set[r]
  BY <1>1, <1>2, <1>3, IdleFacts, SetterMoves
<1>5. /\ set[s].policy \in requested /\ set[s].policy \in Policies
      /\ \/ UNCHANGED <<row, opts, promised>>
         \/ /\ row' = set[s].policy /\ opts' = set[s].policy /\ promised' = set[s].policy
            /\ boot = "none"
      /\ UNCHANGED <<state, boot, tearing, launch, engine, broker, replay, app, flow,
                     requested, bounds>>
  BY DEF StageSet, Launched, Booted, IInv, Recorded, TypeOK
<1> USE <1>5 DEF engine, broker, bounds
<1>6. TypeOK'
  BY <1>4 DEF IInv, TypeOK
<1>7. Grounded'
  BY <1>2, <1>4, IdleFacts DEF IInv, Grounded
<1>8. Recorded'
  BY <1>2, <1>4, IdleFacts DEF IInv, Recorded
<1>9. Phases' /\ Reported' /\ Honoured' /\ OnePrompt' /\ Reached'
  BY DEF IInv, Phases, Reported, Honoured, OnePrompt, Reached, InTime
<1> QED
  BY <1>6, <1>7, <1>8, <1>9 DEF IInv

\* What the invariant asks of one connection.
Sound(e) ==
  /\ e.stage # "idle" => e.on \in 1..Len(stacks)
  /\ e.stage \in {"dialing", "spliced", "denied"} => e.dest \in Dests
  /\ e.stage = "resolving" => e.name \in Names
  /\ e.stage = "spliced" => e.tracked
  /\ InTime(e)

\* A step of one connection that leaves everything else alone.
LEMMA FlowStep ==
  ASSUME IInv, NEW f \in Flows, NEW e \in FlowRec, Sound(e), flow' = [flow EXCEPT ![f] = e],
         UNCHANGED <<registration, engine, broker, replay, set, app, requested, bounds>>
  PROVE  IInv'
<1> USE DEF registration, engine, broker, bounds
<1>1. /\ flow' \in [Flows -> FlowRec] /\ flow'[f] = e
      /\ \A g \in Flows : g # f => flow'[g] = flow[g]
  BY FlowMoves DEF IInv, TypeOK
<1>2. TypeOK'
  BY <1>1 DEF IInv, TypeOK
<1>3. Grounded'
  BY <1>1 DEF IInv, Grounded, Sound
<1>4. Reached'
  BY <1>1 DEF IInv, Reached, InTime, Sound
<1>5. Phases' /\ Recorded' /\ Reported' /\ Honoured' /\ OnePrompt'
  BY DEF IInv, Phases, Recorded, Reported, Honoured, OnePrompt
<1> QED
  BY <1>2, <1>3, <1>4, <1>5 DEF IInv

\* Connect: on the running stack, dialing or denied.
LEMMA ConnectStep ==
  ASSUME IInv, NEW f \in Flows, Connect(f) PROVE IInv'
<1> DEFINE e(d) == [NoFlow EXCEPT !.dest = d, !.on = active,
                      !.stage = IF Admits(active, d) THEN "dialing" ELSE "denied",
                      !.since = stacks[active].swaps]
<1>1. PICK d \in Dests : flow' = [flow EXCEPT ![f] = e(d)]
  BY Zenon DEF Connect
<1>2. active \in 1..Len(stacks) /\ active \in Nat /\ NoFlow \in FlowRec
  BY ActiveIsStack, IdleFacts DEF Connect, IInv, TypeOK
<1>2a. stacks[active].swaps \in Nat /\ stacks[active].swaps >= stacks[active].killed
  BY <1>2, StackFields DEF IInv, TypeOK, Grounded
<1>3. /\ e(d) \in FlowRec /\ e(d).on = active /\ e(d).dest = d
      /\ e(d).stage \in {"dialing", "denied"} /\ e(d).since = stacks[active].swaps
  BY Zenon, <1>2, <1>2a DEF FlowRec
<1> HIDE DEF e
<1>4. Sound(e(d))
  BY <1>2, <1>2a, <1>3 DEF Sound, InTime
<1> QED
  BY Zenon, <1>1, <1>3, <1>4, FlowStep DEF Connect

\* AskName: on the running stack, with a name.
LEMMA AskNameStep ==
  ASSUME IInv, NEW f \in Flows, AskName(f) PROVE IInv'
<1> DEFINE e(n) == [NoFlow EXCEPT !.stage = "resolving", !.name = n, !.on = active,
                             !.since = stacks[active].swaps]
<1>1. PICK n \in Names : flow' = [flow EXCEPT ![f] = e(n)]
  BY Zenon DEF AskName
<1>2. active \in 1..Len(stacks) /\ active \in Nat /\ NoFlow \in FlowRec
  BY ActiveIsStack, IdleFacts DEF AskName, IInv, TypeOK
<1>2a. stacks[active].swaps \in Nat /\ stacks[active].swaps >= stacks[active].killed
  BY <1>2, StackFields DEF IInv, TypeOK, Grounded
<1>3. /\ e(n) \in FlowRec /\ e(n).on = active /\ e(n).name = n /\ e(n).stage = "resolving"
      /\ e(n).since = stacks[active].swaps
  BY Zenon, <1>2, <1>2a DEF FlowRec
<1> HIDE DEF e
<1>4. Sound(e(n))
  BY <1>2, <1>2a, <1>3 DEF Sound, InTime
<1> QED
  BY Zenon, <1>1, <1>3, <1>4, FlowStep DEF AskName

\* SpliceTracked: in the registry, authorised when it was.
LEMMA SpliceTrackedStep ==
  ASSUME IInv, NEW f \in Flows, SpliceTracked(f) PROVE IInv'
<1> DEFINE e == [flow[f] EXCEPT !.stage = "spliced", !.tracked = TRUE]
<1>1. /\ flow[f].on \in 1..Len(stacks) /\ flow[f] \in FlowRec /\ flow[f].dest \in Dests
      /\ flow[f].stage = "dialing" /\ InTime(flow[f])
  BY DEF SpliceTracked, IInv, TypeOK, Grounded, Reached
<1>2. /\ e \in FlowRec /\ e.stage = "spliced" /\ e.since = flow[f].since
      /\ e.tracked /\ e.on = flow[f].on /\ e.dest = flow[f].dest /\ e.missed = flow[f].missed
  BY Zenon, <1>1 DEF FlowRec
<1>3. flow' = [flow EXCEPT ![f] = e]
  BY Zenon DEF SpliceTracked
<1> HIDE DEF e
<1>4. Sound(e)
  BY Zenon, <1>1, <1>2 DEF Sound, InTime
<1> QED
  BY Zenon, <1>2, <1>3, <1>4, FlowStep DEF SpliceTracked

\* EndFlow: one flow less.
LEMMA EndFlowStep ==
  ASSUME IInv, NEW f \in Flows, EndFlow(f) PROVE IInv'
<1>1. Sound(NoFlow)
  BY IdleFacts DEF Sound, InTime
<1> QED
  BY Zenon, <1>1, IdleFacts, FlowStep DEF EndFlow

\* RecordDenial: no prompt for what is granted.
LEMMA RecordDenialStep ==
  ASSUME IInv, NEW f \in Flows, RecordDenial(f) PROVE IInv'
<1> USE DEF registration, engine, broker, bounds
<1>1. /\ flow' \in [Flows -> FlowRec] /\ flow'[f] = NoFlow
      /\ \A g \in Flows : g # f => flow'[g] = flow[g]
  BY IdleFacts, FlowMoves DEF RecordDenial, IInv, TypeOK
<1>2. /\ flow[f].dest \in Dests
      /\ pending' = IF flow[f].dest \in live THEN pending ELSE pending \cup {flow[f].dest}
      /\ UNCHANGED <<registration, engine, live, granted, astray, replay, set, app, requested, bounds>>
  BY DEF RecordDenial, IInv, Grounded
<1>3. TypeOK'
  BY Zenon, <1>1, <1>2 DEF IInv, TypeOK
<1>4. Grounded'
  BY Zenon, <1>1, <1>2, IdleFacts DEF IInv, Grounded
<1>5. Reached'
  BY SMT, Z3, <1>1, <1>2, IdleFacts DEF IInv, Reached, InTime
<1>6. OnePrompt'
  BY <1>2 DEF IInv, OnePrompt
<1>7. Phases' /\ Recorded' /\ Reported' /\ Honoured'
  BY <1>2 DEF IInv, Phases, Recorded, Reported, Honoured
<1> QED
  BY <1>3, <1>4, <1>5, <1>6, <1>7 DEF IInv

\* Resolve: what is pinned is neither a rule nor a grant.
LEMMA ResolveStep ==
  ASSUME IInv, NEW f \in Flows, Resolve(f) PROVE IInv'
<1> USE DEF registration, engine, broker, bounds
<1> DEFINE answer == Lookup[flow[f].name]
           e(d) == [flow[f] EXCEPT !.stage = "dialing", !.dest = d]
<1>1. /\ flow[f].on \in 1..Len(stacks) /\ answer \in SUBSET Dests
      /\ flow[f] \in FlowRec /\ flow[f].stage = "resolving"
  BY EgressAssumption DEF Resolve, IInv, TypeOK, Grounded
<1>2. UNCHANGED <<registration, active, broker, replay, set, app, requested, bounds>>
  BY Zenon DEF Resolve
<1>3. flow' = [flow EXCEPT ![f] = NoFlow] \/ \E d \in answer : flow' = [flow EXCEPT ![f] = e(d)]
  BY Zenon DEF Resolve
<1>4. \A d \in answer :
        /\ e(d) \in FlowRec /\ e(d).stage = "dialing" /\ e(d).on = flow[f].on /\ e(d).dest = d
        /\ e(d).since = flow[f].since /\ e(d).missed = flow[f].missed
  BY Zenon, <1>1 DEF FlowRec
<1> HIDE DEF e
<1>5. /\ flow' \in [Flows -> FlowRec] /\ \A g \in Flows : g # f => flow'[g] = flow[g]
      /\ flow'[f].stage \in {"idle", "dialing"}
      /\ flow'[f].stage = "dialing" =>
           /\ flow'[f].on = flow[f].on /\ flow'[f].dest \in answer
           /\ flow'[f].since = flow[f].since /\ flow'[f].missed = flow[f].missed
  BY <1>3, <1>4, IdleFacts, FlowMoves DEF IInv, TypeOK
<1>6. \/ stacks' = stacks
      \/ active # 0 /\ stacks' = [stacks EXCEPT ![active].pins = @ \cup answer]
  BY <1>1 DEF Resolve
<1>7. \/ stacks' = stacks
      \/ active \in 1..Len(stacks) /\ Becomes(active, stacks[active].rules, stacks[active].grants,
                                 stacks[active].swaps, stacks[active].killed)
  BY Zenon, <1>1, <1>6, PinFacts, ActiveIsStack DEF IInv
<1> HIDE DEF answer
<1>8. /\ stacks' \in Seq(Stack) /\ Len(stacks') = Len(stacks)
      /\ \A k \in 1..Len(stacks) :
           /\ stacks'[k].rules = stacks[k].rules /\ stacks'[k].grants = stacks[k].grants
           /\ stacks'[k].swaps = stacks[k].swaps /\ stacks'[k].killed = stacks[k].killed
  BY Zenon, <1>7 DEF Becomes, IInv, TypeOK
<1>9. active # 0 => active \in 1..Len(stacks)
  BY ActiveIsStack DEF IInv
<1>10. TypeOK'
  BY <1>2, <1>5, <1>8 DEF IInv, TypeOK
<1>11. Grounded'
  BY ZenonT(60), <1>1, <1>2, <1>5, <1>8 DEF IInv, Grounded
<1>12. Reached'
  BY <1>1, <1>2, <1>5, <1>8 DEF IInv, Reached, InTime, Grounded
<1>13. Phases' /\ Reported' /\ OnePrompt'
  BY Zenon, <1>2 DEF IInv, Phases, Reported, OnePrompt
<1>14. Recorded' /\ Honoured'
  BY Zenon, <1>2, <1>8, <1>9 DEF IInv, Recorded, Honoured
<1> QED
  BY <1>10, <1>11, <1>12, <1>13, <1>14 DEF IInv

\* The approval of a caller moves on.
LEMMA ApproverMoves ==
  ASSUME app \in [Approvers -> Approver], NEW a \in Approvers, NEW e \in Approver,
         app' = [app EXCEPT ![a] = e]
  PROVE  /\ app' \in [Approvers -> Approver] /\ app'[a] = e
         /\ \A r \in Approvers : r # a => app'[r] = app[r]
OBVIOUS

\* Approve: a grant on record.
LEMMA ApproveStep ==
  ASSUME IInv, NEW a \in Approvers, Approve(a) PROVE IInv'
<1> USE DEF registration, engine, broker, bounds
<1> DEFINE e(d) == [stage |-> "widen", dest |-> d, on |-> 0]
<1>1. PICK d \in pending : app' = [app EXCEPT ![a] = e(d)] /\ granted' = granted \cup {d}
  BY Zenon DEF Approve
<1>2. e(d) \in Approver /\ e(d).stage = "widen" /\ e(d).dest = d /\ d \in Dests
  BY DEF Approver, IInv, TypeOK
<1> HIDE DEF e
<1>3. /\ app' \in [Approvers -> Approver] /\ app'[a] = e(d)
      /\ \A r \in Approvers : r # a => app'[r] = app[r]
  BY <1>1, <1>2, ApproverMoves DEF IInv, TypeOK
<1>4. /\ app[a].stage = "idle"
      /\ UNCHANGED <<registration, engine, live, pending, astray, replay, set, flow, requested, bounds>>
  BY Zenon DEF Approve
<1> USE <1>4
<1>5. TypeOK'
  BY <1>1, <1>2, <1>3 DEF IInv, TypeOK
<1>6. Grounded' /\ Recorded' /\ Honoured'
  BY Zenon, <1>1, <1>2, <1>3 DEF IInv, Grounded, Recorded, Honoured
<1>7. OnePrompt'
  BY ZenonT(60), <1>3 DEF IInv, OnePrompt
<1>8. Phases' /\ Reported' /\ Reached'
  BY DEF IInv, Phases, Reported, Reached, InTime
<1> QED
  BY <1>5, <1>6, <1>7, <1>8 DEF IInv

\* AllowEgress: the running stack is widened by what is on record.
LEMMA AllowEgressStep ==
  ASSUME IInv, NEW a \in Approvers, AllowEgress(a) PROVE IInv'
<1> USE DEF registration, engine, broker, bounds
<1> DEFINE e == [app[a] EXCEPT !.stage = "hold", !.on = active]
<1>1. /\ app[a].stage = "widen" /\ app[a].dest \in granted /\ app[a].dest \in Dests
      /\ app[a] \in Approver /\ active \in Nat /\ app \in [Approvers -> Approver]
      /\ UNCHANGED <<registration, active, broker, replay, set, flow, requested, bounds>>
  BY DEF AllowEgress, IInv, TypeOK, Recorded
<1>2. e \in Approver /\ e.stage = "hold" /\ e.on = active /\ e.dest = app[a].dest
  BY Zenon, <1>1 DEF Approver
<1>3. \/ active = 0 /\ app' = [app EXCEPT ![a] = NoApp] /\ stacks' = stacks
      \/ /\ active # 0 /\ app' = [app EXCEPT ![a] = e]
         /\ stacks' = [stacks EXCEPT ![active].grants = @ \cup {app[a].dest}]
  BY Zenon DEF AllowEgress
<1> HIDE DEF e
<1> USE <1>1
<1>4. CASE active = 0
  <2>1. /\ app' \in [Approvers -> Approver] /\ app'[a] = NoApp /\ stacks' = stacks
        /\ \A r \in Approvers : r # a => app'[r] = app[r]
    BY <1>3, <1>4, IdleFacts, ApproverMoves
  <2>2. TypeOK'
    BY Zenon, <2>1 DEF IInv, TypeOK
  <2>3. Grounded' /\ Recorded' /\ Honoured'
    BY Zenon, <1>4, <2>1, IdleFacts DEF IInv, Grounded, Recorded, Honoured
  <2>4. OnePrompt'
    BY ZenonT(60), <2>1 DEF IInv, OnePrompt
  <2>5. Phases' /\ Reported' /\ Reached'
    BY Zenon, <2>1 DEF IInv, Phases, Reported, Reached, InTime
  <2> QED
    BY <2>2, <2>3, <2>4, <2>5 DEF IInv
<1>5. CASE active # 0
  <2>1. /\ app' \in [Approvers -> Approver] /\ app'[a] = e
        /\ \A r \in Approvers : r # a => app'[r] = app[r]
    BY <1>2, <1>3, <1>5, ApproverMoves
  <2>2. /\ active \in 1..Len(stacks)
        /\ Becomes(active, stacks[active].rules, stacks[active].grants \cup {app[a].dest},
                   stacks[active].swaps, stacks[active].killed)
    BY Zenon, <1>3, <1>5, WidenFacts, ActiveIsStack DEF IInv
  <2>3. TypeOK'
    BY Zenon, <2>1, <2>2 DEF IInv, TypeOK, Becomes
  <2>4. Grounded'
    BY ZenonT(60), <1>2, <2>1, <2>2 DEF IInv, Grounded, Becomes
  <2>5. Recorded'
    BY ZenonT(60), <1>2, <2>1, <2>2 DEF IInv, Recorded, Becomes
  <2>6. Honoured'
    BY <1>2, <2>1, <2>2 DEF IInv, Honoured, Becomes
  <2>7. OnePrompt'
    BY ZenonT(60), <2>1 DEF IInv, OnePrompt
  <2>8. Reached'
    BY Zenon, <2>2 DEF IInv, Reached, InTime, Grounded, Becomes
  <2>9. Phases' /\ Reported'
    BY Zenon DEF IInv, Phases, Reported
  <2> QED
    BY <2>3, <2>4, <2>5, <2>6, <2>7, <2>8, <2>9 DEF IInv
<1> QED
  BY <1>4, <1>5

\* HoldGrant: held for the stack it widened, or astray.
LEMMA HoldGrantStep ==
  ASSUME IInv, NEW a \in Approvers, HoldGrant(a) PROVE IInv'
<1> USE DEF registration, engine, broker, bounds
<1> DEFINE e == [app[a] EXCEPT !.stage = "drop", !.on = 0]
<1>1. /\ app[a].stage = "hold" /\ app[a].dest \in granted /\ app[a].dest \in Dests
      /\ app[a].on \in 1..Len(stacks) /\ app[a] \in Approver
      /\ live' = live \cup {app[a].dest}
      /\ astray' = IF app[a].on = active THEN astray ELSE astray \cup {app[a].dest}
      /\ UNCHANGED <<registration, engine, pending, granted, replay, set, flow, requested, bounds>>
  BY DEF HoldGrant, IInv, TypeOK, Recorded, Grounded
<1>2. e \in Approver /\ e.stage = "drop" /\ e.dest = app[a].dest
  BY Zenon, <1>1 DEF Approver
<1>3. app' = [app EXCEPT ![a] = e]
  BY Zenon DEF HoldGrant
<1> HIDE DEF e
<1>4. /\ app' \in [Approvers -> Approver] /\ app'[a] = e
      /\ \A r \in Approvers : r # a => app'[r] = app[r]
  BY <1>2, <1>3, ApproverMoves DEF IInv, TypeOK
<1> USE <1>1
<1>5. TypeOK'
  BY Zenon, <1>4 DEF IInv, TypeOK
<1>6. Grounded' /\ Recorded'
  BY Zenon, <1>2, <1>4 DEF IInv, Grounded, Recorded
<1>7. Honoured'
  BY ZenonT(60), <1>2, <1>4 DEF IInv, Honoured
<1>8. OnePrompt'
  BY <1>2, <1>4 DEF IInv, OnePrompt
<1>9. Phases' /\ Reported' /\ Reached'
  BY DEF IInv, Phases, Reported, Reached, InTime
<1> QED
  BY <1>5, <1>6, <1>7, <1>8, <1>9 DEF IInv

\* DropRequest: the prompt goes with its approval.
LEMMA DropRequestStep ==
  ASSUME IInv, NEW a \in Approvers, DropRequest(a) PROVE IInv'
<1> USE DEF registration, engine, broker, bounds
<1>1. /\ pending' = pending \ {app[a].dest}
      /\ UNCHANGED <<registration, engine, live, granted, astray, replay, set, flow, requested, bounds>>
  BY DEF DropRequest
<1>2. /\ app' \in [Approvers -> Approver] /\ app'[a] = NoApp
      /\ \A r \in Approvers : r # a => app'[r] = app[r]
  BY IdleFacts, ApproverMoves DEF DropRequest, IInv, TypeOK
<1> USE <1>1
<1>3. TypeOK'
  BY ZenonT(60), <1>2 DEF IInv, TypeOK
<1>4. Grounded' /\ Recorded' /\ Honoured'
  BY <1>2, IdleFacts DEF IInv, Grounded, Recorded, Honoured
<1>5. OnePrompt'
  BY <1>2 DEF IInv, OnePrompt
<1>6. Phases' /\ Reported' /\ Reached'
  BY DEF IInv, Phases, Reported, Reached, InTime
<1> QED
  BY <1>3, <1>4, <1>5, <1>6 DEF IInv

\* The request that has swapped the rules and has yet to close the flows.
Killing(k, w) == [NoSet EXCEPT !.stage = "kill", !.on = k, !.swap = w]

\* It is a request, field by field.
LEMMA KillMade ==
  ASSUME NEW k \in Nat, NEW w \in Nat
  PROVE  /\ Killing(k, w) \in Setter /\ Killing(k, w).stage = "kill"
         /\ Killing(k, w).on = k /\ Killing(k, w).swap = w
<1>1. NoSet \in Setter
  BY IdleFacts
<1> QED
  BY Zenon, <1>1 DEF Setter, Killing

\* SetRules: the rules are those on record, and the swap is counted.
LEMMA SetRulesStep ==
  ASSUME IInv, NEW s \in Setters, SetRules(s) PROVE IInv'
<1> USE DEF registration, engine, broker, bounds
<1> DEFINE e == Killing(active, stacks[active].swaps + 1)
<1>1. /\ set[s].stage = "swap" /\ set[s].policy \in requested
      /\ set[s].policy \in SUBSET (Dests \cup Names) /\ set \in [Setters -> Setter]
      /\ UNCHANGED <<registration, active, broker, replay, app, flow, requested, bounds>>
  BY EgressAssumption DEF SetRules, IInv, TypeOK, Recorded
<1> USE <1>1
<1>2. CASE active = 0
  <2>1. /\ set' \in [Setters -> Setter] /\ set'[s] = NoSet /\ stacks' = stacks
        /\ \A r \in Setters : r # s => set'[r] = set[r]
    BY Zenon, <1>2, IdleFacts, SetterMoves DEF SetRules
  <2>2. TypeOK'
    BY <2>1 DEF IInv, TypeOK
  <2>3. Grounded' /\ Recorded'
    BY Zenon, <2>1, IdleFacts DEF IInv, Grounded, Recorded
  <2>4. Phases' /\ Reported' /\ Honoured' /\ OnePrompt' /\ Reached'
    BY Zenon, <2>1 DEF IInv, Phases, Reported, Honoured, OnePrompt, Reached, InTime
  <2> QED
    BY <2>2, <2>3, <2>4 DEF IInv
<1>3. CASE active # 0
  <2>1. /\ active \in 1..Len(stacks) /\ active \in Nat /\ stacks[active].swaps \in Nat
        /\ NoSet \in Setter /\ stacks[active].swaps + 1 \in Nat
    BY <1>3, ActiveIsStack, StackFields, IdleFacts DEF IInv, TypeOK
  <2>2. /\ e \in Setter /\ e.stage = "kill" /\ e.on = active
        /\ e.swap = stacks[active].swaps + 1
    BY <2>1, KillMade
  <2>3. set' = [set EXCEPT ![s] = NoSet] \/ set' = [set EXCEPT ![s] = e]
    BY <1>3 DEF SetRules, Killing
  <2> HIDE DEF e
  <2>4. /\ set' \in [Setters -> Setter] /\ set'[s] \in {NoSet, e}
        /\ \A r \in Setters : r # s => set'[r] = set[r]
    BY Zenon, <2>1, <2>2, <2>3, SetterMoves
  <2>5. Becomes(active, set[s].policy, {}, stacks[active].swaps + 1, stacks[active].killed)
    BY Zenon, <1>3, SwapFacts DEF SetRules, IInv
  <2>6. TypeOK'
    BY Zenon, <2>4, <2>5 DEF IInv, TypeOK, Becomes
  <2>7. Grounded'
    <3>1. \A r \in Setters : set'[r].stage = "kill" =>
            set'[r].on \in 1..Len(stacks') /\ set'[r].swap <= stacks'[set'[r].on].swaps
      <4>1. \A k \in 1..Len(stacks) : stacks[k].swaps \in Nat /\ stacks'[k].swaps \in Nat
                                        /\ stacks[k].swaps <= stacks'[k].swaps
        BY SMT, Z3, <2>1, <2>5, StackFields DEF Becomes, IInv, TypeOK
      <4>2. \A r \in Setters : set[r].swap \in Nat
        BY DEF Setter
      <4>3. \A r \in Setters : r # s /\ set[r].stage = "kill" =>
              set[r].swap <= stacks'[set[r].on].swaps
        BY SMT, Z3, <4>1, <4>2 DEF IInv, Grounded
      <4> QED
        BY SMT, Z3, <2>1, <2>2, <2>4, <2>5, <4>3, IdleFacts DEF IInv, Grounded, Becomes
    <3>2. \A k \in 1..Len(stacks') : stacks'[k].killed <= stacks'[k].swaps
      BY SMT, Z3, <2>1, <2>5, StackFields DEF IInv, TypeOK, Grounded, Becomes
    <3> QED
      BY ZenonT(60), <2>5, <3>1, <3>2 DEF IInv, Grounded, Becomes
  <2>8. Recorded'
    BY Zenon, <2>2, <2>4, <2>5, IdleFacts DEF IInv, Recorded, Becomes
  <2>9. Honoured'
    BY SMT, Z3, <2>1, <2>5 DEF Honoured, Becomes
  <2>10. Reached'
    BY ZenonT(60), <2>1, <2>5 DEF IInv, Reached, InTime, Grounded, Becomes
  <2>11. Phases' /\ Reported' /\ OnePrompt'
    BY SMT, Z3 DEF IInv, Phases, Reported, OnePrompt
  <2> QED
    BY ZenonT(60), <2>6, <2>7, <2>8, <2>9, <2>10, <2>11 DEF IInv
<1> QED
  BY <1>2, <1>3

\* CloseAll: every established flow of the stack is in its registry, so none is
\* left that is older than the kill but those it has missed.
LEMMA CloseAllStep ==
  ASSUME IInv, NEW s \in Setters, CloseAll(s) PROVE IInv'
<1> USE DEF registration, engine, broker, bounds
<1> DEFINE k == set[s].on
           w == set[s].swap
<1>1. /\ k \in 1..Len(stacks) /\ w \in Nat /\ w <= stacks[k].swaps
      /\ UNCHANGED <<registration, active, broker, replay, app, requested, bounds>>
  BY DEF CloseAll, IInv, TypeOK, Grounded, Setter
<1>2. /\ set' \in [Setters -> Setter] /\ set'[s] = NoSet
      /\ \A r \in Setters : r # s => set'[r] = set[r]
  BY IdleFacts, SetterMoves DEF CloseAll, IInv, TypeOK
<1>3. Becomes(k, stacks[k].rules, stacks[k].grants, stacks[k].swaps,
              IF stacks[k].killed >= w THEN stacks[k].killed ELSE w)
  BY Zenon, <1>1, KillFacts DEF CloseAll, IInv
<1>4. /\ flow' \in [Flows -> FlowRec]
      /\ \A f \in Flows :
           \/ flow'[f] = NoFlow
           \/ flow'[f] = flow[f] /\ flow[f].on # k
           \/ /\ flow'[f].stage = flow[f].stage /\ flow'[f].on = flow[f].on
              /\ flow'[f].dest = flow[f].dest /\ flow'[f].name = flow[f].name
              /\ flow'[f].since = flow[f].since /\ flow'[f].tracked = flow[f].tracked
              /\ ~flow[f].tracked /\ (OnItsWay(f) => flow'[f].missed)
  <2> DEFINE m(f) == [flow[f] EXCEPT !.missed = @ \/ OnItsWay(f)]
  <2>1. flow' = [f \in Flows |-> IF flow[f].on # k THEN flow[f]
                                 ELSE IF flow[f].tracked THEN NoFlow ELSE m(f)]
    BY Zenon DEF CloseAll
  <2>2. \A f \in Flows : flow[f] \in FlowRec
    BY Zenon DEF IInv, TypeOK
  <2>3. \A f \in Flows :
          /\ m(f) \in FlowRec /\ m(f).stage = flow[f].stage /\ m(f).on = flow[f].on
          /\ m(f).dest = flow[f].dest /\ m(f).name = flow[f].name
          /\ m(f).since = flow[f].since /\ m(f).tracked = flow[f].tracked
          /\ OnItsWay(f) => m(f).missed
    BY Zenon, <2>2 DEF FlowRec
  <2> HIDE DEF k, m
  <2> QED
    BY Zenon, <2>1, <2>2, <2>3, IdleFacts
<1> HIDE DEF k, w
<1> USE <1>1
<1>5. TypeOK'
  BY ZenonT(60), <1>2, <1>3, <1>4 DEF IInv, TypeOK, Becomes
<1>6. Grounded'
  <2>1. \A j \in 1..Len(stacks') : stacks'[j].killed <= stacks'[j].swaps
    BY Zenon, <1>3 DEF IInv, Grounded, Becomes
  <2>2. \A j \in 1..Len(stacks) : stacks'[j].swaps = stacks[j].swaps
    BY Zenon, <1>3 DEF Becomes
  <2> QED
    BY SMT, Z3, <1>2, <1>3, <1>4, <2>1, <2>2, IdleFacts DEF IInv, Grounded, Becomes
<1>7. Recorded'
  BY Zenon, <1>2, <1>3, IdleFacts, ActiveIsStack DEF IInv, Recorded, Becomes
<1>8. Honoured'
  BY Zenon, <1>3, ActiveIsStack DEF IInv, Honoured, Becomes
<1>9. Reached'
  BY SMT, Z3, <1>3, <1>4, IdleFacts DEF IInv, Reached, InTime, Grounded, Becomes, OnItsWay
<1>10. Phases' /\ Reported' /\ OnePrompt'
  BY Zenon DEF IInv, Phases, Reported, OnePrompt
<1> QED
  BY <1>5, <1>6, <1>7, <1>8, <1>9, <1>10 DEF IInv

-----------------------------------------------------------------------------
(* Boots, teardowns and restarts. *)

\* Nobody's request, approval or connection moves, and the stacks stand.
LEMMA StandStill ==
  ASSUME IInv, UNCHANGED <<stacks, set, app, flow, asked>>, crashes' = crashes
  PROVE  Grounded' /\ Reached'
BY DEF IInv, Grounded, Reached, InTime

\* StartBoot: claimed while no stack runs, with a copy of what was reported.
LEMMA StartBootStep ==
  ASSUME IInv, StartBoot PROVE IInv'
<1> USE DEF registration, engine, broker, bounds, StartBoot
<1>1. TypeOK'
  BY Zenon DEF IInv, TypeOK
<1>2. Phases' /\ Reported' /\ Recorded'
  BY DEF IInv, Phases, Reported, Recorded, Known, Booted
<1>3. Grounded' /\ Reached'
  BY ZenonT(60), StandStill
<1>4. Honoured' /\ OnePrompt'
  BY DEF IInv, Honoured, OnePrompt
<1> QED
  BY Zenon, <1>1, <1>2, <1>3, <1>4 DEF IInv

\* StartEgress: a new stack, whose number no approval has yet.
LEMMA StartEgressStep ==
  ASSUME IInv, StartEgress PROVE IInv'
<1> USE DEF registration, engine, broker, bounds
<1>1. /\ boot = "launching" /\ active = 0 /\ launch' = {}
      /\ UNCHANGED <<state, tearing, opts, row, promised, broker, set, app, flow,
                     requested, bounds>>
  BY DEF StartEgress, IInv, Phases
<1>2. CASE boot' = "none" /\ UNCHANGED <<replay, engine>>
  <2>1. TypeOK'
    BY Zenon, <1>1, <1>2 DEF IInv, TypeOK
  <2>2. Phases' /\ Reported' /\ Recorded'
    BY <1>1, <1>2 DEF IInv, Phases, Reported, Recorded
  <2>3. Grounded' /\ Reached'
    BY Zenon, <1>1, <1>2, StandStill
  <2>4. Honoured' /\ OnePrompt'
    BY <1>1, <1>2 DEF IInv, Honoured, OnePrompt
  <2> QED
    BY Zenon, <2>1, <2>2, <2>3, <2>4 DEF IInv
<1>3. CASE /\ boot' = "replaying" /\ replay' = live /\ active' = Len(stacks) + 1
           /\ stacks' = Append(stacks, [rules |-> launch, grants |-> {}, pins |-> {},
                                        swaps |-> 0, killed |-> 0])
  <2>1. launch \in SUBSET (Dests \cup Names) /\ launch \in requested
    BY Zenon, <1>1, EgressAssumption DEF IInv, TypeOK, Recorded
  <2>2. /\ stacks' \in Seq(Stack) /\ Len(stacks') = Len(stacks) + 1 /\ Len(stacks) \in Nat
        /\ \A j \in 1..Len(stacks) : stacks'[j] = stacks[j]
        /\ stacks'[Len(stacks) + 1].rules = launch /\ stacks'[Len(stacks) + 1].grants = {}
        /\ stacks'[Len(stacks) + 1].swaps = 0 /\ stacks'[Len(stacks) + 1].killed = 0
    BY Zenon, <1>3, <2>1, StartFacts DEF IInv
  <2>3. TypeOK'
    BY Zenon, <1>1, <1>3, <2>2 DEF IInv, TypeOK
  <2>4. Grounded'
    BY <1>1, <2>2 DEF IInv, Grounded
  <2>5. Phases' /\ Reported'
    BY <1>1, <1>3, <2>2 DEF IInv, Phases, Reported
  <2>6. Recorded'
    BY ZenonT(60), <1>1, <1>3, <2>1, <2>2 DEF IInv, Recorded
  <2>7. Honoured'
    BY <1>1, <1>3, <2>2 DEF IInv, Honoured, Grounded
  <2>8. OnePrompt'
    BY ZenonT(60), <1>1 DEF IInv, OnePrompt
  <2>9. Reached'
    BY <1>1, <2>2 DEF IInv, Reached, InTime, Grounded
  <2> QED
    BY Zenon, <2>3, <2>4, <2>5, <2>6, <2>7, <2>8, <2>9 DEF IInv
<1> QED
  BY Zenon, <1>2, <1>3 DEF StartEgress

\* ReplayGrants: from what is to be replayed into the stack.
LEMMA ReplayGrantsStep ==
  ASSUME IInv, ReplayGrants PROVE IInv'
<1> USE DEF registration, engine, broker, bounds
<1>1. PICK d \in replay : /\ replay' = replay \ {d}
                          /\ stacks' = [stacks EXCEPT ![active].grants = @ \cup {d}]
  BY Zenon DEF ReplayGrants
<1>2. /\ boot = "replaying" /\ active # 0 /\ d \in Dests /\ d \in granted
      /\ UNCHANGED <<registration, active, broker, set, app, flow, requested, bounds>>
  BY DEF ReplayGrants, IInv, TypeOK, Phases, Recorded
<1>3. /\ active \in 1..Len(stacks)
      /\ Becomes(active, stacks[active].rules, stacks[active].grants \cup {d},
                 stacks[active].swaps, stacks[active].killed)
  BY Zenon, <1>1, <1>2, WidenFacts, ActiveIsStack DEF IInv
<1> USE <1>2
<1>4. TypeOK'
  BY <1>1, <1>3 DEF IInv, TypeOK, Becomes
<1>5. Grounded'
  BY Zenon, <1>3 DEF IInv, Grounded, Becomes
<1>6. Phases' /\ Reported' /\ OnePrompt'
  BY DEF IInv, Phases, Reported, OnePrompt
<1>7. Recorded' /\ Honoured'
  BY SMT, Z3, <1>1, <1>3 DEF IInv, Recorded, Honoured, Becomes
<1>8. Reached'
  BY <1>3 DEF IInv, Reached, InTime, Grounded, Becomes
<1> QED
  BY <1>4, <1>5, <1>6, <1>7, <1>8 DEF IInv

\* The stack is stopped and nobody's request moves: what concerns a running stack
\* holds, and the swaps and kills of the others are as they were.
LEMMA StoppedStep ==
  ASSUME IInv, Stopped, UNCHANGED <<set, app, flow, opts, row, launch, promised, requested,
                                    granted, live, pending, astray>>,
         boot' \in {boot, "none"}, boot' # "replaying", replay' \in {replay, {}}
  PROVE  Grounded' /\ Recorded' /\ Reported' /\ Honoured' /\ OnePrompt' /\ Reached'
<1>1. Grounded'
  BY Zenon DEF IInv, Grounded, Stopped
<1>2. Recorded'
  BY Zenon DEF IInv, Recorded, Stopped
<1>3. Reported' /\ Honoured' /\ OnePrompt'
  BY Zenon DEF IInv, Reported, Honoured, OnePrompt, Stopped
<1>4. Reached'
  BY DEF IInv, Reached, InTime, Grounded, Stopped
<1> QED
  BY Zenon, <1>1, <1>2, <1>3, <1>4

\* SettleBoot: everything is replayed, or the stack is stopped.
LEMMA SettleBootStep ==
  ASSUME IInv, SettleBoot PROVE IInv'
<1> USE DEF registration, engine, broker, bounds
<1>1. /\ boot = "replaying" /\ boot' = "none"
      /\ UNCHANGED <<tearing, opts, row, launch, promised, broker, set, app, flow,
                     requested, bounds>>
  BY DEF SettleBoot
<1>2. CASE replay = {} /\ state' = "running" /\ UNCHANGED <<engine, replay>>
  <2>1. TypeOK'
    BY ZenonT(60), <1>1, <1>2 DEF IInv, TypeOK
  <2>2. Phases' /\ Reported' /\ Recorded' /\ Honoured' /\ OnePrompt'
    BY <1>1, <1>2 DEF IInv, Phases, Reported, Recorded, Honoured, OnePrompt
  <2>3. Grounded' /\ Reached'
    BY Zenon, <1>1, <1>2, StandStill
  <2> QED
    BY Zenon, <2>1, <2>2, <2>3 DEF IInv
<1>3. CASE state' = state /\ Stop /\ replay' = {}
  <2>1. Stopped
    BY Zenon, <1>3, StopFacts DEF IInv
  <2>2. TypeOK'
    BY Zenon, <1>1, <1>3, <2>1 DEF IInv, TypeOK, Stopped
  <2>3. Phases'
    BY Zenon, <1>1, <1>3, <2>1 DEF IInv, Phases, Stopped
  <2> QED
    BY <1>1, <1>3, <2>1, <2>2, <2>3, StoppedStep DEF IInv
<1> QED
  BY <1>2, <1>3 DEF SettleBoot

\* Suspend: the stack first, whatever becomes of the VM.
LEMMA SuspendStep ==
  ASSUME IInv, Suspend PROVE IInv'
<1> USE DEF registration, engine, broker, bounds
<1>1. Stopped /\ boot = "none" /\ replay = {} /\ ~tearing
  BY Zenon, StopFacts DEF Suspend, Known, IInv, TypeOK, Phases
<1>2. TypeOK' /\ Phases'
  BY Zenon, <1>1 DEF Suspend, IInv, TypeOK, Phases, Stopped
<1> QED
  BY Zenon, <1>1, <1>2, StoppedStep DEF Suspend, IInv

\* EndTeardown: whatever else failed, the stack is down.
LEMMA EndTeardownStep ==
  ASSUME IInv, EndTeardown PROVE IInv'
<1> USE DEF registration, engine, broker, bounds
<1>1. Stopped /\ boot = "none" /\ replay = {}
  BY Zenon, StopFacts DEF EndTeardown, IInv, TypeOK, Phases
<1>2. TypeOK' /\ Phases'
  BY Zenon, <1>1 DEF EndTeardown, IInv, TypeOK, Phases, Stopped
<1> QED
  BY Zenon, <1>1, <1>2, StoppedStep DEF EndTeardown, IInv

\* TeardownUnbooted: nothing but the registration goes.
LEMMA TeardownUnbootedStep ==
  ASSUME IInv, TeardownUnbooted PROVE IInv'
<1> USE DEF registration, engine, broker, bounds, TeardownUnbooted
<1>1. TypeOK'
  BY Zenon DEF IInv, TypeOK
<1>2. Phases' /\ Reported' /\ Recorded' /\ Honoured' /\ OnePrompt'
  BY DEF IInv, Phases, Reported, Recorded, Honoured, OnePrompt, Known, Booted
<1>3. Grounded' /\ Reached'
  BY StandStill
<1> QED
  BY Zenon, <1>1, <1>2, <1>3 DEF IInv

\* RevokeGrants: the broker forgets, the stack does not.
LEMMA RevokeGrantsStep ==
  ASSUME IInv, RevokeGrants PROVE IInv'
<1> USE DEF registration, engine, broker, bounds, RevokeGrants
<1>1. TypeOK'
  BY Zenon DEF IInv, TypeOK
<1>2. Phases' /\ Reported' /\ Recorded'
  BY DEF IInv, Phases, Reported, Recorded, Known
<1>3. Grounded' /\ Reached'
  BY ZenonT(60), StandStill
<1>4. Honoured' /\ OnePrompt'
  BY DEF IInv, Honoured, OnePrompt
<1> QED
  BY Zenon, <1>1, <1>2, <1>3, <1>4 DEF IInv

\* Restart: memory is gone, and what was reported is what the row says.
LEMMA RestartStep ==
  ASSUME IInv, Restart PROVE IInv'
<1> USE DEF registration, engine, broker, bounds
<1>1. Stopped
  BY Zenon, StopFacts DEF Restart, IInv
<1>2. /\ set' \in [Setters -> Setter] /\ \A s \in Setters : set'[s] = NoSet
      /\ app' \in [Approvers -> Approver] /\ \A a \in Approvers : app'[a] = NoApp
      /\ flow' \in [Flows -> FlowRec] /\ \A f \in Flows : flow'[f] = NoFlow
  BY Zenon, IdleFacts DEF Restart
<1>3. /\ state' = (IF state = "created" THEN "created" ELSE "gone")
      /\ boot' = "none" /\ tearing' = FALSE /\ opts' = row /\ launch' = {} /\ replay' = {}
      /\ live' = {} /\ pending' = {} /\ astray' = {} /\ crashes' \in 0..MaxCrashes
      /\ UNCHANGED <<row, promised, granted, requested, asked>>
  BY EgressAssumption DEF Restart, IInv, TypeOK
<1>4. TypeOK'
  BY Zenon, <1>1, <1>2, <1>3 DEF IInv, TypeOK, Stopped
<1>5. Grounded'
  BY Zenon, <1>1, <1>2, IdleFacts DEF IInv, Grounded, Stopped
<1>6. Phases' /\ Reported' /\ OnePrompt' /\ Honoured'
  BY <1>1, <1>3 DEF IInv, Phases, Reported, OnePrompt, Honoured, Stopped
<1>7. Recorded'
  BY Zenon, <1>1, <1>2, <1>3, IdleFacts DEF IInv, Recorded, Stopped
<1>8. Reached'
  BY <1>2, IdleFacts DEF Reached, InTime
<1> QED
  BY <1>4, <1>5, <1>6, <1>7, <1>8 DEF IInv

-----------------------------------------------------------------------------
(* The theorems. *)

\* The program starts with nothing booted, asked or granted.
LEMMA InitIInv == Init => IInv
<1> SUFFICES ASSUME Init PROVE IInv
  OBVIOUS
<1>1. /\ set \in [Setters -> Setter] /\ \A s \in Setters : set[s] = NoSet
      /\ app \in [Approvers -> Approver] /\ \A a \in Approvers : app[a] = NoApp
      /\ flow \in [Flows -> FlowRec] /\ \A f \in Flows : flow[f] = NoFlow
  BY IdleFacts DEF Init
<1>2. stacks \in Seq(Stack) /\ Len(stacks) = 0
  BY DEF Init
<1>3. TypeOK
  <2>1. {opts, row, promised} \cup requested \subseteq Policies /\ launch \in Policies \cup {{}}
    BY DEF Init
  <2>2. asked \in 0..MaxSets /\ crashes \in 0..MaxCrashes
    BY SMT, Z3, EgressAssumption DEF Init
  <2> QED
    BY Zenon, <1>1, <1>2, <2>1, <2>2 DEF Init, TypeOK
<1>4. Grounded /\ Reached
  BY SMT, Z3, <1>1, <1>2, IdleFacts DEF Grounded, Reached, InTime
<1>5. Phases /\ Recorded /\ Reported /\ Honoured /\ OnePrompt
  BY Zenon, <1>1, IdleFacts DEF Init, Phases, Recorded, Reported, Honoured, OnePrompt
<1> QED
  BY <1>3, <1>4, <1>5 DEF IInv

\* Every step of the egress control keeps the invariant.
LEMMA NextIInv == IInv /\ [Next]_vars => IInv'
<1> SUFFICES ASSUME IInv, [Next]_vars PROVE IInv'
  BY Zenon
<1>1. CASE UNCHANGED vars
  BY ZenonT(60), <1>1 DEF vars, registration, engine, broker, bounds, IInv, TypeOK,
     Grounded, Phases,
     Recorded, Reported, Honoured, OnePrompt, Reached, InTime
<1>2. CASE StartBoot \/ StartEgress \/ ReplayGrants \/ SettleBoot \/ Suspend
             \/ TeardownUnbooted \/ RevokeGrants \/ EndTeardown \/ Restart
  BY <1>2, StartBootStep, StartEgressStep, ReplayGrantsStep, SettleBootStep, SuspendStep,
     TeardownUnbootedStep, RevokeGrantsStep, EndTeardownStep, RestartStep
<1>3. CASE \E s \in Setters : AskSet(s) \/ StageSet(s) \/ SetRules(s) \/ CloseAll(s)
  BY <1>3, AskSetStep, StageSetStep, SetRulesStep, CloseAllStep
<1>4. CASE \E a \in Approvers : Approve(a) \/ AllowEgress(a) \/ HoldGrant(a) \/ DropRequest(a)
  BY <1>4, ApproveStep, AllowEgressStep, HoldGrantStep, DropRequestStep
<1>5. CASE \E f \in Flows : Connect(f) \/ AskName(f) \/ Resolve(f) \/ SpliceTracked(f)
                              \/ EndFlow(f) \/ RecordDenial(f)
  BY <1>5, ConnectStep, AskNameStep, ResolveStep, SpliceTrackedStep, EndFlowStep,
     RecordDenialStep
<1> QED
  BY <1>1, <1>2, <1>3, <1>4, <1>5 DEF Next

\* The invariant holds in every reachable state.
LEMMA Invariance == Spec => []IInv
BY InitIInv, NextIInv, PTL DEF Spec

\* Grants are accounted for (Grant, ReplayGrants, RecordDenial): on record before
\* they widen anything; if held while the stack they widened still ran, honoured
\* by every later boot until the rules of the stack are replaced; asked for once.
THEOREM GrantsAlwaysAccounted == Spec => []GrantsAccounted
<1>1. IInv => GrantsAccounted
  <2> SUFFICES ASSUME IInv PROVE GrantsAccounted
    BY Zenon
  <2>1. RecordedFirst
    BY Zenon DEF IInv, Recorded, RecordedFirst
  <2>2. GrantsHonoured
    <3>1. state = "running" => replay = {}
      BY DEF IInv, Phases
    <3> QED
      BY <3>1 DEF IInv, Honoured, GrantsHonoured
  <2> QED
    BY <2>1, <2>2 DEF IInv, GrantsAccounted
<1> QED
  BY <1>1, Invariance, PTL

\* After a policy change that kills, however many run at once, a flow that older
\* rules allowed is left only if it was between its authorisation and the registry
\* when the kill ran; no stack outlives its VM (Runner.SetPolicy, CloseAll,
\* Suspend).
THEOREM NothingEverOutlives == Spec => []NothingOutlives
<1>1. IInv => NothingOutlives
  BY DEF IInv, Reached, InTime, KillReachesAll, Phases, NothingOutlives, NoStrayStack, Booted
<1> QED
  BY <1>1, Invariance, PTL

\* A stack starts with the policy last reported as pending
\* (StagePendingEgressPolicy, pendingRegLocked, EnsureRunning).
THEOREM StagedIsAlwaysEnforced == Spec => StagedIsEnforced
<1> DEFINE Starts == Len(stacks') > Len(stacks) => stacks'[Len(stacks')].rules = promised
<1>1. ASSUME IInv, [Next]_vars PROVE Starts
  <2>0. Len(stacks) \in Nat /\ stacks \in Seq(Stack)
    BY <1>1 DEF IInv, TypeOK
  <2>1. CASE StartEgress
    <3>1. CASE UNCHANGED engine
      BY <2>0, <3>1 DEF engine
    <3>2. CASE stacks' = Append(stacks, [rules |-> launch, grants |-> {}, pins |-> {},
                                         swaps |-> 0, killed |-> 0])
      <4>1. launch = promised /\ launch \in SUBSET (Dests \cup Names)
        BY Zenon, <1>1, <2>1, EgressAssumption DEF StartEgress, IInv, Reported, TypeOK
      <4> QED
        BY Zenon, <1>1, <3>2, <4>1, StartFacts DEF IInv
    <3> QED
      BY <2>1, <3>1, <3>2 DEF StartEgress
  <2>2. ASSUME ~StartEgress PROVE Len(stacks') = Len(stacks)
    <3>1. CASE UNCHANGED stacks
      BY Zenon, <3>1
    <3>2. CASE SettleBoot \/ Suspend \/ EndTeardown \/ Restart
      BY <1>1, <3>1, <3>2, StopFacts DEF IInv, Stopped, SettleBoot, Suspend, EndTeardown, Restart,
         engine
    <3>3. CASE ReplayGrants
      BY <2>0, <3>3 DEF ReplayGrants
    <3>4. CASE \E a \in Approvers : AllowEgress(a)
      BY <2>0, <3>4 DEF AllowEgress
    <3>5. CASE \E s \in Setters : SetRules(s) \/ CloseAll(s)
      BY <2>0, <3>5 DEF SetRules, CloseAll
    <3>6. CASE \E f \in Flows : Resolve(f)
      BY <2>0, <3>6 DEF Resolve
    <3> QED
      BY Zenon, <1>1, <2>2, <3>1, <3>2, <3>3, <3>4, <3>5, <3>6 DEF Next, vars, engine,
         StartBoot, TeardownUnbooted,
         RevokeGrants, AskSet, StageSet, Approve, HoldGrant, DropRequest, Connect, AskName,
         SpliceTracked, EndFlow, RecordDenial
  <2> QED
    BY <2>0, <2>1, <2>2
<1> QED
  BY <1>1, Invariance, PTL DEF Spec, StagedIsEnforced
=============================================================================
