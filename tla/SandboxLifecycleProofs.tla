----------------------- MODULE SandboxLifecycleProofs -----------------------
(***************************************************************************)
(* The inductive invariant of SandboxService, and the proofs that          *)
(* commands, the steps of a boot, registrations, dying guests and          *)
(* teardowns keep it, for any sets of tasks, worktrees, sandbox IDs and    *)
(* handlers, any set of faults and any bounds.                             *)
(***************************************************************************)
EXTENDS SandboxService, TLAPS

-----------------------------------------------------------------------------
(* The inductive invariant, conjunct by conjunct *)

(* A sandbox has a binding and a trail from its registration on. *)
Bindings ==
  \A i \in Ids : /\ (task[i] = None) = (trail[i] = <<>>)
                 /\ task[i] # None => worktree[i] # None
                 /\ rows[i] # "none" => task[i] # None

(* A daemon that is not up holds nothing in memory and no VM. *)
Down ==
  ~up => /\ \A t \in Tasks : byTask[t] = None
         /\ booted = {} /\ dead = {} /\ wired = {}
         /\ \A i \in Ids : boot[i] = None /\ vm[i] = "absent"
         /\ \A h \in Handlers : pc[h] = "idle"

(* reg.boot and the handler that runs the boot name each other. *)
BootOwner == \A i \in Ids : boot[i] # None => pc[boot[i]] \in BootStages /\ on[boot[i]] = i

(* A handler at work has a sandbox that was registered. *)
Working == \A h \in Handlers : pc[h] # "idle" => on[h] \in Ids /\ task[on[h]] # None

(* A joiner's sandbox has a boot in flight. *)
Joining == \A h \in Handlers : pc[h] = "join" => boot[on[h]] # None

(* Past its launch, a boot's VM runs. *)
BootingVM == \A h \in Handlers : pc[h] \in {"wire", "settle"} => vm[on[h]] = "running"

IInv ==
  /\ TypeOK
  /\ Bindings
  /\ RosterIsDurable
  /\ Exclusive
  /\ Down
  /\ BootKeepsEntry
  /\ BootOwner
  /\ Working
  /\ Joining
  /\ BootingVM
  /\ BootedIsRecorded
  /\ NoStrandedVM
  /\ NoDanglingControls
  /\ GoneEndsTerminal

-----------------------------------------------------------------------------
(* Facts about trails and about functions updated at one point *)

(* Appending an event keeps a trail a trail, and a terminal one closes it.  *)
LEMMA AppendFacts ==
  ASSUME NEW s \in Seq(Events), NEW e \in Events
  PROVE  /\ Append(s, e) \in Seq(Events)
         /\ Append(s, e) # <<>>
         /\ e \in Terminal => Ended(Append(s, e))
<1>1. /\ Append(s, e) \in Seq(Events) /\ Append(s, e) # <<>>
      /\ Len(Append(s, e)) = Len(s) + 1 /\ Append(s, e)[Len(s) + 1] = e
  OBVIOUS
<1> QED BY <1>1 DEF Ended

(* Events added to a trail leave a trail, and empty none.                   *)
LEMMA ConcatFacts ==
  ASSUME NEW s \in Seq(Events), NEW r \in Seq(Events)
  PROVE  s \o r \in Seq(Events) /\ (s # <<>> => s \o r # <<>>)
OBVIOUS

(* The trails a registration can leave.                                     *)
LEMMA FirstTrails ==
  /\ <<"created">> \in Seq(Events) /\ <<"created">> # <<>>
  /\ <<"created", "destroyed">> \in Seq(Events) /\ <<"created", "destroyed">> # <<>>
  /\ Ended(<<"created", "destroyed">>)
  /\ \A e \in Events : <<e>> \in Seq(Events)
  /\ Terminal \subseteq Events
  /\ "destroyed" \in Terminal /\ "ttl_expired" \in Terminal /\ "killed" \in Terminal
BY DEF Ended, Terminal, Events, EventState

(* The trails of a set of sandboxes grow by one event.                      *)
LEMMA Append1Facts ==
  ASSUME TypeOK, NEW S, NEW e \in Events, trail' = Append1(S, e)
  PROVE  /\ trail' \in [Ids -> Seq(Events)]
         /\ \A j \in Ids : /\ j \notin S => trail'[j] = trail[j]
                           /\ j \in S => trail'[j] # <<>> /\ (e \in Terminal => Ended(trail'[j]))
<1>1. \A j \in Ids : trail[j] \in Seq(Events)
  BY DEF TypeOK
<1>2. \A j \in Ids : /\ Append(trail[j], e) \in Seq(Events) /\ Append(trail[j], e) # <<>>
                     /\ e \in Terminal => Ended(Append(trail[j], e))
  BY <1>1, AppendFacts
<1> QED BY <1>1, <1>2 DEF Append1

(* The trail of one sandbox grows by one event.                             *)
LEMMA AppendOne ==
  ASSUME TypeOK, NEW i \in Ids, NEW e \in Events
  PROVE  /\ Append1({i}, e) \in [Ids -> Seq(Events)]
         /\ Append1({i}, e)[i] # <<>>
         /\ \A j \in Ids : j # i => Append1({i}, e)[j] = trail[j]
<1>1. \A j \in Ids : trail[j] \in Seq(Events)
  BY DEF TypeOK
<1>2. \A j \in Ids : Append(trail[j], e) \in Seq(Events) /\ Append(trail[j], e) # <<>>
  BY <1>1, AppendFacts
<1> QED BY <1>1, <1>2 DEF Append1

(* The rows of a set of sandboxes are set to one state.                     *)
LEMMA RowsSetFacts ==
  ASSUME TypeOK, NEW S, NEW s \in States \cup {"none"}
  PROVE  /\ RowsSet(S, s) \in [Ids -> States \cup {"none"}]
         /\ \A j \in Ids : RowsSet(S, s)[j] = IF j \in S THEN s ELSE rows[j]
BY DEF RowsSet, TypeOK

-----------------------------------------------------------------------------
(* Every step keeps the invariant, one lemma per kind of step *)

(* A step that only moves one handler, which does not own a boot before or  *)
(* after it (GiveUp, ExecReturns, Await, joining a boot).                   *)
LEMMA HandlerMoves ==
  ASSUME IInv, NEW h \in Handlers, NEW s \in Stages \ BootStages, NEW i \in Ids \cup {None},
         up, pc[h] \notin BootStages,
         s # "idle" => i \in Ids /\ task[i] # None,
         s = "join" => boot[i] # None,
         Goto(h, s, i),
         issued' \in Nat, crashes' \in Nat,
         UNCHANGED <<up, registry, durable, backend>>
  PROVE  IInv'
<1> USE DEF IInv, registry, durable, backend
<1>1. /\ pc' = [pc EXCEPT ![h] = s] /\ on' = [on EXCEPT ![h] = i]
      /\ pc \in [Handlers -> Stages] /\ on \in [Handlers -> Ids \cup {None}]
  BY DEF Goto, TypeOK
<1>2. /\ pc'[h] = s /\ on'[h] = i
      /\ \A g \in Handlers : g # h => pc'[g] = pc[g] /\ on'[g] = on[g]
  BY <1>1
<1>3. TypeOK'
  BY <1>1 DEF TypeOK
<1>4. Bindings' /\ RosterIsDurable' /\ Exclusive' /\ Down' /\ BootedIsRecorded'
      /\ NoDanglingControls' /\ GoneEndsTerminal'
  BY DEF Bindings, RosterIsDurable, Exclusive, Down, BootedIsRecorded, NoDanglingControls,
         GoneEndsTerminal, Gone, Registered
<1>5. \A j \in Ids : boot[j] # None => boot[j] \in Handlers /\ boot[j] # h
  BY DEF TypeOK, BootOwner
<1>6. BootKeepsEntry'
  BY <1>2 DEF BootKeepsEntry, Registered
<1>7. BootOwner'
  BY <1>2, <1>5 DEF BootOwner
<1>8. Working' /\ Joining' /\ BootingVM'
  BY <1>2 DEF Working, Joining, BootingVM, BootStages
<1>9. NoStrandedVM'
  BY <1>2, <1>5 DEF NoStrandedVM, Registered
<1> QED BY <1>3, <1>4, <1>6, <1>7, <1>8, <1>9

(* EnsureRunning sends a command on, lets it join a boot, or starts one.    *)
LEMMA ExecStep ==
  ASSUME IInv, NEW h \in Handlers, NEW t \in Tasks, Exec(h, t)
  PROVE  IInv'
<1> DEFINE i == byTask[t]
<1>1. /\ up /\ pc[h] = "idle" /\ i \in Ids /\ i \in Registered /\ task[i] # None
      /\ issued' \in Nat /\ crashes' \in Nat
  BY NoneAssumption DEF IInv, Exec, Issue, TypeOK, Registered, RosterIsDurable
<1>2. CASE i \in booted /\ Goto(h, "exec", i) /\ UNCHANGED boot
  BY <1>1, <1>2, HandlerMoves DEF Exec, Issue, registry, Stages, BootStages
<1>3. CASE i \notin booted /\ boot[i] # None /\ Goto(h, "join", i) /\ UNCHANGED boot
  BY <1>1, <1>3, HandlerMoves DEF Exec, Issue, registry, Stages, BootStages
<1>4. CASE i \notin booted /\ boot[i] = None /\ Goto(h, "launch", i)
           /\ boot' = [boot EXCEPT ![i] = h]
  <2> USE DEF IInv
  <2>1. UNCHANGED <<up, byTask, task, worktree, state, booted, dead, rows, trail,
                    vm, dirs, wired, lost>>
    BY DEF Exec, Issue, durable, backend
  <2>2. /\ pc'[h] = "launch" /\ on'[h] = i
        /\ \A g \in Handlers : g # h => pc'[g] = pc[g] /\ on'[g] = on[g]
        /\ boot'[i] = h /\ \A j \in Ids : j # i => boot'[j] = boot[j]
    BY <1>1, <1>4 DEF Goto, TypeOK
  <2>3. TypeOK'
    BY <1>1, <1>4, <2>1 DEF TypeOK, Goto, Stages
  <2>4. Bindings' /\ RosterIsDurable' /\ Exclusive' /\ BootedIsRecorded'
        /\ NoDanglingControls' /\ GoneEndsTerminal'
    BY <2>1 DEF Bindings, RosterIsDurable, Exclusive, BootedIsRecorded, NoDanglingControls,
           GoneEndsTerminal, Gone, Registered
  <2>5. \A j \in Ids : boot[j] # None => boot[j] \in Handlers /\ boot[j] # h
    <3>1. pc[h] \notin BootStages
      BY <1>1 DEF BootStages
    <3> QED BY <3>1 DEF TypeOK, BootOwner
  <2>6. \A g \in Handlers : (pc[g] \in BootStages => on[g] # i)
    BY <1>4, NoneAssumption DEF BootKeepsEntry
  <2>7. Down' /\ Working' /\ Joining' /\ BootingVM'
    BY <1>1, <2>1, <2>2, NoneAssumption DEF Down, Working, Joining, BootingVM
  <2>8. BootKeepsEntry'
    BY <1>1, <1>4, <2>1, <2>2, <2>6 DEF BootKeepsEntry, Registered
  <2>9. BootOwner'
    BY <2>2, <2>5 DEF BootOwner, BootStages
  <2>10. NoStrandedVM'
    BY <1>4, <2>1, <2>2, <2>5 DEF NoStrandedVM, Registered
  <2> QED BY Zenon, <2>3, <2>4, <2>7, <2>8, <2>9, <2>10
<1> QED BY <1>2, <1>3, <1>4 DEF Exec

(* What the invariant says of a handler that owns a boot.                   *)
LEMMA OwnerFacts ==
  ASSUME IInv, NEW h \in Handlers, pc[h] \in BootStages
  PROVE  /\ up
         /\ on[h] \in Ids /\ on[h] \in Registered /\ on[h] \notin booted
         /\ boot[on[h]] = h /\ task[on[h]] # None /\ rows[on[h]] # "none"
         /\ \A g \in Handlers : g # h /\ pc[g] \in BootStages => on[g] # on[h]
<1> USE DEF IInv
<1>1. up
  BY DEF Down, BootStages, TypeOK
<1>2. on[h] \in Ids /\ on[h] \in Registered /\ on[h] \notin booted /\ boot[on[h]] = h
  BY DEF BootKeepsEntry, Registered
<1>3. rows[on[h]] # "none"
  BY <1>1, <1>2, NoneAssumption DEF Registered, RosterIsDurable
<1>4. task[on[h]] # None
  BY <1>2, <1>3 DEF Bindings
<1>5. \A g \in Handlers : g # h /\ pc[g] \in BootStages => on[g] # on[h]
  BY <1>2 DEF BootKeepsEntry
<1> QED BY <1>1, <1>2, <1>3, <1>4, <1>5

(* A step of a boot that is not its last (Launch, WireControls): the VM and *)
(* the controls change for the sandbox being booted only.                   *)
LEMMA BootMoves ==
  ASSUME IInv, NEW h \in Handlers, NEW s \in BootStages, pc[h] \in BootStages,
         Goto(h, s, on[h]),
         vm' \in [Ids -> {"absent", "running", "stopped"}],
         \A j \in Ids : j # on[h] => vm'[j] = vm[j],
         (vm'[on[h]] = "running") = (s \in {"wire", "settle"}),
         dirs' \subseteq Ids, lost' \subseteq Ids, wired' \subseteq Ids,
         wired' \subseteq wired \cup {on[h]},
         on[h] \in wired' => vm'[on[h]] = "running",
         UNCHANGED <<up, registry, durable, bounds>>
  PROVE  IInv'
<1> USE DEF IInv, registry, durable, bounds
<1>0. /\ up
      /\ on[h] \in Ids /\ on[h] \in Registered /\ on[h] \notin booted
      /\ boot[on[h]] = h /\ task[on[h]] # None
      /\ \A g \in Handlers : g # h /\ pc[g] \in BootStages => on[g] # on[h]
  BY OwnerFacts
<1>1. /\ pc' = [pc EXCEPT ![h] = s] /\ on' = on
      /\ pc \in [Handlers -> Stages] /\ on \in [Handlers -> Ids \cup {None}]
  BY DEF Goto, TypeOK
<1>2. pc'[h] = s /\ \A g \in Handlers : g # h => pc'[g] = pc[g]
  BY <1>1
<1>3. s # "join" /\ s # "idle" /\ pc[h] # "idle" /\ pc[h] # "join" /\ s \in Stages
  BY DEF BootStages, Stages
<1>4. TypeOK'
  BY <1>1, <1>3 DEF TypeOK
<1>5. Bindings' /\ RosterIsDurable' /\ Exclusive' /\ BootedIsRecorded' /\ GoneEndsTerminal'
  BY ZenonT(60) DEF Bindings, RosterIsDurable, Exclusive, BootedIsRecorded,
     GoneEndsTerminal, Gone, Registered
<1>6. Down' /\ Working' /\ Joining'
  BY Zenon, <1>0, <1>1, <1>2, <1>3 DEF Down, Working, Joining
<1>7. BootKeepsEntry' /\ BootOwner'
  BY <1>0, <1>1, <1>2 DEF BootKeepsEntry, BootOwner, Registered
<1>8. BootingVM'
  <2> SUFFICES ASSUME NEW g \in Handlers, pc'[g] \in {"wire", "settle"}
               PROVE  vm'[on'[g]] = "running"
    BY DEF BootingVM
  <2>1. CASE g = h
    BY <2>1, <1>1, <1>2
  <2>2. CASE g # h
    <3>1. pc[g] \in {"wire", "settle"} /\ pc[g] \in BootStages
      BY Zenon, <2>2, <1>2 DEF BootStages
    <3>2. on[g] # on[h] /\ on[g] \in Ids /\ vm[on[g]] = "running"
      BY Zenon, <2>2, <3>1, <1>0, OwnerFacts DEF BootingVM
    <3> QED BY <3>2, <1>1
  <2> QED BY <2>1, <2>2
<1>9. NoStrandedVM'
  <2> SUFFICES ASSUME NEW j \in Ids, vm'[j] = "running"
               PROVE  j \in Registered' /\ (j \in booted' \/ (boot'[j] # None /\ pc'[boot'[j]] \in {"wire", "settle"}))
    BY Zenon DEF NoStrandedVM
  <2>1. CASE j = on[h]
    BY <2>1, <1>0, <1>2, NoneAssumption DEF Registered
  <2>2. CASE j # on[h]
    <3>1. /\ j \in Registered
          /\ j \in booted \/ (boot[j] # None /\ pc[boot[j]] \in {"wire", "settle"})
      BY <2>2 DEF NoStrandedVM
    <3>2. boot[j] # None => boot[j] \in Handlers /\ boot[j] # h
      BY <2>2 DEF BootOwner, TypeOK
    <3> QED BY Zenon, <3>1, <3>2, <1>2 DEF Registered
  <2> QED BY Zenon, <2>1, <2>2
<1>10. NoDanglingControls'
  BY DEF NoDanglingControls
<1> QED BY Zenon, <1>4, <1>5, <1>6, <1>7, <1>8, <1>9, <1>10

(* manager.Launch, successful or not.                                       *)
LEMMA LaunchStep ==
  ASSUME IInv, NEW h \in Handlers, Launch(h)
  PROVE  IInv'
<1> DEFINE i == on[h]
<1>1. pc[h] = "launch" /\ pc[h] \in BootStages /\ h \in Handlers
  BY DEF Launch, BootStages
<1>2. i \in Ids /\ i \notin booted /\ boot[i] = h
  BY <1>1, OwnerFacts
<1>3. vm[i] # "running" /\ i \notin wired
  BY <1>1, <1>2 DEF IInv, NoStrandedVM, NoDanglingControls
<1>4. /\ UNCHANGED <<up, registry, durable, bounds, wired>>
      /\ vm \in [Ids -> {"absent", "running", "stopped"}]
      /\ dirs \subseteq Ids /\ lost \subseteq Ids /\ wired \subseteq Ids
  BY DEF Launch, NoIssue, IInv, TypeOK, bounds
<1>5. CASE /\ vm' = [vm EXCEPT ![i] = "running"] /\ dirs' = dirs \cup {i}
           /\ lost' = lost \ {i} /\ Goto(h, "wire", i)
  BY <1>1, <1>2, <1>3, <1>4, <1>5, BootMoves DEF BootStages
<1>6. CASE Goto(h, "failed", i) /\ UNCHANGED <<vm, dirs, lost>>
  BY <1>1, <1>2, <1>3, <1>4, <1>6, BootMoves DEF BootStages
<1>7. CASE /\ vm' = vm \/ vm' = [vm EXCEPT ![i] = "stopped"]
           /\ dirs' = dirs \cup {i} /\ Goto(h, "failed", i) /\ UNCHANGED lost
  <2>1. /\ vm' \in [Ids -> {"absent", "running", "stopped"}] /\ vm'[i] # "running"
        /\ \A j \in Ids : j # i => vm'[j] = vm[j]
    BY <1>2, <1>3, <1>4, <1>7
  <2> QED BY <1>1, <1>2, <1>3, <1>4, <1>7, <2>1, BootMoves DEF BootStages
<1> QED BY <1>5, <1>6, <1>7 DEF Launch

(* The controls come up, or the launch is undone.                           *)
LEMMA WireStep ==
  ASSUME IInv, NEW h \in Handlers, WireControls(h)
  PROVE  IInv'
<1> DEFINE i == on[h]
<1>1. pc[h] = "wire" /\ pc[h] \in BootStages
  BY DEF WireControls, BootStages
<1>2. i \in Ids /\ vm[i] = "running"
  BY <1>1, OwnerFacts DEF IInv, BootingVM
<1>3. /\ UNCHANGED <<up, registry, durable, bounds>>
      /\ vm \in [Ids -> {"absent", "running", "stopped"}]
      /\ dirs \subseteq Ids /\ lost \subseteq Ids /\ wired \subseteq Ids
  BY DEF WireControls, NoIssue, IInv, TypeOK, bounds
<1>4. CASE wired' = wired \cup {i} /\ Goto(h, "settle", i) /\ UNCHANGED <<vm, dirs, lost>>
  BY Zenon, <1>1, <1>2, <1>3, <1>4, BootMoves DEF BootStages
<1>5. CASE StopAndRemove(i) /\ Goto(h, "failed", i)
  <2>1. /\ vm' \in [Ids -> {"absent", "running", "stopped"}] /\ vm'[i] # "running"
        /\ \A j \in Ids : j # i => vm'[j] = vm[j]
        /\ dirs' \subseteq Ids /\ lost' = lost /\ wired' = wired \ {i}
    BY Zenon, <1>2, <1>3, <1>5 DEF StopAndRemove
  <2> QED BY <1>1, <1>2, <1>3, <1>5, <2>1, BootMoves DEF BootStages
<1> QED BY <1>4, <1>5 DEF WireControls

(* Closing an attempt releases its owner and its joiners and nobody else.   *)
LEMMA ReleaseFacts ==
  ASSUME IInv, NEW h \in Handlers, pc[h] \in BootStages,
         NEW stage \in {"idle", "exec"}, Release(on[h], stage)
  PROVE  /\ pc' \in [Handlers -> Stages] /\ on' \in [Handlers -> Ids \cup {None}]
         /\ boot' \in [Ids -> Handlers \cup {None}]
         /\ \A g \in Handlers :
              /\ pc'[g] \in BootStages => pc'[g] = pc[g] /\ on'[g] = on[g] /\ on[g] # on[h]
              /\ pc'[g] = "join" => pc[g] = "join" /\ on'[g] = on[g] /\ on[g] # on[h]
              /\ pc'[g] # "idle" => pc[g] # "idle" /\ on'[g] = on[g]
         /\ boot'[on[h]] = None
         /\ \A j \in Ids : j # on[h] =>
              /\ boot'[j] = boot[j]
              /\ boot[j] # None => /\ boot[j] \in Handlers
                                   /\ pc'[boot[j]] = pc[boot[j]] /\ on'[boot[j]] = on[boot[j]]
<1> DEFINE Party == {g \in Handlers : on[g] = on[h] /\ pc[g] \in BootStages \cup {"join"}}
<1>1. /\ pc' = [g \in Handlers |-> IF g \in Party THEN stage ELSE pc[g]]
      /\ on' = [g \in Handlers |-> IF g \in Party /\ stage = "idle" THEN None ELSE on[g]]
      /\ boot' = [boot EXCEPT ![on[h]] = None]
  BY DEF Release
<1>2. /\ on[h] \in Ids /\ stage \in Stages /\ stage \notin BootStages /\ stage # "join"
      /\ "idle" \notin BootStages
  BY OwnerFacts DEF Stages, BootStages
<1>3. /\ pc \in [Handlers -> Stages] /\ on \in [Handlers -> Ids \cup {None}]
      /\ boot \in [Ids -> Handlers \cup {None}]
  BY DEF IInv, TypeOK
<1>4. /\ pc' \in [Handlers -> Stages] /\ on' \in [Handlers -> Ids \cup {None}]
      /\ boot' \in [Ids -> Handlers \cup {None}]
  BY <1>1, <1>2, <1>3
<1>5. ASSUME NEW g \in Handlers
      PROVE  /\ pc'[g] \in BootStages => pc'[g] = pc[g] /\ on'[g] = on[g] /\ on[g] # on[h]
             /\ pc'[g] = "join" => pc[g] = "join" /\ on'[g] = on[g] /\ on[g] # on[h]
             /\ pc'[g] # "idle" => pc[g] # "idle" /\ on'[g] = on[g]
  BY <1>1, <1>2, <1>3
<1>6. ASSUME NEW j \in Ids, j # on[h]
      PROVE  /\ boot'[j] = boot[j]
             /\ boot[j] # None => /\ boot[j] \in Handlers
                                  /\ pc'[boot[j]] = pc[boot[j]] /\ on'[boot[j]] = on[boot[j]]
  <2>1. boot[j] # None => boot[j] \in Handlers /\ on[boot[j]] = j
    BY Zenon, <1>3 DEF IInv, BootOwner
  <2> QED BY <1>1, <1>3, <1>6, <2>1
<1> QED BY Zenon, <1>1, <1>2, <1>3, <1>4, <1>5, <1>6

(* What a boot that ended leaves alone: the other handlers and their boots. *)
LEMMA ReleaseKeeps ==
  ASSUME IInv, NEW i \in Ids, i \in Registered,
         UNCHANGED <<byTask, task>>,
         \A g \in Handlers :
           /\ pc'[g] \in BootStages => pc'[g] = pc[g] /\ on'[g] = on[g] /\ on[g] # i
           /\ pc'[g] = "join" => pc[g] = "join" /\ on'[g] = on[g] /\ on[g] # i
           /\ pc'[g] # "idle" => pc[g] # "idle" /\ on'[g] = on[g],
         boot'[i] = None,
         \A j \in Ids : j # i =>
           /\ boot'[j] = boot[j]
           /\ boot[j] # None => /\ boot[j] \in Handlers
                                /\ pc'[boot[j]] = pc[boot[j]] /\ on'[boot[j]] = on[boot[j]],
         \A j \in Ids : j # i => vm'[j] = vm[j],
         booted \subseteq booted', booted' \subseteq booted \cup {i},
         vm'[i] = "running" => i \in booted'
  PROVE  Working' /\ Joining' /\ BootOwner' /\ BootingVM' /\ BootKeepsEntry' /\ NoStrandedVM'
<1>1. Registered' = Registered
  BY DEF Registered
<1>2. Working /\ Joining /\ BootOwner /\ BootingVM /\ BootKeepsEntry /\ NoStrandedVM
  BY DEF IInv
<1>3. Working'
  BY Zenon, <1>2 DEF Working
<1>4. Joining'
  BY <1>2 DEF Joining, Working
<1>5. BootOwner'
  BY <1>2 DEF BootOwner
<1>6. BootingVM'
  <2> SUFFICES ASSUME NEW g \in Handlers, pc'[g] \in {"wire", "settle"}
               PROVE  vm'[on'[g]] = "running"
    BY DEF BootingVM
  <2>1. pc'[g] = pc[g] /\ on'[g] = on[g] /\ on[g] # i
    BY DEF BootStages
  <2>2. on[g] \in Ids /\ vm[on[g]] = "running"
    BY Zenon, <1>2, <2>1 DEF BootingVM, Working
  <2> QED BY <2>1, <2>2
<1>7. BootKeepsEntry'
  <2> SUFFICES ASSUME NEW g \in Handlers, pc'[g] \in BootStages
               PROVE  on'[g] \in Registered' \ booted' /\ boot'[on'[g]] = g
    BY DEF BootKeepsEntry
  <2>1. pc[g] \in BootStages /\ on'[g] = on[g] /\ on[g] # i
    OBVIOUS
  <2>2. on[g] \in Registered /\ on[g] \notin booted /\ boot[on[g]] = g
    BY <1>2, <2>1 DEF BootKeepsEntry
  <2>3. on[g] \in Ids
    BY <2>2 DEF Registered
  <2> QED BY ZenonT(60), <1>1, <2>1, <2>2, <2>3
<1>8. NoStrandedVM'
  <2> SUFFICES ASSUME NEW j \in Ids, vm'[j] = "running"
               PROVE  /\ j \in Registered'
                      /\ j \in booted' \/ (boot'[j] # None /\ pc'[boot'[j]] \in {"wire", "settle"})
    BY Zenon DEF NoStrandedVM
  <2>1. CASE j = i
    BY <1>1, <2>1
  <2>2. CASE j # i
    <3>1. vm[j] = "running" /\ boot'[j] = boot[j]
      BY <2>2
    <3> QED BY ZenonT(60), <1>1, <1>2, <2>2, <3>1 DEF NoStrandedVM
  <2> QED BY <2>1, <2>2
<1> QED BY ZenonT(60), <1>3, <1>4, <1>5, <1>6, <1>7, <1>8

(* A failed boot releases its waiters and leaves the registration.          *)
LEMMA SettleFailedStep ==
  ASSUME IInv, NEW h \in Handlers, SettleFailed(h)
  PROVE  IInv'
<1> USE DEF IInv
<1> DEFINE i == on[h]
<1>1. pc[h] = "failed" /\ pc[h] \in BootStages /\ Release(i, "idle")
  BY Zenon DEF SettleFailed, BootStages
<1>2. i \in Ids /\ i \notin booted /\ boot[i] = h
  BY <1>1, OwnerFacts
<1>3. UNCHANGED <<up, byTask, task, worktree, state, booted, dead, rows, trail,
                  vm, dirs, wired, lost, issued, crashes>>
  BY DEF SettleFailed, NoIssue, durable, backend, bounds
<1>4. vm[i] # "running"
  BY Zenon, <1>1, <1>2 DEF NoStrandedVM
<1>5. /\ pc' \in [Handlers -> Stages] /\ on' \in [Handlers -> Ids \cup {None}]
      /\ boot' \in [Ids -> Handlers \cup {None}]
      /\ \A g \in Handlers :
           /\ pc'[g] \in BootStages => pc'[g] = pc[g] /\ on'[g] = on[g] /\ on[g] # i
           /\ pc'[g] = "join" => pc[g] = "join" /\ on'[g] = on[g] /\ on[g] # i
           /\ pc'[g] # "idle" => pc[g] # "idle" /\ on'[g] = on[g]
      /\ boot'[i] = None
      /\ \A j \in Ids : j # i =>
           /\ boot'[j] = boot[j]
           /\ boot[j] # None => /\ boot[j] \in Handlers
                                /\ pc'[boot[j]] = pc[boot[j]] /\ on'[boot[j]] = on[boot[j]]
  BY Zenon, <1>1, ReleaseFacts
<1>6. TypeOK'
  BY Zenon, <1>3, <1>5 DEF TypeOK
<1>7. Bindings' /\ RosterIsDurable' /\ Exclusive' /\ BootedIsRecorded' /\ GoneEndsTerminal'
      /\ NoDanglingControls'
  BY ZenonT(60), <1>3 DEF Bindings, RosterIsDurable, Exclusive, BootedIsRecorded,
     GoneEndsTerminal, Gone,
          Registered, NoDanglingControls
<1>8. Down'
  BY Zenon, <1>1, <1>3, OwnerFacts DEF Down
<1>9. Working' /\ Joining' /\ BootOwner' /\ BootingVM' /\ BootKeepsEntry' /\ NoStrandedVM'
  <2>1. i \in Registered
    BY <1>1, OwnerFacts
  <2> HIDE DEF i
  <2> QED BY Zenon, <1>2, <1>3, <1>4, <1>5, <2>1, ReleaseKeeps
<1> QED BY Zenon, <1>6, <1>7, <1>8, <1>9

(* A boot is recorded, or rolled back, and releases its waiters.            *)
LEMMA SettleBootedStep ==
  ASSUME IInv, NEW h \in Handlers, SettleBooted(h)
  PROVE  IInv'
<1> USE DEF IInv
<1> DEFINE i == on[h]
<1>1. pc[h] = "settle" /\ pc[h] \in BootStages
  BY Zenon DEF SettleBooted, BootStages
<1>2. /\ up /\ i \in Ids /\ i \in Registered /\ i \notin booted /\ boot[i] = h
      /\ rows[i] # "none" /\ task[i] # None /\ vm[i] = "running"
  BY Zenon, <1>1, OwnerFacts DEF BootingVM
<1>3. /\ UNCHANGED <<up, byTask, task, worktree, dead, issued, crashes>>
      /\ vm \in [Ids -> {"absent", "running", "stopped"}]
      /\ trail \in [Ids -> Seq(Events)]
  BY Zenon DEF SettleBooted, NoIssue, bounds, TypeOK
<1>4. PICK stage \in {"idle", "exec"} :
        /\ Release(i, stage)
        /\ \/ /\ stage = "exec" /\ rows' = RowsSet({i}, "running")
              /\ trail' = Append1({i}, "resumed")
              /\ booted' = booted \cup {i} /\ state' = [state EXCEPT ![i] = "running"]
              /\ UNCHANGED backend
           \/ /\ trail' = trail \/ trail' = Append1({i}, "resumed")
              /\ StopAndRemove(i) /\ UNCHANGED <<rows, booted, state>>
  BY Zenon DEF SettleBooted
<1>5. /\ pc' \in [Handlers -> Stages] /\ on' \in [Handlers -> Ids \cup {None}]
      /\ boot' \in [Ids -> Handlers \cup {None}]
      /\ \A g \in Handlers :
           /\ pc'[g] \in BootStages => pc'[g] = pc[g] /\ on'[g] = on[g] /\ on[g] # i
           /\ pc'[g] = "join" => pc[g] = "join" /\ on'[g] = on[g] /\ on[g] # i
           /\ pc'[g] # "idle" => pc[g] # "idle" /\ on'[g] = on[g]
      /\ boot'[i] = None
      /\ \A j \in Ids : j # i =>
           /\ boot'[j] = boot[j]
           /\ boot[j] # None => /\ boot[j] \in Handlers
                                /\ pc'[boot[j]] = pc[boot[j]] /\ on'[boot[j]] = on[boot[j]]
  BY <1>1, <1>4, ReleaseFacts
<1>6. /\ trail' \in [Ids -> Seq(Events)]
      /\ trail[i] # <<>> /\ trail'[i] # <<>>
      /\ \A j \in Ids : j # i => trail'[j] = trail[j]
  <2>1. "resumed" \in Events /\ trail[i] # <<>>
    BY <1>2 DEF Bindings, Events
  <2>2. /\ Append1({i}, "resumed") \in [Ids -> Seq(Events)]
        /\ Append1({i}, "resumed")[i] # <<>>
        /\ \A j \in Ids : j # i => Append1({i}, "resumed")[j] = trail[j]
    BY Zenon, <1>2, <2>1, AppendOne
  <2>3. trail' = trail \/ trail' = Append1({i}, "resumed")
    BY Zenon, <1>4
  <2> QED BY Zenon, <1>2, <1>3, <2>1, <2>2, <2>3
<1>7. /\ rows' \in [Ids -> States \cup {"none"}] /\ state' \in [Ids -> States \cup {"none"}]
      /\ rows'[i] # "none" /\ \A j \in Ids : j # i => rows'[j] = rows[j]
  <2>1. "running" \in States
    BY DEF States
  <2>2. /\ rows \in [Ids -> States \cup {"none"}] /\ state \in [Ids -> States \cup {"none"}]
    BY DEF TypeOK
  <2>3. rows' = RowsSet({i}, "running") \/ rows' = rows
    BY <1>4
  <2>4. state' = [state EXCEPT ![i] = "running"] \/ state' = state
    BY <1>4
  <2> QED BY <1>2, <2>1, <2>2, <2>3, <2>4, RowsSetFacts
<1>8. /\ \A j \in Ids : j # i => vm'[j] = vm[j]
      /\ vm' \in [Ids -> {"absent", "running", "stopped"}]
      /\ dirs' \subseteq Ids /\ wired' \subseteq wired /\ lost' = lost
      /\ i \in wired' => vm'[i] = "running"
      /\ booted' \subseteq Ids
  BY ZenonT(60), <1>2, <1>3, <1>4 DEF StopAndRemove, backend, TypeOK
<1>9. /\ (i \in booted' => rows'[i] = "running")
      /\ booted \subseteq booted' /\ booted' \subseteq booted \cup {i}
      /\ (vm'[i] = "running" => i \in booted')
  BY Zenon, <1>2, <1>3, <1>4 DEF StopAndRemove, RowsSet
<1> HIDE DEF i
<1>10. TypeOK'
  BY <1>3, <1>5, <1>6, <1>7, <1>8 DEF TypeOK
<1>11. Bindings'
  BY ZenonT(60), <1>2, <1>3, <1>6, <1>7 DEF Bindings
<1>12. RosterIsDurable' /\ Exclusive'
  BY <1>2, <1>3, <1>7, NoneAssumption DEF RosterIsDurable, Exclusive, TypeOK, Registered
<1>13. Down'
  BY ZenonT(60), <1>2, <1>3 DEF Down
<1>14. Working' /\ Joining' /\ BootOwner' /\ BootingVM' /\ BootKeepsEntry' /\ NoStrandedVM'
  BY ZenonT(60), <1>2, <1>3, <1>5, <1>8, <1>9, ReleaseKeeps
<1>15. BootedIsRecorded'
  BY <1>2, <1>3, <1>7, <1>9 DEF BootedIsRecorded, Registered, TypeOK
<1>16. NoDanglingControls'
  BY <1>8 DEF NoDanglingControls, TypeOK
<1>17. GoneEndsTerminal'
  BY Zenon, <1>2, <1>3, <1>6, <1>7 DEF GoneEndsTerminal, Gone, Registered
<1> QED BY Zenon, <1>10, <1>11, <1>12, <1>13, <1>14, <1>15, <1>16, <1>17

-----------------------------------------------------------------------------
(* A registration takes an ID nobody has used, and a row only with its map  *)
(* entry.                                                                   *)
LEMMA RegisterStep ==
  ASSUME IInv, NEW t \in Tasks, NEW w \in Worktrees, NEW i \in Ids, NEW o \in RegisterOutcomes,
         Register(t, w, i, o)
  PROVE  IInv'
<1> USE DEF IInv
<1>1. /\ up /\ byTask[t] = None /\ trail[i] = <<>> /\ t # None /\ w # None /\ i # None
      /\ \A j \in Registered : worktree[j] # w
      /\ task' = [task EXCEPT ![i] = t] /\ worktree' = [worktree EXCEPT ![i] = w]
      /\ UNCHANGED <<up, booted, dead, boot, vm, dirs, wired, lost, pc, on>>
      /\ issued' \in Nat /\ crashes' \in Nat
  BY NoneAssumption DEF Register, Issue, checkExclusivity, backend, control, TypeOK
<1>2. task[i] = None /\ rows[i] = "none"
  BY ZenonT(60), <1>1 DEF Bindings
<1>3. i \notin Registered /\ i \notin booted
  BY ZenonT(60), <1>1, <1>2, NoneAssumption DEF RosterIsDurable, Registered, BootedIsRecorded
<1>4. /\ boot[i] = None /\ vm[i] # "running" /\ i \notin wired
      /\ \A h \in Handlers : pc[h] # "idle" => on[h] # i
  <2>1. \A h \in Handlers : pc[h] # "idle" => on[h] # i
    BY <1>2 DEF Working
  <2>2. boot[i] = None
    <3>1. ASSUME boot[i] # None PROVE FALSE
      <4>1. boot[i] \in Handlers
        BY Zenon, <3>1 DEF TypeOK
      <4>2. pc[boot[i]] \in BootStages /\ on[boot[i]] = i
        BY Zenon, <3>1 DEF BootOwner
      <4> QED BY <2>1, <4>1, <4>2 DEF BootStages
    <3> QED BY <3>1
  <2> QED BY Zenon, <1>3, <2>1, <2>2 DEF NoStrandedVM, NoDanglingControls
<1>5. /\ task' \in [Ids -> Tasks \cup {None}] /\ worktree' \in [Ids -> Worktrees \cup {None}]
      /\ task'[i] = t /\ worktree'[i] = w
      /\ \A j \in Ids : j # i => task'[j] = task[j] /\ worktree'[j] = worktree[j]
  BY <1>1 DEF TypeOK
<1>6. /\ trail' \in [Ids -> Seq(Events)] /\ trail'[i] # <<>>
      /\ trail'[i] = <<"created">> \/ Ended(trail'[i])
      /\ \A j \in Ids : j # i => trail'[j] = trail[j]
  <2>1. PICK v \in {<<"created">>, <<"created", "destroyed">>} : trail' = [trail EXCEPT ![i] = v]
    BY Zenon DEF Register
  <2>2. trail \in [Ids -> Seq(Events)] /\ v \in Seq(Events) /\ v # <<>>
        /\ (v = <<"created">> \/ Ended(v))
    BY Zenon, <2>1, FirstTrails DEF TypeOK
  <2>3. trail'[i] = v /\ \A j \in Ids : j # i => trail'[j] = trail[j]
    BY Zenon, <2>1, <2>2
  <2> QED BY <2>1, <2>2, <2>3
<1>7. \/ /\ rows' = [rows EXCEPT ![i] = "created"] /\ byTask' = [byTask EXCEPT ![t] = i]
         /\ state' = [state EXCEPT ![i] = "created"]
      \/ UNCHANGED <<rows, byTask, state>>
  BY Zenon DEF Register
<1>8. TypeOK'
  <2>1. /\ byTask' \in [Tasks -> Ids \cup {None}] /\ rows' \in [Ids -> States \cup {"none"}]
        /\ state' \in [Ids -> States \cup {"none"}]
    <3>1. "created" \in States
      BY Zenon DEF States
    <3>2. /\ byTask \in [Tasks -> Ids \cup {None}] /\ rows \in [Ids -> States \cup {"none"}]
          /\ state \in [Ids -> States \cup {"none"}]
      BY Zenon DEF TypeOK
    <3> QED BY <1>7, <3>1, <3>2
  <2> QED BY Zenon, <1>1, <1>5, <1>6, <2>1 DEF TypeOK
<1>9. Bindings'
  BY <1>1, <1>2, <1>5, <1>6, <1>7 DEF Bindings, TypeOK
<1>10. \A j \in Ids : rows[j] # "none" => j \in Registered /\ byTask[task[j]] = j /\ task[j] \in Tasks
  BY <1>1 DEF RosterIsDurable, Registered, Bindings, TypeOK
<1>11. Registered \subseteq Registered' /\ \A j \in Ids : j # i => (j \in Registered' => j \in Registered)
  BY <1>1, <1>3, <1>7, NoneAssumption DEF Registered, TypeOK
<1>12. CASE UNCHANGED <<rows, byTask, state>>
  <2>1. RosterIsDurable'
    BY <1>1, <1>2, <1>3, <1>5, <1>12 DEF RosterIsDurable, Registered, TypeOK
  <2>2. Exclusive'
    BY ZenonT(60), <1>2, <1>5, <1>12 DEF Exclusive
  <2>3. GoneEndsTerminal'
    BY ZenonT(60), <1>6, <1>12 DEF GoneEndsTerminal, Gone, Registered
  <2>4. Down' /\ BootKeepsEntry' /\ BootOwner' /\ Joining' /\ BootingVM' /\ BootedIsRecorded'
        /\ NoStrandedVM' /\ NoDanglingControls'
    <3>1. Registered' = Registered
      BY Zenon, <1>12 DEF Registered
    <3>2. Down' /\ BootKeepsEntry' /\ BootOwner' /\ Joining'
      BY Zenon, <1>1, <1>12, <3>1 DEF Down, BootKeepsEntry, BootOwner, Joining
    <3>3. BootingVM' /\ BootedIsRecorded' /\ NoStrandedVM' /\ NoDanglingControls'
      BY Zenon, <1>1, <1>12, <3>1
         DEF BootingVM, BootedIsRecorded, NoStrandedVM, NoDanglingControls
    <3> QED BY Zenon, <3>2, <3>3
  <2>5. Working'
    BY Zenon, <1>1, <1>5 DEF Working
  <2> QED BY ZenonT(60), <1>8, <1>9, <2>1, <2>2, <2>3, <2>4, <2>5
<1>13. CASE /\ rows' = [rows EXCEPT ![i] = "created"] /\ byTask' = [byTask EXCEPT ![t] = i]
            /\ state' = [state EXCEPT ![i] = "created"]
  <2>1. /\ rows'[i] = "created" /\ \A j \in Ids : j # i => rows'[j] = rows[j]
        /\ byTask'[t] = i /\ \A u \in Tasks : u # t => byTask'[u] = byTask[u]
    BY Zenon, <1>13 DEF TypeOK
  <2>2. \A j \in Ids : rows[j] # "none" => task[j] # t /\ worktree[j] # w
    BY <1>1, <1>10, NoneAssumption
  <2>3. RosterIsDurable'
    <3>1. ASSUME NEW u \in Tasks, byTask'[u] # None
          PROVE  rows'[byTask'[u]] # "none" /\ task'[byTask'[u]] = u
      <4>1. CASE u = t
        BY Zenon, <4>1, <2>1, <1>5
      <4>2. CASE u # t
        <5>1. byTask[u] \in Ids /\ byTask[u] # i /\ rows[byTask[u]] # "none" /\ task[byTask[u]] = u
          <6>1. byTask[u] # None /\ byTask \in [Tasks -> Ids \cup {None}]
            BY Zenon, <3>1, <4>2, <2>1 DEF TypeOK
          <6>2. rows[byTask[u]] # "none" /\ task[byTask[u]] = u
            BY Zenon, <6>1, <1>1 DEF RosterIsDurable
          <6> QED BY <6>1, <6>2, <1>2
        <5> QED BY Zenon, <4>2, <5>1, <2>1, <1>5
      <4> QED BY Zenon, <4>1, <4>2
    <3>2. ASSUME NEW j \in Ids, rows'[j] # "none"
          PROVE  byTask'[task'[j]] = j
      <4>1. CASE j = i
        BY Zenon, <4>1, <2>1, <1>5
      <4>2. CASE j # i
        <5>1. rows[j] # "none" /\ task'[j] = task[j]
          BY Zenon, <3>2, <4>2, <2>1, <1>5
        <5>2. task[j] \in Tasks /\ task[j] # t /\ byTask[task[j]] = j
          BY ZenonT(60), <5>1, <2>2, <1>10
        <5> QED BY Zenon, <5>1, <5>2, <2>1
      <4> QED BY Zenon, <4>1, <4>2
    <3> QED BY Zenon, <3>1, <3>2 DEF RosterIsDurable
  <2>4. Exclusive'
    BY <2>1, <2>2, <1>5 DEF Exclusive
  <2>5. GoneEndsTerminal'
    BY Zenon, <1>6, <1>11, <2>1 DEF GoneEndsTerminal, Gone
  <2>6. BootKeepsEntry'
    BY <1>1, <1>11 DEF BootKeepsEntry
  <2>7. BootedIsRecorded'
    BY ZenonT(60), <1>1, <1>3, <1>11, <2>1 DEF BootedIsRecorded, TypeOK
  <2>8. NoStrandedVM'
    BY Zenon, <1>1, <1>11 DEF NoStrandedVM
  <2>9. Down' /\ BootOwner' /\ Joining' /\ BootingVM' /\ NoDanglingControls'
    BY <1>1 DEF Down, BootOwner, Joining, BootingVM, NoDanglingControls
  <2>10. Working'
    BY Zenon, <1>1, <1>5 DEF Working
  <2> QED BY <1>8, <1>9, <2>3, <2>4, <2>5, <2>6, <2>7, <2>8, <2>9, <2>10
<1> QED BY Zenon, <1>7, <1>12, <1>13

(* noteExecFailure marks the booted sandbox its task has now, if any.       *)
LEMMA NoteStep ==
  ASSUME IInv, NEW h \in Handlers, noteExecFailure(h)
  PROVE  IInv'
<1> USE DEF IInv
<1> DEFINE i == byTask[task[on[h]]]
<1>1. /\ up /\ pc[h] = "lost" /\ pc[h] \notin BootStages
      /\ on[h] \in Ids /\ task[on[h]] \in Tasks /\ i \in Ids \cup {None}
  BY Zenon DEF noteExecFailure, BootStages, Working, TypeOK
<1>2. /\ Goto(h, "idle", None)
      /\ UNCHANGED <<up, byTask, task, worktree, booted, boot, vm, dirs, wired, lost, issued, crashes>>
  BY Zenon DEF noteExecFailure, Finish, NoIssue, backend, bounds
<1>3. issued \in Nat /\ crashes \in Nat /\ "idle" \in Stages \ BootStages
  BY DEF TypeOK, Stages, BootStages
<1>4. CASE UNCHANGED <<trail, rows, dead, state>>
  BY Zenon, <1>1, <1>2, <1>3, <1>4, HandlerMoves DEF registry, durable, backend
<1>5. CASE /\ i \in booted
           /\ trail' = Append1({i}, "guest_died")
           /\ \/ UNCHANGED <<rows, dead, state>>
              \/ /\ rows' = RowsSet({i}, "dead") /\ dead' = dead \cup {i}
                 /\ state' = [state EXCEPT ![i] = "dead"]
  <2>1. /\ i \in Ids /\ i \in Registered /\ rows[i] \in {"running", "dead"} /\ task[i] # None
        /\ trail[i] # <<>>
    BY <1>5 DEF BootedIsRecorded, Bindings, TypeOK
  <2>2. /\ trail' \in [Ids -> Seq(Events)] /\ trail'[i] # <<>>
        /\ \A j \in Ids : j # i => trail'[j] = trail[j]
    <3>1. "guest_died" \in Events
      BY DEF Events
    <3>2. /\ Append1({i}, "guest_died") \in [Ids -> Seq(Events)]
          /\ Append1({i}, "guest_died")[i] # <<>>
          /\ \A j \in Ids : j # i => Append1({i}, "guest_died")[j] = trail[j]
      <4> HIDE DEF i
      <4> QED BY Zenon, <2>1, <3>1, AppendOne
    <3> QED BY Zenon, <1>5, <3>2
  <2>3. /\ rows' \in [Ids -> States \cup {"none"}] /\ rows'[i] \in {"running", "dead"}
        /\ \A j \in Ids : j # i => rows'[j] = rows[j]
        /\ state' \in [Ids -> States \cup {"none"}] /\ dead' \subseteq Ids
    <3>1. "dead" \in States /\ rows \in [Ids -> States \cup {"none"}]
          /\ state \in [Ids -> States \cup {"none"}] /\ dead \subseteq Ids
      BY Zenon DEF States, TypeOK
    <3>2. CASE UNCHANGED <<rows, dead, state>>
      BY ZenonT(60), <3>1, <3>2, <2>1
    <3>3. CASE /\ rows' = RowsSet({i}, "dead") /\ dead' = dead \cup {i}
               /\ state' = [state EXCEPT ![i] = "dead"]
      BY SMT, Z3, <3>1, <3>3, <2>1, RowsSetFacts
    <3> QED BY Zenon, <1>5, <3>2, <3>3
  <2>4. /\ pc'[h] = "idle" /\ \A g \in Handlers : g # h => pc'[g] = pc[g] /\ on'[g] = on[g]
        /\ pc' \in [Handlers -> Stages] /\ on' \in [Handlers -> Ids \cup {None}]
    BY Zenon, <1>2, <1>3 DEF Goto, TypeOK
  <2>5. TypeOK'
    BY Zenon, <1>2, <1>3, <2>2, <2>3, <2>4 DEF TypeOK
  <2>6. Bindings'
    BY Zenon, <1>2, <2>1, <2>2, <2>3 DEF Bindings
  <2>7. RosterIsDurable' /\ Exclusive'
    <3>1. \A j \in Ids : (rows'[j] # "none") = (rows[j] # "none")
      BY Zenon, <2>1, <2>3
    <3>2. \A t \in Tasks : byTask[t] # None => byTask[t] \in Ids
      BY Zenon DEF TypeOK
    <3> QED BY ZenonT(60), <1>2, <3>1, <3>2 DEF RosterIsDurable, Exclusive
  <2>8. \A j \in Ids : boot[j] # None => boot[j] \in Handlers /\ boot[j] # h
    BY <1>1 DEF TypeOK, BootOwner
  <2>9. Down' /\ BootedIsRecorded' /\ NoDanglingControls' /\ GoneEndsTerminal'
    <3>1. Registered' = Registered /\ booted \subseteq Ids
      BY Zenon, <1>2 DEF Registered, TypeOK
    <3>2. BootedIsRecorded' /\ NoDanglingControls' /\ Down'
      BY Zenon, <1>1, <1>2, <2>1, <2>3, <3>1 DEF BootedIsRecorded, NoDanglingControls, Down
    <3>3. GoneEndsTerminal'
      BY Zenon, <2>1, <2>2, <2>3, <3>1 DEF GoneEndsTerminal, Gone
    <3> QED BY Zenon, <3>2, <3>3
  <2>10. BootKeepsEntry' /\ BootingVM'
    <3>1. \A g \in Handlers : pc'[g] # "idle" => pc'[g] = pc[g] /\ on'[g] = on[g]
      BY Zenon, <2>4
    <3>2. Registered' = Registered
      BY <1>2 DEF Registered
    <3> QED BY Zenon, <1>2, <3>1, <3>2 DEF BootKeepsEntry, BootingVM, BootStages
  <2>11. BootOwner'
    BY Zenon, <1>2, <2>4, <2>8 DEF BootOwner
  <2>12. Working' /\ Joining'
    BY Zenon, <1>2, <2>4 DEF Working, Joining
  <2>13. NoStrandedVM'
    BY Zenon, <1>2, <2>4, <2>8 DEF NoStrandedVM, Registered
  <2> QED BY Zenon, <2>5, <2>6, <2>7, <2>9, <2>10, <2>11, <2>12, <2>13
<1> QED BY Zenon, <1>4, <1>5 DEF noteExecFailure

(* A guest that stops answering changes nothing the invariant speaks of.    *)
LEMMA GuestDiesStep ==
  ASSUME IInv, NEW i \in Ids, GuestDies(i)
  PROVE  IInv'
<1> USE DEF IInv
<1>1. /\ UNCHANGED <<up, byTask, task, worktree, state, booted, dead, boot, rows, trail,
                     vm, dirs, wired, pc, on, issued, crashes>>
      /\ lost' \subseteq Ids
  BY Zenon DEF GuestDies, NoIssue, bounds, registry, durable, control, TypeOK
<1>2. TypeOK'
  BY <1>1 DEF TypeOK
<1>3. Registered' = Registered
  BY <1>1 DEF Registered
<1>4. Bindings' /\ RosterIsDurable' /\ Exclusive' /\ Down' /\ BootKeepsEntry'
  BY ZenonT(60), <1>1, <1>3 DEF Bindings, RosterIsDurable, Exclusive, Down, BootKeepsEntry
<1>5. BootOwner' /\ Working' /\ Joining' /\ BootingVM' /\ BootedIsRecorded'
  BY Zenon, <1>1, <1>3 DEF BootOwner, Working, Joining, BootingVM, BootedIsRecorded
<1>6. NoStrandedVM' /\ NoDanglingControls' /\ GoneEndsTerminal'
  BY Zenon, <1>1, <1>3 DEF NoStrandedVM, NoDanglingControls, GoneEndsTerminal, Gone
<1> QED BY Zenon, <1>2, <1>4, <1>5, <1>6

(* What a teardown leaves in the trails: one that got as far as its         *)
(* terminal event ends there, and no trail shrinks.                         *)
LEMMA TeardownTrails ==
  ASSUME TypeOK, NEW done, NEW bad, NEW pre \in Seq(Events), NEW ev \in Terminal, NEW step,
         Teardown(done, bad, pre, ev, step)
  PROVE  /\ trail' \in [Ids -> Seq(Events)]
         /\ \A j \in Ids : /\ j \in done => trail'[j] # <<>> /\ Ended(trail'[j])
                           /\ trail[j] # <<>> => trail'[j] # <<>>
                           /\ j \notin done \cup bad => trail'[j] = trail[j]
<1>1. ev \in Events
  BY FirstTrails
<1>2. \A j \in Ids : trail[j] \in Seq(Events)
  BY Zenon DEF TypeOK
<1>3. \A j \in Ids : /\ trail[j] \o pre \in Seq(Events)
                     /\ trail[j] # <<>> => trail[j] \o pre # <<>>
  BY Zenon, <1>2, ConcatFacts
<1>4. \A j \in Ids : LET s == Append(trail[j] \o pre, ev) IN
                     s \in Seq(Events) /\ s # <<>> /\ Ended(s)
  BY Zenon, <1>1, <1>3, AppendFacts
<1>5. PICK closed : /\ done \subseteq closed /\ closed \subseteq done \cup bad
                    /\ trail' = [j \in Ids |->
                         IF j \in closed THEN Append(trail[j] \o pre, ev)
                         ELSE IF j \in bad THEN trail[j] \o pre ELSE trail[j]]
  <2> DEFINE c == IF step = "drop" THEN done \cup bad ELSE done
  <2>1. /\ done \subseteq c /\ c \subseteq done \cup bad
        /\ trail' = [j \in Ids |->
             IF j \in c THEN Append(trail[j] \o pre, ev)
             ELSE IF j \in bad THEN trail[j] \o pre ELSE trail[j]]
    BY DEF Teardown
  <2> QED BY ZenonT(60), <2>1
<1> QED BY Zenon, <1>2, <1>3, <1>4, <1>5

(* A teardown of registered sandboxes that are not being booted, completed  *)
(* for `done` and cut short for `bad`.                                      *)
TornDown(done, bad, pre, ev, step) ==
  /\ \A j \in done \cup bad : boot[j] = None
  /\ CanTearDown(done, bad, step)
  /\ Teardown(done, bad, pre, ev, step)
  /\ byTask' = [t \in Tasks |-> IF byTask[t] \in done THEN None ELSE byTask[t]]
  /\ booted' = booted \ done
  /\ dead' = dead \ done /\ state' \in [Ids -> States \cup {"none"}]
  /\ UNCHANGED <<task, worktree, boot>>

(* What that does to the registry and the backend: the VMs of the booted    *)
(* ones among `done` go, the others lose at most theirs.                    *)
RosterEffect(done, bad) ==
  /\ rows' \in [Ids -> States \cup {"none"}]
  /\ \A j \in Ids : rows'[j] = IF j \in done THEN "none" ELSE rows[j]
  /\ \A t \in Tasks : byTask'[t] = IF byTask[t] \in done THEN None ELSE byTask[t]
  /\ byTask' \in [Tasks -> Ids \cup {None}]
  /\ \A j \in Ids : j \in Registered' <=> j \in Registered /\ j \notin done
  /\ lost' = lost
  /\ \E cleared, halted :
       /\ booted \cap done \subseteq cleared /\ cleared \subseteq booted \cap (done \cup bad)
       /\ halted \subseteq booted \cap bad
       /\ vm' = [j \in Ids |-> IF j \in cleared THEN "absent"
                               ELSE IF j \in halted THEN "stopped" ELSE vm[j]]
       /\ dirs' = dirs \ cleared
       /\ wired' = wired \ (booted \cap (done \cup bad))

(* Every teardown has that effect.                                          *)
LEMMA TornDownFacts ==
  ASSUME IInv, NEW done \in SUBSET Registered, NEW bad \in SUBSET Registered,
         NEW pre \in Seq(Events), NEW ev \in Terminal, NEW step,
         TornDown(done, bad, pre, ev, step)
  PROVE  RosterEffect(done, bad)
<1> USE DEF IInv, TornDown
<1>1. /\ rows' \in [Ids -> States \cup {"none"}]
      /\ \A j \in Ids : rows'[j] = IF j \in done THEN "none" ELSE rows[j]
  BY RowsSetFacts DEF Teardown
<1>2. \E cleared, halted :
        /\ booted \cap done \subseteq cleared /\ cleared \subseteq booted \cap (done \cup bad)
        /\ halted \subseteq booted \cap bad
        /\ vm' = [j \in Ids |-> IF j \in cleared THEN "absent"
                                ELSE IF j \in halted THEN "stopped" ELSE vm[j]]
        /\ dirs' = dirs \ cleared
        /\ wired' = wired \ (booted \cap (done \cup bad))
  <2> DEFINE c == booted \cap (IF step \in {"audit", "drop"} THEN done \cup bad ELSE done)
             k == IF step = "remove" THEN bad ELSE {}
  <2>1. /\ booted \cap done \subseteq c /\ c \subseteq booted \cap (done \cup bad)
        /\ k \subseteq booted \cap bad
    BY Zenon DEF CanTearDown
  <2>2. /\ vm' = [j \in Ids |-> IF j \in c THEN "absent"
                                ELSE IF j \in k THEN "stopped" ELSE vm[j]]
        /\ dirs' = dirs \ c
        /\ wired' = wired \ (booted \cap (done \cup bad))
    BY Zenon DEF Teardown
  <2> HIDE DEF c, k
  <2> QED BY Zenon, <2>1, <2>2
<1>3. /\ \A t \in Tasks : byTask'[t] = IF byTask[t] \in done THEN None ELSE byTask[t]
      /\ byTask' \in [Tasks -> Ids \cup {None}]
  BY DEF TypeOK
<1>4. \A j \in Ids : j \in Registered' <=> j \in Registered /\ j \notin done
  <2> TAKE j \in Ids
  <2>1. j \in Registered <=> \E t \in Tasks : byTask[t] = j
    BY Zenon DEF Registered
  <2>2. j \in Registered' <=> \E t \in Tasks : byTask'[t] = j
    BY Zenon DEF Registered
  <2>3. j # None
    BY Zenon, NoneAssumption
  <2>4. \A t \in Tasks : byTask'[t] = j <=> byTask[t] = j /\ byTask[t] \notin done
    BY Zenon, <1>3, <2>3
  <2>5. j \in Registered' <=> j \in Registered /\ j \notin done
    BY Zenon, <2>1, <2>2, <2>4
  <2> QED BY Zenon, <2>5
<1>5. lost' = lost
  BY ZenonT(60) DEF Teardown
<1> QED BY ZenonT(60), <1>1, <1>2, <1>3, <1>4, <1>5 DEF RosterEffect

(* A teardown, together with handlers that do not own a boot going idle     *)
(* (Remove, Land, Resume, ReapExpired).                                     *)
LEMMA TeardownStep ==
  ASSUME IInv, up, up' = up,
         NEW done \in SUBSET Registered, NEW bad \in SUBSET Registered,
         NEW pre \in Seq(Events), NEW ev \in Terminal, NEW step,
         TornDown(done, bad, pre, ev, step),
         issued' \in Nat, crashes' \in Nat,
         pc' \in [Handlers -> Stages], on' \in [Handlers -> Ids \cup {None}],
         \A g \in Handlers : \/ pc'[g] = pc[g] /\ on'[g] = on[g]
                             \/ pc[g] \notin BootStages /\ pc'[g] = "idle"
  PROVE  IInv'
<1>0. RosterEffect(done, bad)
  BY Zenon, TornDownFacts
<1>1. /\ trail' \in [Ids -> Seq(Events)]
      /\ \A j \in Ids : /\ j \in done => trail'[j] # <<>> /\ Ended(trail'[j])
                        /\ trail[j] # <<>> => trail'[j] # <<>>
                        /\ j \notin done \cup bad => trail'[j] = trail[j]
  BY Zenon, TeardownTrails DEF TornDown, IInv
<1>2. done \subseteq Ids /\ bad \subseteq Ids /\ booted \subseteq Ids
  BY DEF Registered, TypeOK, IInv
<1>3. /\ lost' = lost /\ rows' \in [Ids -> States \cup {"none"}]
      /\ \A j \in Ids : rows'[j] = IF j \in done THEN "none" ELSE rows[j]
  BY Zenon, <1>0 DEF RosterEffect
<1>4. PICK cleared, halted :
        /\ booted \cap done \subseteq cleared /\ cleared \subseteq booted \cap (done \cup bad)
        /\ halted \subseteq booted \cap bad
        /\ vm' = [j \in Ids |-> IF j \in cleared THEN "absent"
                                ELSE IF j \in halted THEN "stopped" ELSE vm[j]]
        /\ dirs' = dirs \ cleared
        /\ wired' = wired \ (booted \cap (done \cup bad))
  BY ZenonT(60), <1>0 DEF RosterEffect
<1>5. /\ \A t \in Tasks : byTask'[t] = IF byTask[t] \in done THEN None ELSE byTask[t]
      /\ byTask' \in [Tasks -> Ids \cup {None}]
  BY ZenonT(60), <1>0 DEF RosterEffect
<1>6. \A j \in Ids : j \in Registered' <=> j \in Registered /\ j \notin done
  BY Zenon, <1>0 DEF RosterEffect
<1>7. \A j \in done \cup bad : rows[j] # "none" /\ task[j] # None /\ trail[j] # <<>>
  <2> TAKE j \in done \cup bad
  <2>1. j \in Ids /\ \E t \in Tasks : byTask[t] = j
    BY Zenon DEF Registered
  <2>2. j # None
    BY Zenon, <2>1, NoneAssumption
  <2>3. rows[j] # "none"
    BY Zenon, <2>1, <2>2 DEF RosterIsDurable, IInv
  <2>4. Bindings
    BY Zenon DEF IInv
  <2>5. task[j] # None /\ (task[j] = None) = (trail[j] = <<>>)
    BY Zenon, <2>1, <2>3, <2>4 DEF Bindings
  <2> QED BY Zenon, <2>3, <2>5
<1>8. /\ \A j \in done \cup bad : boot[j] = None
      /\ booted' = booted \ done /\ dead' \subseteq Ids /\ state' \in [Ids -> States \cup {"none"}]
      /\ UNCHANGED <<task, worktree, boot>>
  BY ZenonT(60) DEF TornDown, IInv, TypeOK
<1> USE DEF IInv
<1>9. TypeOK'
  BY <1>1, <1>2, <1>3, <1>4, <1>5, <1>8 DEF TypeOK
<1>10. Bindings'
  BY ZenonT(60), <1>1, <1>3, <1>7, <1>8 DEF Bindings
<1>11. RosterIsDurable'
  <2>1. ASSUME NEW t \in Tasks, byTask'[t] # None
        PROVE  rows'[byTask'[t]] # "none" /\ task'[byTask'[t]] = t
    <3>1. byTask[t] \in Ids /\ byTask[t] \notin done /\ byTask'[t] = byTask[t]
      BY <1>5, <2>1 DEF TypeOK
    <3>2. rows[byTask[t]] # "none" /\ task[byTask[t]] = t
      BY ZenonT(60), <2>1, <3>1 DEF RosterIsDurable
    <3> QED BY ZenonT(60), <1>3, <1>8, <3>1, <3>2
  <2>2. ASSUME NEW j \in Ids, rows'[j] # "none" PROVE byTask'[task'[j]] = j
    <3>1. j \notin done /\ byTask[task[j]] = j
      BY Zenon, <1>3, <2>2 DEF RosterIsDurable
    <3>2. task[j] \in Tasks
      BY <1>3, <2>2 DEF Bindings, TypeOK
    <3> QED BY Zenon, <1>5, <1>8, <3>1, <3>2
  <2> QED BY ZenonT(60), <2>1, <2>2 DEF RosterIsDurable
<1>12. Exclusive'
  BY Zenon, <1>3, <1>8 DEF Exclusive
<1>13. Down'
  BY Zenon DEF Down
<1>14. \A g \in Handlers : pc'[g] # "idle" => pc'[g] = pc[g] /\ on'[g] = on[g]
  BY Zenon
<1>15. \A g \in Handlers : pc[g] \in BootStages =>
         /\ pc'[g] = pc[g] /\ on'[g] = on[g]
         /\ on[g] \in Registered /\ on[g] \in Ids /\ on[g] \notin done \cup bad
  <2>1. \A g \in Handlers : pc[g] \in BootStages => on[g] \in Registered /\ boot[on[g]] = g
    BY Zenon DEF BootKeepsEntry
  <2> QED BY ZenonT(60), <1>8, <2>1, NoneAssumption DEF Registered
<1>16. BootKeepsEntry'
  BY Zenon, <1>6, <1>8, <1>14, <1>15 DEF BootKeepsEntry, BootStages
<1>17. BootOwner'
  BY <1>8, <1>15 DEF BootOwner, TypeOK
<1>18. Working' /\ Joining'
  BY ZenonT(60), <1>8, <1>14 DEF Working, Joining
<1>19. BootingVM'
  BY <1>4, <1>14, <1>15 DEF BootingVM, BootStages
<1>20. BootedIsRecorded'
  BY ZenonT(60), <1>2, <1>3, <1>6, <1>8 DEF BootedIsRecorded
<1>21. NoStrandedVM'
  <2> SUFFICES ASSUME NEW j \in Ids, vm'[j] = "running"
               PROVE  /\ j \in Registered'
                      /\ j \in booted' \/ (boot'[j] # None /\ pc'[boot'[j]] \in {"wire", "settle"})
    BY ZenonT(60) DEF NoStrandedVM
  <2>1. vm[j] = "running" /\ j \notin booted \cap done
    BY Zenon, <1>4
  <2>2. /\ j \in Registered
        /\ j \in booted \/ (boot[j] # None /\ pc[boot[j]] \in {"wire", "settle"})
    BY Zenon, <2>1 DEF NoStrandedVM
  <2>3. j \notin done
    BY Zenon, <1>8, <2>1, <2>2
  <2>4. boot[j] # None => boot[j] \in Handlers
    BY Zenon DEF TypeOK
  <2> QED BY ZenonT(60), <1>6, <1>8, <1>15, <2>2, <2>3, <2>4 DEF BootStages
<1>22. NoDanglingControls'
  BY <1>4, <1>8 DEF NoDanglingControls, TypeOK
<1>23. GoneEndsTerminal'
  BY Zenon, <1>1, <1>3, <1>6, <1>8 DEF GoneEndsTerminal, Gone
<1> QED BY Zenon, <1>9, <1>10, <1>11, <1>12, <1>13, <1>16, <1>17, <1>18, <1>19, <1>20,
           <1>21, <1>22, <1>23

(* The critical sections of Remove and of Land are teardowns.               *)
LEMMA LockedTearsDown ==
  ASSUME IInv, NEW i \in Registered, RemoveLocked(i) \/ LandLocked(i)
  PROVE  \E done, bad \in SUBSET Registered, pre \in Seq(Events), ev \in Terminal,
            step \in TeardownSteps \cup {"none"} : TornDown(done, bad, pre, ev, step)
<1> USE DEF IInv
<1>1. /\ boot[i] = None /\ i \in Ids
      /\ state \in [Ids -> States \cup {"none"}] /\ dead \subseteq Ids
      /\ byTask \in [Tasks -> Ids \cup {None}]
  BY DEF RemoveLocked, LandLocked, Registered, TypeOK
<1>2. "destroyed" \in Terminal /\ <<>> \in Seq(Events) /\ <<"landed">> \in Seq(Events)
      /\ "landed" \in States
  BY FirstTrails DEF Events, States
<1> DEFINE pres == {<<>>, <<"landed">>}
<1>3. CASE \E pre \in pres : /\ CanTearDown({i}, {}, "none")
                             /\ Teardown({i}, {}, pre, "destroyed", "none")
                             /\ Forget({i})
  <2>1. PICK pre \in pres : /\ CanTearDown({i}, {}, "none")
                            /\ Teardown({i}, {}, pre, "destroyed", "none")
                            /\ Forget({i})
    BY ZenonT(60), <1>3
  <2>2. /\ byTask' = [t \in Tasks |-> IF byTask[t] \in {i} THEN None ELSE byTask[t]]
        /\ booted' = booted \ {i} /\ dead' = dead \ {i}
        /\ state' \in [Ids -> States \cup {"none"}]
        /\ UNCHANGED <<task, worktree, boot>>
    BY <1>1, <2>1 DEF Forget
  <2>3. {i} \in SUBSET Registered /\ {} \in SUBSET Registered
        /\ \A j \in {i} \cup {} : boot[j] = None
        /\ pre \in Seq(Events)
    BY Zenon, <1>1, <1>2
  <2> QED BY Zenon, <1>2, <2>1, <2>2, <2>3 DEF TornDown
<1>4. CASE \E pre \in pres, step \in TeardownSteps :
             /\ CanTearDown({}, {i}, step)
             /\ Teardown({}, {i}, pre, "destroyed", step)
             /\ state' = state \/ state' = [state EXCEPT ![i] = "landed"]
             /\ UNCHANGED <<byTask, task, worktree, booted, dead, boot>>
  <2>1. PICK pre \in pres, step \in TeardownSteps :
             /\ CanTearDown({}, {i}, step)
             /\ Teardown({}, {i}, pre, "destroyed", step)
             /\ state' = state \/ state' = [state EXCEPT ![i] = "landed"]
             /\ UNCHANGED <<byTask, task, worktree, booted, dead, boot>>
    BY ZenonT(60), <1>4
  <2>2. /\ byTask' = [t \in Tasks |-> IF byTask[t] \in {} THEN None ELSE byTask[t]]
        /\ booted' = booted \ {} /\ dead' = dead \ {}
        /\ state' \in [Ids -> States \cup {"none"}]
    BY Zenon, <1>1, <1>2, <2>1
  <2>3. {i} \in SUBSET Registered /\ {} \in SUBSET Registered
        /\ \A j \in {} \cup {i} : boot[j] = None
        /\ pre \in Seq(Events)
    BY Zenon, <1>1, <1>2
  <2> QED BY Zenon, <1>2, <2>1, <2>2, <2>3 DEF TornDown
<1>5. CASE UNCHANGED <<registry, durable, backend>>
  <2>1. UNCHANGED <<byTask, task, worktree, state, booted, dead, boot, rows, trail,
                    vm, dirs, wired, lost>>
    BY <1>5 DEF registry, durable, backend
  <2>2. /\ byTask' = [t \in Tasks |-> IF byTask[t] \in {} THEN None ELSE byTask[t]]
        /\ booted' = booted \ {} /\ dead' = dead \ {}
        /\ state' \in [Ids -> States \cup {"none"}]
    BY Zenon, <1>1, <2>1
  <2>3. CanTearDown({}, {}, "none")
    BY Zenon DEF CanTearDown
  <2>4. Teardown({}, {}, <<>>, "destroyed", "none")
    <3>1. /\ vm = [j \in Ids |-> vm[j]] /\ trail = [j \in Ids |-> trail[j]]
          /\ rows = [j \in Ids |-> rows[j]]
      BY DEF TypeOK
    <3> QED BY Zenon, <2>1, <3>1 DEF Teardown, RowsSet
  <2>5. {} \in SUBSET Registered /\ \A j \in {} \cup {} : boot[j] = None
    BY Zenon
  <2> QED BY Zenon, <1>2, <2>1, <2>2, <2>3, <2>4, <2>5 DEF TornDown
<1> QED BY ZenonT(60), <1>3, <1>4, <1>5 DEF RemoveLocked, LandLocked, registry

(* The critical section of Remove and of Land, with the handler at rest or  *)
(* finishing.                                                               *)
LEMMA RemoveLockedStep ==
  ASSUME IInv, up, NEW i \in Registered, RemoveLocked(i) \/ LandLocked(i),
         up' = up, issued' \in Nat, crashes' \in Nat,
         pc' \in [Handlers -> Stages], on' \in [Handlers -> Ids \cup {None}],
         \A g \in Handlers : \/ pc'[g] = pc[g] /\ on'[g] = on[g]
                             \/ pc[g] \notin BootStages /\ pc'[g] = "idle"
  PROVE  IInv'
<1>1. PICK done \in SUBSET Registered, bad \in SUBSET Registered, pre \in Seq(Events),
           ev \in Terminal, step \in TeardownSteps \cup {"none"} :
             TornDown(done, bad, pre, ev, step)
  BY Zenon, LockedTearsDown
<1> QED BY Zenon, <1>1, TeardownStep

(* Remove and Land, waiting out a boot or tearing down at once.             *)
LEMMA RemoveLandStep ==
  ASSUME IInv, NEW h \in Handlers, NEW t \in Tasks, Remove(h, t) \/ Land(h, t)
  PROVE  IInv'
<1> USE DEF IInv
<1>1. /\ up /\ up' = up /\ issued' \in Nat /\ crashes' \in Nat
      /\ byTask[t] \in Ids /\ byTask[t] \in Registered
  BY DEF Remove, Land, Issue, TypeOK, Registered
<1>2. task[byTask[t]] # None
  BY Zenon, <1>1, NoneAssumption DEF RosterIsDurable, Registered
<1>3. ASSUME NEW s \in {"remove", "land"}, Await(h, byTask[t], s) PROVE IInv'
  <2>1. s \in Stages \ BootStages /\ s # "join" /\ pc[h] \notin BootStages
    BY Zenon, <1>3 DEF Await, Stages, BootStages
  <2>2. Goto(h, s, byTask[t]) /\ UNCHANGED <<registry, durable, backend>>
    BY Zenon, <1>3 DEF Await
  <2> QED BY Zenon, <1>1, <1>2, <2>1, <2>2, HandlerMoves
<1>4. ASSUME RemoveLocked(byTask[t]) \/ LandLocked(byTask[t]), UNCHANGED control PROVE IInv'
  <2>1. /\ pc' = pc /\ on' = on
        /\ pc' \in [Handlers -> Stages] /\ on' \in [Handlers -> Ids \cup {None}]
    BY <1>4 DEF control, TypeOK
  <2> QED BY Zenon, <1>1, <1>4, <2>1, RemoveLockedStep
<1> QED BY Zenon, <1>3, <1>4 DEF Remove, Land

(* A woken removal or land goes on with the sandbox its task has by now.    *)
LEMMA ResumeStep ==
  ASSUME IInv, NEW h \in Handlers, Resume(h)
  PROVE  IInv'
<1> USE DEF IInv
<1> DEFINE i == byTask[task[on[h]]]
<1>1. /\ up /\ pc[h] \in {"remove", "land"} /\ pc[h] \notin BootStages
      /\ up' = up /\ issued' = issued /\ crashes' = crashes
      /\ issued \in Nat /\ crashes \in Nat
      /\ Goto(h, "idle", None) /\ "idle" \in Stages \ BootStages
  BY Zenon DEF Resume, Finish, NoIssue, bounds, BootStages, Stages, TypeOK
<1>2. task[on[h]] \in Tasks /\ i \in Ids \cup {None}
  BY Zenon, <1>1 DEF Working, TypeOK
<1>3. CASE UNCHANGED <<registry, durable, backend>>
  BY Zenon, <1>1, <1>3, HandlerMoves
<1>4. CASE i # None /\ (RemoveLocked(i) \/ LandLocked(i))
  <2>1. i \in Registered
    BY Zenon, <1>2, <1>4 DEF Registered
  <2>2. /\ pc' \in [Handlers -> Stages] /\ on' \in [Handlers -> Ids \cup {None}]
        /\ \A g \in Handlers : \/ pc'[g] = pc[g] /\ on'[g] = on[g]
                               \/ pc[g] \notin BootStages /\ pc'[g] = "idle"
    BY <1>1 DEF Goto, TypeOK
  <2> HIDE DEF i
  <2> QED BY Zenon, <1>1, <1>4, <2>1, <2>2, RemoveLockedStep
<1> QED BY ZenonT(60), <1>3, <1>4 DEF Resume

(* The TTL sweep.                                                           *)
LEMMA ReapStep ==
  ASSUME IInv, NEW done \in SUBSET Registered, NEW bad \in SUBSET Registered, NEW step,
         ReapExpired(done, bad, step)
  PROVE  IInv'
<1> USE DEF IInv
<1>1. /\ up /\ up' = up /\ issued' \in Nat /\ crashes' \in Nat
      /\ pc' = pc /\ on' = on
      /\ pc' \in [Handlers -> Stages] /\ on' \in [Handlers -> Ids \cup {None}]
  BY SMT, Z3 DEF ReapExpired, Issue, control, TypeOK
<1>2. TornDown(done, bad, <<>>, "ttl_expired", step)
  BY DEF ReapExpired, Forget, TypeOK, TornDown
<1>3. <<>> \in Seq(Events) /\ "ttl_expired" \in Terminal
  BY FirstTrails
<1> QED BY Zenon, <1>1, <1>2, <1>3, TeardownStep

=============================================================================
