------------------------ MODULE SandboxServiceProofs ------------------------
(***************************************************************************)
(* Proofs that the sweeps, crashes and recoveries keep the inductive       *)
(* invariant, and the theorems about SandboxService that follow from it:   *)
(* its invariants, that a sandbox that is gone stays gone, that a dead one *)
(* stays dead, and that the service implements SandboxRoster.              *)
(***************************************************************************)
EXTENDS SandboxLifecycleProofs

-----------------------------------------------------------------------------
(* What steps of a serving daemon have in common *)

(* A boot settles under a daemon that stays up, and releases its party.     *)
LEMMA SettleFacts ==
  ASSUME NEW h \in Handlers, SettleFailed(h) \/ SettleBooted(h)
  PROVE  /\ up /\ up' /\ dead' = dead /\ pc[h] \in BootStages
         /\ \E stage \in {"idle", "exec"} : Release(on[h], stage)
BY DEF SettleFailed, SettleBooted, NoIssue, BootStages

(* So do removals and lands.                                                *)
LEMMA RemovalsServe ==
  ASSUME NEW h \in Handlers, (\E t \in Tasks : Remove(h, t) \/ Land(h, t)) \/ Resume(h)
  PROVE  up /\ up'
BY DEF Remove, Land, Resume, Issue, NoIssue

(* So do the sweeps, which move no handler.                                 *)
LEMMA SweepsServe ==
  ASSUME NEW done, NEW bad, NEW step, ReapExpired(done, bad, step) \/ SuspendIdle(done, bad, step)
  PROVE  up /\ up' /\ UNCHANGED <<pc, on>>
BY DEF ReapExpired, SuspendIdle, Issue, control

(* So do the moves of a handler that record nothing.                        *)
LEMMA MovesServe ==
  ASSUME NEW h \in Handlers, GiveUp(h) \/ ExecReturns(h) \/ Launch(h) \/ WireControls(h)
  PROVE  up /\ up' /\ UNCHANGED <<dead, rows, boot>>
BY DEF GiveUp, ExecReturns, Launch, WireControls, NoIssue, registry, durable

(* A row that is set to dead, among the others.                             *)
LEMMA DeadWritten ==
  ASSUME TypeOK, NEW i, rows' = RowsSet({i}, "dead")
  PROVE  \A j \in Ids : rows'[j] = IF j \in {i} THEN "dead" ELSE rows[j]
BY RowsSetFacts DEF States

-----------------------------------------------------------------------------
(* The idle sweep stops VMs of booted sandboxes, which nobody is booting.   *)
LEMMA SuspendStep ==
  ASSUME IInv, NEW done \in SUBSET booted, NEW bad \in SUBSET booted, NEW step,
         SuspendIdle(done, bad, step)
  PROVE  IInv'
<1> USE DEF IInv
<1>1. /\ up /\ up' = up /\ issued' \in Nat /\ crashes' \in Nat
      /\ booted' = booted \ done /\ wired' = wired \ (done \cup bad)
      /\ UNCHANGED <<byTask, task, worktree, dead, boot, dirs, lost, pc, on>>
      /\ state' \in [Ids -> States \cup {"none"}]
  <2>1. "suspended" \in States /\ state \in [Ids -> States \cup {"none"}]
    BY DEF States, TypeOK
  <2> QED BY <2>1 DEF SuspendIdle, Issue, control, TypeOK
<1>2. /\ rows' \in [Ids -> States \cup {"none"}]
      /\ \A j \in Ids : rows'[j] = IF j \in done THEN "suspended" ELSE rows[j]
  <2>1. "suspended" \in States \cup {"none"} /\ rows' = RowsSet(done, "suspended")
    BY DEF SuspendIdle, States
  <2> QED BY <2>1, RowsSetFacts
<1>3. PICK S : /\ S \subseteq done \cup bad
               /\ trail' = Append1(S, "suspended")
  BY DEF SuspendIdle
<1>4. /\ trail' \in [Ids -> Seq(Events)]
      /\ \A j \in Ids : /\ trail[j] # <<>> => trail'[j] # <<>>
                        /\ j \notin booted => trail'[j] = trail[j]
  <2>1. "suspended" \in Events
    BY DEF Events
  <2> QED BY <1>3, <2>1, Append1Facts
<1>5. PICK V : /\ done \subseteq V /\ V \subseteq done \cup bad
               /\ vm' = VmSet(V, "stopped")
  BY DEF SuspendIdle
<1>6. /\ vm' \in [Ids -> {"absent", "running", "stopped"}]
      /\ \A j \in Ids : vm'[j] = IF j \in V THEN "stopped" ELSE vm[j]
  BY <1>5 DEF VmSet, TypeOK
<1>7. Registered' = Registered /\ booted \subseteq Registered /\ booted \subseteq Ids
  BY <1>1 DEF Registered, BootedIsRecorded
<1>8. \A j \in booted : rows[j] \in {"running", "dead"} /\ task[j] # None /\ trail[j] # <<>>
  BY <1>7 DEF BootedIsRecorded, Bindings
<1>9. \A g \in Handlers : pc[g] \in BootStages => on[g] \notin booted /\ on[g] \in Ids
  BY <1>7 DEF BootKeepsEntry, Registered
<1>10. TypeOK'
  BY Zenon, <1>1, <1>2, <1>4, <1>6 DEF TypeOK
<1>11. Bindings'
  BY ZenonT(60), <1>1, <1>2, <1>4, <1>8 DEF Bindings
<1>12. RosterIsDurable' /\ Exclusive'
  <2>1. \A j \in Ids : (rows'[j] # "none") = (rows[j] # "none")
    BY <1>2, <1>8
  <2>2. \A t \in Tasks : byTask[t] # None => byTask[t] \in Ids
    BY DEF TypeOK
  <2> QED BY <1>1, <2>1, <2>2 DEF RosterIsDurable, Exclusive
<1>13. Down' /\ BootKeepsEntry' /\ BootOwner' /\ Working' /\ Joining'
  BY Zenon, <1>1, <1>7 DEF Down, BootKeepsEntry, BootOwner, Working, Joining
<1>14. BootingVM'
  BY <1>1, <1>5, <1>6, <1>9 DEF BootingVM, BootStages
<1>15. BootedIsRecorded'
  BY <1>1, <1>2, <1>7 DEF BootedIsRecorded
<1>16. NoStrandedVM'
  BY Zenon, <1>1, <1>5, <1>6, <1>7 DEF NoStrandedVM
<1>17. NoDanglingControls'
  BY <1>1, <1>5, <1>6 DEF NoDanglingControls, TypeOK
<1>18. GoneEndsTerminal'
  BY <1>2, <1>4, <1>7, <1>8 DEF GoneEndsTerminal, Gone
<1> QED BY Zenon, <1>10, <1>11, <1>12, <1>13, <1>14, <1>15, <1>16, <1>17, <1>18

(* A crash leaves the durable state, which alone satisfies the invariant.   *)
LEMMA CrashStep ==
  ASSUME IInv, Crash
  PROVE  IInv'
<1> USE DEF IInv
<1>1. /\ up /\ up' = FALSE /\ crashes' \in Nat
      /\ UNCHANGED <<task, worktree, rows, trail, dirs, issued>>
      /\ byTask' = [t \in Tasks |-> None] /\ state' = [j \in Ids |-> "none"]
      /\ booted' = {} /\ dead' = {} /\ wired' = {} /\ lost' = {}
      /\ boot' = [j \in Ids |-> None] /\ vm' = [j \in Ids |-> "absent"]
      /\ pc' = [h \in Handlers |-> "idle"] /\ on' = [h \in Handlers |-> None]
  BY DEF Crash, durable, TypeOK
<1>2. TypeOK'
  BY ZenonT(60), <1>1 DEF TypeOK, Stages
<1>3. \A j \in Ids : rows[j] = "none" => j \notin Registered
  BY ZenonT(60), <1>1, NoneAssumption DEF RosterIsDurable, Registered
<1>4. Bindings' /\ RosterIsDurable' /\ Exclusive' /\ Down' /\ NoStrandedVM' /\ BootedIsRecorded'
  BY <1>1 DEF Bindings, RosterIsDurable, Exclusive, Down, NoStrandedVM, BootedIsRecorded
<1>5. BootKeepsEntry' /\ BootOwner' /\ Working' /\ Joining' /\ BootingVM' /\ NoDanglingControls'
  BY Zenon, <1>1 DEF BootKeepsEntry, BootOwner, Working, Joining, BootingVM,
     NoDanglingControls, BootStages
<1>6. GoneEndsTerminal'
  BY <1>1, <1>3 DEF GoneEndsTerminal, Gone
<1> QED BY <1>2, <1>4, <1>5, <1>6

(* Rehydrate rebuilds the working set from the rows it can verify: the map  *)
(* it builds is the registry's because tasks are exclusive in the registry. *)
LEMMA RehydrateStep ==
  ASSUME IInv, Rehydrate
  PROVE  IInv'
<1> USE DEF IInv
<1>1. /\ ~up /\ up' = TRUE
      /\ trail' = Append1(Claims, "killed") /\ rows' = RowsSet(Claims, "none")
      /\ UNCHANGED <<task, worktree, booted, boot, vm, dirs, wired, lost, pc, on, issued, crashes>>
      /\ byTask' = [t \in Tasks |->
                      IF \E i \in Verified : task[i] = t
                      THEN CHOOSE i \in Verified : task[i] = t ELSE None]
  BY DEF Rehydrate, backend, control, bounds
<1>2. /\ Verified \subseteq Ids
      /\ \A j \in Ids : /\ (j \in Claims) = (rows[j] # "none" /\ j \notin Verified)
                        /\ j \in Verified => rows[j] # "none"
  BY DEF Verified, Claims
<1>3. /\ rows' \in [Ids -> States \cup {"none"}]
      /\ \A j \in Ids : rows'[j] = IF j \in Verified THEN rows[j] ELSE "none"
  <2>1. /\ rows' \in [Ids -> States \cup {"none"}]
        /\ \A j \in Ids : rows'[j] = IF j \in Claims THEN "none" ELSE rows[j]
    BY <1>1, RowsSetFacts
  <2> QED BY <1>2, <2>1
<1>4. /\ trail' \in [Ids -> Seq(Events)]
      /\ \A j \in Ids : /\ j \notin Claims => trail'[j] = trail[j]
                        /\ j \in Claims => trail'[j] # <<>> /\ Ended(trail'[j])
  <2>1. "killed" \in Events /\ "killed" \in Terminal
    BY FirstTrails
  <2> QED BY <1>1, <2>1, Append1Facts
<1>5. /\ state' \in [Ids -> States \cup {"none"}] /\ dead' \subseteq Ids
  BY <1>2 DEF Rehydrate, TypeOK
<1>6. \A j \in Ids : rows[j] # "none" => task[j] \in Tasks /\ trail[j] # <<>>
  BY DEF Bindings, TypeOK
<1>7. \A t \in Tasks : byTask'[t] # None => byTask'[t] \in Verified /\ task[byTask'[t]] = t
  <2> SUFFICES ASSUME NEW t \in Tasks, byTask'[t] # None
               PROVE  byTask'[t] \in Verified /\ task[byTask'[t]] = t
    OBVIOUS
  <2>1. \E j \in Verified : task[j] = t
    BY <1>1
  <2>2. byTask'[t] = CHOOSE j \in Verified : task[j] = t
    BY <1>1, <2>1
  <2> QED BY <2>1, <2>2
<1>8. \A j \in Verified : byTask'[task[j]] = j
  <2> SUFFICES ASSUME NEW j \in Verified PROVE byTask'[task[j]] = j
    OBVIOUS
  <2>1. task[j] \in Tasks /\ j \in Ids
    BY <1>2, <1>6
  <2>2. byTask'[task[j]] = CHOOSE k \in Verified : task[k] = task[j]
    BY <1>1, <2>1
  <2>3. byTask'[task[j]] \in Verified /\ task[byTask'[task[j]]] = task[j]
    BY Zenon, <2>2
  <2> QED BY <1>2, <2>1, <2>3 DEF Exclusive
<1>9. TypeOK'
  <2>1. byTask' \in [Tasks -> Ids \cup {None}]
    <3>1. \A t \in Tasks : byTask'[t] \in Ids \cup {None}
      BY Zenon, <1>2, <1>7
    <3> QED BY <1>1, <3>1
  <2> QED BY Zenon, <1>1, <1>3, <1>4, <1>5, <2>1 DEF TypeOK
<1>10. Bindings'
  BY ZenonT(60), <1>1, <1>2, <1>3, <1>4, <1>6 DEF Bindings
<1>11. RosterIsDurable'
  BY <1>1, <1>2, <1>3, <1>7, <1>8 DEF RosterIsDurable
<1>12. Exclusive'
  BY Zenon, <1>1, <1>2, <1>3 DEF Exclusive
<1>13. Down' /\ BootKeepsEntry' /\ BootOwner' /\ Working' /\ Joining' /\ BootingVM'
  BY Zenon, <1>1 DEF Down, BootKeepsEntry, BootOwner, Working, Joining, BootingVM, BootStages
<1>14. BootedIsRecorded' /\ NoStrandedVM' /\ NoDanglingControls'
  BY <1>1 DEF Down, BootedIsRecorded, NoStrandedVM, NoDanglingControls
<1>15. GoneEndsTerminal'
  <2>1. \A j \in Ids : j \notin Registered
    BY <1>1, NoneAssumption DEF Down, Registered
  <2> QED BY ZenonT(60), <1>2, <1>3, <1>4, <2>1 DEF GoneEndsTerminal, Gone
<1> QED BY Zenon, <1>9, <1>10, <1>11, <1>12, <1>13, <1>14, <1>15

(* A start that fails on the way has discarded some rows, each with its     *)
(* terminal event, and may have ended one trail whose row is still there.   *)
LEMMA RehydrateFailsStep ==
  ASSUME IInv, NEW gone \in SUBSET Claims, NEW i \in Ids, NEW step, RehydrateFails(gone, i, step)
  PROVE  IInv'
<1> USE DEF IInv
<1>1. /\ ~up /\ up' = up /\ crashes' \in Nat /\ i \notin gone
      /\ rows' = RowsSet(gone, "none")
      /\ UNCHANGED <<byTask, task, worktree, state, booted, dead, boot, vm, dirs, wired, lost,
                     pc, on, issued>>
  BY DEF RehydrateFails, registry, backend, control, TypeOK
<1>2. gone \cup {i} \subseteq Ids /\ \A j \in gone \cup {i} : rows[j] # "none"
  BY DEF RehydrateFails, Claims
<1>3. /\ rows' \in [Ids -> States \cup {"none"}]
      /\ \A j \in Ids : rows'[j] = IF j \in gone THEN "none" ELSE rows[j]
  BY <1>1, RowsSetFacts
<1>4. PICK S : gone \subseteq S /\ S \subseteq gone \cup {i} /\ trail' = Append1(S, "killed")
  BY DEF RehydrateFails
<1>5. /\ trail' \in [Ids -> Seq(Events)]
      /\ \A j \in Ids : /\ j \notin S => trail'[j] = trail[j]
                        /\ j \in S => trail'[j] # <<>> /\ Ended(trail'[j])
  <2>1. "killed" \in Events /\ "killed" \in Terminal
    BY FirstTrails
  <2> QED BY <1>4, <2>1, Append1Facts
<1>6. Registered' = Registered
  BY Zenon, <1>1 DEF Registered
<1>7. TypeOK'
  BY Zenon, <1>1, <1>3, <1>5 DEF TypeOK
<1>8. Bindings'
  <2>1. \A j \in S : task[j] # None /\ trail[j] # <<>>
    BY Zenon, <1>2, <1>4 DEF Bindings
  <2> QED BY Zenon, <1>1, <1>3, <1>5, <2>1 DEF Bindings
<1>9. RosterIsDurable' /\ Exclusive' /\ Down'
  BY Zenon, <1>1, <1>3 DEF RosterIsDurable, Exclusive, Down
<1>10. BootKeepsEntry' /\ BootOwner' /\ Working' /\ Joining' /\ BootingVM'
  BY Zenon, <1>1, <1>6 DEF BootKeepsEntry, BootOwner, Working, Joining, BootingVM
<1>11. BootedIsRecorded' /\ NoStrandedVM' /\ NoDanglingControls'
  BY Zenon, <1>1, <1>6 DEF Down, BootedIsRecorded, NoStrandedVM, NoDanglingControls
<1>12. GoneEndsTerminal'
  BY Zenon, <1>2, <1>3, <1>4, <1>5, <1>6 DEF GoneEndsTerminal, Gone
<1> QED BY Zenon, <1>7, <1>8, <1>9, <1>10, <1>11, <1>12

-----------------------------------------------------------------------------
(* The invariant holds at the start and is kept by every step *)

(* The first daemon starts on an empty registry.                            *)
LEMMA InitIInv == Init => IInv
<1> SUFFICES ASSUME Init PROVE IInv
  OBVIOUS
<1> USE DEF Init
<1>1. TypeOK
  <2>1. [i \in Ids |-> <<>>] \in [Ids -> Seq(Events)]
    OBVIOUS
  <2> QED BY <2>1 DEF TypeOK, Stages
<1>2. Bindings /\ RosterIsDurable /\ Exclusive /\ Down
  BY DEF Bindings, RosterIsDurable, Exclusive, Down
<1>3. BootKeepsEntry /\ BootOwner /\ Working /\ Joining /\ BootingVM
  BY DEF BootKeepsEntry, BootOwner, Working, Joining, BootingVM, BootStages
<1>4. BootedIsRecorded /\ NoStrandedVM /\ NoDanglingControls /\ GoneEndsTerminal
  BY DEF BootedIsRecorded, NoStrandedVM, NoDanglingControls, GoneEndsTerminal, Gone
<1> QED BY <1>1, <1>2, <1>3, <1>4 DEF IInv

(* Giving up a wait, and a command that returns, only move a handler.       *)
LEMMA ReturnStep ==
  ASSUME IInv, NEW h \in Handlers, GiveUp(h) \/ ExecReturns(h)
  PROVE  IInv'
<1>1. /\ up /\ pc[h] \notin BootStages /\ pc[h] # "idle" /\ up' = up
      /\ issued' \in Nat /\ crashes' \in Nat
      /\ UNCHANGED <<registry, durable, backend>>
  BY DEF IInv, GiveUp, ExecReturns, NoIssue, bounds, BootStages, TypeOK
<1>2. on[h] \in Ids /\ task[on[h]] # None
  BY <1>1 DEF IInv, Working
<1>3. /\ "idle" \in Stages \ BootStages /\ "lost" \in Stages \ BootStages
  BY DEF Stages, BootStages
<1>4. CASE Goto(h, "idle", None)
  BY <1>1, <1>3, <1>4, HandlerMoves
<1>5. CASE Goto(h, "lost", on[h])
  BY Zenon, <1>1, <1>2, <1>3, <1>5, HandlerMoves
<1> QED BY <1>4, <1>5 DEF GiveUp, ExecReturns, Finish

(* The invariant is inductive.                                              *)
LEMMA NextIInv == IInv /\ [Next]_vars => IInv'
<1> SUFFICES ASSUME IInv, [Next]_vars PROVE IInv'
  OBVIOUS
<1>1. CASE \E t \in Tasks, w \in Worktrees, i \in Ids, o \in RegisterOutcomes : Register(t, w, i, o)
  BY <1>1, RegisterStep
<1>2. CASE \E h \in Handlers, t \in Tasks : Exec(h, t)
  BY <1>2, ExecStep
<1>3. CASE \E h \in Handlers, t \in Tasks : Remove(h, t) \/ Land(h, t)
  BY <1>3, RemoveLandStep
<1>4. CASE \E h \in Handlers : GiveUp(h) \/ ExecReturns(h)
  BY <1>4, ReturnStep
<1>5. CASE \E h \in Handlers : Launch(h) \/ WireControls(h)
  BY <1>5, LaunchStep, WireStep
<1>6. CASE \E h \in Handlers : SettleFailed(h) \/ SettleBooted(h)
  BY <1>6, SettleFailedStep, SettleBootedStep
<1>7. CASE \E h \in Handlers : noteExecFailure(h) \/ Resume(h)
  BY <1>7, NoteStep, ResumeStep
<1>8. CASE \E i \in Ids : GuestDies(i)
  BY <1>8, GuestDiesStep
<1>9. CASE \E done, bad \in SUBSET Registered, step \in TeardownSteps \cup {"none"} :
             Sweep(done, bad, step) /\ ReapExpired(done, bad, step)
  BY <1>9, ReapStep
<1>10. CASE \E done, bad \in SUBSET booted, step \in SuspendSteps \cup {"none"} :
              Sweep(done, bad, step) /\ SuspendIdle(done, bad, step)
  BY <1>10, SuspendStep
<1>11. CASE Crash \/ Rehydrate
  BY <1>11, CrashStep, RehydrateStep
<1>12. CASE \E gone \in SUBSET Claims, i \in Ids, step \in {"audit", "drop"} :
              RehydrateFails(gone, i, step)
  BY <1>12, RehydrateFailsStep
<1>13. CASE UNCHANGED vars
  <2> USE <1>13 DEF vars, registry, durable, backend, control, bounds
  <2>1. TypeOK' /\ Bindings' /\ RosterIsDurable' /\ Exclusive' /\ Down'
    BY DEF IInv, TypeOK, Bindings, RosterIsDurable, Exclusive, Down
  <2>2. Registered' = Registered
    BY DEF Registered
  <2>3. BootKeepsEntry' /\ BootOwner' /\ Working' /\ Joining' /\ BootingVM'
    BY ZenonT(60), <2>2 DEF IInv, BootKeepsEntry, BootOwner, Working, Joining, BootingVM
  <2>4. BootedIsRecorded' /\ NoStrandedVM' /\ NoDanglingControls' /\ GoneEndsTerminal'
    BY Zenon, <2>2 DEF IInv, BootedIsRecorded, NoStrandedVM, NoDanglingControls,
       GoneEndsTerminal, Gone
  <2> QED BY Zenon, <2>1, <2>3, <2>4 DEF IInv
<1> QED BY Zenon, <1>1, <1>2, <1>3, <1>4, <1>5, <1>6, <1>7, <1>8, <1>9, <1>10, <1>11,
           <1>12, <1>13 DEF Next

(* The inductive invariant holds in every reachable state.                  *)
LEMMA Invariance == Spec => []IInv
BY InitIInv, NextIInv, PTL DEF Spec

-----------------------------------------------------------------------------
(* The theorems *)

(* Every variable of the service keeps its type.                            *)
THEOREM TypeCorrect == Spec => []TypeOK
<1>1. IInv => TypeOK
  BY DEF IInv
<1> QED BY <1>1, Invariance, PTL

(* The working set of a serving daemon and the durable registry name the    *)
(* same sandboxes under the same tasks.                                     *)
THEOREM RosterStaysDurable == Spec => []RosterIsDurable
<1>1. IInv => RosterIsDurable
  BY DEF IInv
<1> QED BY <1>1, Invariance, PTL

(* One sandbox per task and one per worktree, over any number of daemons.   *)
THEOREM AlwaysExclusive == Spec => []Exclusive
<1>1. IInv => Exclusive
  BY DEF IInv
<1> QED BY <1>1, Invariance, PTL

(* A boot in flight, which runs outside the lock, keeps its registration    *)
(* and is the only boot of its sandbox.                                     *)
THEOREM BootsKeepTheirEntry == Spec => []BootKeepsEntry
<1>1. IInv => BootKeepsEntry
  BY Zenon DEF IInv
<1> QED BY <1>1, Invariance, PTL

(* A command that joined a boot always has a handler running that boot.     *)
THEOREM JoinersAreServed == Spec => []JoinersHaveOwner
<1>1. IInv => JoinersHaveOwner
  <2> SUFFICES ASSUME IInv, NEW h \in Handlers, pc[h] = "join"
               PROVE  /\ boot[on[h]] # None
                      /\ pc[boot[on[h]]] \in BootStages /\ on[boot[on[h]]] = on[h]
    BY DEF JoinersHaveOwner
  <2>1. on[h] \in Ids /\ boot[on[h]] # None
    BY DEF IInv, Working, Joining
  <2> QED BY <2>1 DEF IInv, BootOwner
<1> QED BY <1>1, Invariance, PTL

(* A running VM belongs to a registered sandbox that is booted or is being  *)
(* booted right now.                                                        *)
THEOREM NoVMIsStranded == Spec => []NoStrandedVM
<1>1. IInv => NoStrandedVM
  BY DEF IInv
<1> QED BY <1>1, Invariance, PTL

(* What counts as booted is recorded as having a VM.                        *)
THEOREM BootedStaysRecorded == Spec => []BootedIsRecorded
<1>1. IInv => BootedIsRecorded
  BY DEF IInv
<1> QED BY <1>1, Invariance, PTL

(* Host egress and published ports serve running VMs only.                  *)
THEOREM ControlsNeverDangle == Spec => []NoDanglingControls
<1>1. IInv => NoDanglingControls
  BY DEF IInv
<1> QED BY <1>1, Invariance, PTL

(* A sandbox that is gone has a terminal event last in its trail, unless    *)
(* its registration failed while being recorded.                            *)
THEOREM GoneHasEnded == Spec => []GoneEndsTerminal
<1>1. IInv => GoneEndsTerminal
  BY DEF IInv
<1> QED BY <1>1, Invariance, PTL

(* Everything the runs check of a state of the service holds of every       *)
(* reachable one, for any number of handlers, sandboxes, tasks and faults.  *)
THEOREM ServiceStaysSafe == Spec => []ServiceIsSafe
BY TypeCorrect, RosterStaysDurable, AlwaysExclusive, BootsKeepTheirEntry, JoinersAreServed,
   NoVMIsStranded, BootedStaysRecorded, ControlsNeverDangle, GoneHasEnded, PTL DEF ServiceIsSafe

-----------------------------------------------------------------------------
(* Gone is final *)

(* What one step may not do to a sandbox that is gone.                      *)
LeavesGone ==
  \A i \in Ids : Gone(i) => /\ trail'[i] = trail[i] /\ rows'[i] = "none" /\ i \notin Registered'

(* A step that touches neither the map nor the durable state.               *)
LEMMA GoneUntouched ==
  ASSUME UNCHANGED <<byTask, rows, trail>>
  PROVE  LeavesGone
BY DEF LeavesGone, Gone, Registered

(* A step that changes rows and trails of registered sandboxes only, and    *)
(* registers nobody.                                                        *)
LEMMA GoneUnregistered ==
  ASSUME \A j \in Ids : j \notin Registered =>
           j \notin Registered' /\ rows'[j] = rows[j] /\ trail'[j] = trail[j]
  PROVE  LeavesGone
BY ZenonT(60) DEF LeavesGone, Gone

(* A teardown touches registered sandboxes only.                            *)
LEMMA GoneTeardown ==
  ASSUME IInv, NEW done \in SUBSET Registered, NEW bad \in SUBSET Registered,
         NEW pre \in Seq(Events), NEW ev \in Terminal, NEW step,
         TornDown(done, bad, pre, ev, step)
  PROVE  LeavesGone
<1>1. RosterEffect(done, bad)
  BY Zenon, TornDownFacts
<1>2. \A j \in Ids : j \notin done \cup bad => trail'[j] = trail[j]
  BY Zenon, TeardownTrails DEF TornDown, IInv
<1>3. \A j \in Ids : /\ rows'[j] = IF j \in done THEN "none" ELSE rows[j]
                     /\ j \in Registered' <=> j \in Registered /\ j \notin done
  BY Zenon, <1>1 DEF RosterEffect
<1> QED BY <1>2, <1>3, GoneUnregistered

(* Remove, Land and the woken Resume tear down a registered sandbox, wait,  *)
(* or find nothing.                                                         *)
LEMMA GoneRemoveLand ==
  ASSUME IInv, NEW h \in Handlers,
         (\E t \in Tasks : Remove(h, t) \/ Land(h, t)) \/ Resume(h)
  PROVE  LeavesGone
<1>1. CASE UNCHANGED <<registry, durable, backend>>
  BY <1>1, GoneUntouched DEF registry, durable
<1>2. CASE \E i \in Registered : RemoveLocked(i) \/ LandLocked(i)
  <2>1. PICK done \in SUBSET Registered, bad \in SUBSET Registered, pre \in Seq(Events),
             ev \in Terminal, step \in TeardownSteps \cup {"none"} :
             TornDown(done, bad, pre, ev, step)
    BY Zenon, <1>2, LockedTearsDown
  <2> QED BY <2>1, GoneTeardown
<1>3. \A t \in Tasks : byTask[t] # None => byTask[t] \in Registered
  BY ZenonT(60) DEF IInv, TypeOK, Registered
<1>4. CASE Resume(h)
  <2>1. task[on[h]] \in Tasks
    BY <1>4 DEF Resume, IInv, Working, TypeOK
  <2> QED BY Zenon, <1>1, <1>2, <1>3, <1>4, <2>1 DEF Resume
<1> QED BY <1>1, <1>2, <1>3, <1>4 DEF Remove, Land, Await

(* Rehydrate discards rows and adopts rows; a sandbox without a row is left *)
(* alone.                                                                   *)
LEMMA GoneRehydrate ==
  ASSUME IInv, Rehydrate
  PROVE  LeavesGone
<1>1. /\ trail' = Append1(Claims, "killed") /\ rows' = RowsSet(Claims, "none")
      /\ byTask' = [t \in Tasks |->
                      IF \E i \in Verified : task[i] = t
                      THEN CHOOSE i \in Verified : task[i] = t ELSE None]
  BY DEF Rehydrate
<1>2. \A j \in Ids : rows[j] = "none" => j \notin Claims /\ j \notin Verified
  BY DEF Claims, Verified
<1>3. \A t \in Tasks : byTask'[t] \in Verified \cup {None}
  <2> SUFFICES ASSUME NEW t \in Tasks PROVE byTask'[t] \in Verified \cup {None}
    OBVIOUS
  <2>1. CASE \E i \in Verified : task[i] = t
    <3>1. byTask'[t] = CHOOSE i \in Verified : task[i] = t
      BY <1>1, <2>1
    <3> QED BY <2>1, <3>1
  <2>2. CASE ~\E i \in Verified : task[i] = t
    BY <1>1, <2>2
  <2> QED BY <2>1, <2>2
<1>4. \A j \in Ids : j \notin Verified => j \notin Registered'
  BY Zenon, <1>3, NoneAssumption DEF Registered
<1>5. \A j \in Ids : j \notin Claims => trail'[j] = trail[j]
  <2>1. "killed" \in Events
    BY Zenon, FirstTrails
  <2> QED BY <1>1, <2>1, Append1Facts DEF IInv
<1>6. \A j \in Ids : rows'[j] = IF j \in Claims THEN "none" ELSE rows[j]
  BY <1>1, RowsSetFacts DEF IInv
<1> QED BY Zenon, <1>2, <1>4, <1>5, <1>6 DEF LeavesGone, Gone

(* So is it by a start that fails.                                          *)
LEMMA GoneRehydrateFails ==
  ASSUME IInv, NEW gone \in SUBSET Claims, NEW i \in Ids, NEW step, RehydrateFails(gone, i, step)
  PROVE  LeavesGone
<1>1. \A j \in gone \cup {i} : rows[j] # "none"
  BY DEF RehydrateFails, Claims
<1>2. PICK S : S \subseteq gone \cup {i} /\ trail' = Append1(S, "killed")
  BY Zenon DEF RehydrateFails
<1>3. \A j \in Ids : j \notin S => trail'[j] = trail[j]
  <2>1. "killed" \in Events
    BY Zenon, FirstTrails
  <2> QED BY <1>2, <2>1, Append1Facts DEF IInv
<1>4. /\ \A j \in Ids : rows'[j] = IF j \in gone THEN "none" ELSE rows[j]
      /\ byTask' = byTask
  BY RowsSetFacts DEF IInv, RehydrateFails, registry
<1> QED BY Zenon, <1>1, <1>2, <1>3, <1>4 DEF LeavesGone, Gone, Registered

(* A record of a boot or of a death is about a registered sandbox.          *)
LEMMA GoneRecord ==
  ASSUME IInv, NEW h \in Handlers, SettleBooted(h) \/ noteExecFailure(h)
  PROVE  LeavesGone
<1>1. ASSUME NEW i \in Registered, NEW e \in Events,
             trail' = trail \/ trail' = Append1({i}, e),
             \A j \in Ids : j # i => rows'[j] = rows[j],
             byTask' = byTask
      PROVE  LeavesGone
  <2>1. \A j \in Ids : j # i => trail'[j] = trail[j]
    <3>1. i \in Ids /\ TypeOK
      BY DEF IInv, Registered
    <3>2. \A j \in Ids : j # i => Append1({i}, e)[j] = trail[j]
      BY ZenonT(60), <3>1, AppendOne
    <3> QED BY <1>1, <3>2
  <2> QED BY Zenon, <1>1, <2>1, GoneUnregistered DEF Registered
<1>2. CASE SettleBooted(h)
  <2>1. on[h] \in Registered
    BY Zenon, <1>2, OwnerFacts DEF SettleBooted, BootStages
  <2>2. "resumed" \in Events
    BY Zenon DEF Events
  <2>3. \A j \in Ids : j # on[h] => rows'[j] = rows[j]
    <3>1. rows' = rows \/ rows' = RowsSet({on[h]}, "running")
      BY <1>2 DEF SettleBooted
    <3>2. "running" \in States
      BY Zenon DEF States
    <3> QED BY SMT, Z3, <3>1, <3>2, RowsSetFacts DEF IInv
  <2>4. (trail' = trail \/ trail' = Append1({on[h]}, "resumed")) /\ byTask' = byTask
    BY <1>2 DEF SettleBooted
  <2> QED BY <1>1, <2>1, <2>2, <2>3, <2>4
<1>3. CASE noteExecFailure(h)
  <2> DEFINE i == byTask[task[on[h]]]
  <2>1. CASE UNCHANGED <<trail, rows>>
    BY Zenon, <1>3, <2>1, GoneUntouched DEF noteExecFailure
  <2>2. CASE /\ i \in booted
             /\ trail' = Append1({i}, "guest_died")
             /\ rows' = rows \/ rows' = RowsSet({i}, "dead")
    <3>1. i \in Registered
      BY <2>2 DEF IInv, BootedIsRecorded
    <3>2. "guest_died" \in Events /\ "dead" \in States
      BY Zenon DEF Events, States
    <3>3. \A j \in Ids : j # i => rows'[j] = rows[j]
      BY <2>2, <3>2, RowsSetFacts DEF IInv
    <3>4. byTask' = byTask
      BY Zenon, <1>3 DEF noteExecFailure
    <3> HIDE DEF i
    <3> QED BY ZenonT(60), <1>1, <2>2, <3>1, <3>2, <3>3, <3>4
  <2> QED BY ZenonT(60), <1>3, <2>1, <2>2 DEF noteExecFailure
<1> QED BY Zenon, <1>2, <1>3

(* No step of the service touches a sandbox that is gone.                   *)
LEMMA GoneStep == IInv /\ [Next]_vars => LeavesGone
<1> SUFFICES ASSUME IInv, [Next]_vars PROVE LeavesGone
  BY Zenon
<1>1. CASE \E t \in Tasks, w \in Worktrees, i \in Ids, o \in RegisterOutcomes : Register(t, w, i, o)
  <2>1. PICK t \in Tasks, w \in Worktrees, i \in Ids, o \in RegisterOutcomes : Register(t, w, i, o)
    BY Zenon, <1>1
  <2>2. /\ trail[i] = <<>>
        /\ \A j \in Ids : j # i => trail'[j] = trail[j] /\ rows'[j] = rows[j]
        /\ \A u \in Tasks : byTask'[u] = byTask[u] \/ byTask'[u] = i
    BY <2>1 DEF Register, IInv, TypeOK
  <2> QED BY Zenon, <2>2 DEF LeavesGone, Gone, Registered
<1>2. CASE \E h \in Handlers : \/ \E t \in Tasks : Exec(h, t)
                               \/ GiveUp(h) \/ ExecReturns(h) \/ Launch(h) \/ WireControls(h)
                               \/ SettleFailed(h)
  BY Zenon, <1>2, GoneUntouched DEF Exec, GiveUp, ExecReturns, Launch, WireControls, SettleFailed,
     registry, durable
<1>3. CASE \E h \in Handlers : (\E t \in Tasks : Remove(h, t) \/ Land(h, t)) \/ Resume(h)
  BY <1>3, GoneRemoveLand
<1>4. CASE \E h \in Handlers : SettleBooted(h) \/ noteExecFailure(h)
  BY Zenon, <1>4, GoneRecord
<1>5. CASE \E i \in Ids : GuestDies(i)
  BY <1>5, GoneUntouched DEF GuestDies, registry, durable
<1>6. CASE \E done, bad \in SUBSET Registered, step \in TeardownSteps \cup {"none"} :
             Sweep(done, bad, step) /\ ReapExpired(done, bad, step)
  <2>1. PICK done \in SUBSET Registered, bad \in SUBSET Registered,
             step \in TeardownSteps \cup {"none"} : ReapExpired(done, bad, step)
    BY Zenon, <1>6
  <2>2. TornDown(done, bad, <<>>, "ttl_expired", step)
    BY <2>1 DEF ReapExpired, Forget, TypeOK, TornDown, IInv
  <2>3. <<>> \in Seq(Events) /\ "ttl_expired" \in Terminal
    BY FirstTrails
  <2> QED BY ZenonT(60), <2>2, <2>3, GoneTeardown
<1>7. CASE \E done, bad \in SUBSET booted, step \in SuspendSteps \cup {"none"} :
             Sweep(done, bad, step) /\ SuspendIdle(done, bad, step)
  <2>1. PICK done \in SUBSET booted, bad \in SUBSET booted,
             step \in SuspendSteps \cup {"none"} : SuspendIdle(done, bad, step)
    BY <1>7
  <2>2. PICK S : S \subseteq done \cup bad /\ trail' = Append1(S, "suspended")
    BY Zenon, <2>1 DEF SuspendIdle
  <2>3. \A j \in Ids : j \notin booted => trail'[j] = trail[j]
    <3>1. "suspended" \in Events
      BY Zenon DEF Events
    <3> QED BY <2>2, <3>1, Append1Facts DEF IInv
  <2>4. \A j \in Ids : j \notin booted => rows'[j] = rows[j]
    <3>1. "suspended" \in States /\ rows' = RowsSet(done, "suspended")
      BY Zenon, <2>1 DEF States, SuspendIdle
    <3> QED BY <3>1, RowsSetFacts DEF IInv
  <2>5. byTask' = byTask /\ booted \subseteq Registered
    BY Zenon, <2>1 DEF SuspendIdle, IInv, BootedIsRecorded
  <2> QED BY Zenon, <2>3, <2>4, <2>5, GoneUnregistered DEF Registered
<1>8. CASE Crash
  <2>1. UNCHANGED <<rows, trail>> /\ \A t \in Tasks : byTask'[t] = None
    BY <1>8 DEF Crash, durable
  <2> QED BY <2>1, NoneAssumption DEF LeavesGone, Gone, Registered
<1>9. CASE Rehydrate
  BY <1>9, GoneRehydrate
<1>10. CASE \E gone \in SUBSET Claims, i \in Ids, step \in {"audit", "drop"} :
              RehydrateFails(gone, i, step)
  BY <1>10, GoneRehydrateFails
<1>11. CASE UNCHANGED vars
  BY <1>11, GoneUntouched DEF vars, registry, durable
<1> QED BY Zenon, <1>1, <1>2, <1>3, <1>4, <1>5, <1>6, <1>7, <1>8, <1>9, <1>10, <1>11 DEF Next

(* Once a sandbox has no row and no registration, no late boot, command or  *)
(* sweep adds to its trail, brings back its row or starts its VM.           *)
THEOREM GoneStaysGone == Spec => GoneIsFinal
<1> DEFINE A == \A i \in Ids : Gone(i) => /\ trail'[i] = trail[i] /\ rows'[i] = "none"
                                          /\ i \notin Registered' /\ vm'[i] # "running"
<1>1. IInv /\ IInv' /\ [Next]_vars => A
  BY GoneStep DEF LeavesGone, IInv, NoStrandedVM
<1>2. IInv /\ IInv' /\ [Next]_vars => [A]_vars
  BY <1>1
<1> QED BY <1>2, Invariance, PTL DEF Spec, GoneIsFinal

-----------------------------------------------------------------------------
(* Dead is for ever *)

(* A sandbox marked dead has a row that says so, or that the idle sweep      *)
(* wrote since, and no boot in flight.                                       *)
DeadRecorded == \A i \in dead : rows[i] \in {"dead", "suspended"} /\ boot[i] = None

(* What one step may not do to the dead.                                     *)
LeavesDead ==
  \A i \in Ids : Dead(i) => /\ Dead(i)' \/ rows'[i] = "none"
                            /\ boot'[i] = None
                            /\ \A h \in Handlers :
                                 on'[h] = i /\ pc'[h] = "exec" => pc[h] = "exec"

(* What a step of a serving daemon has to keep: the dead keep their mark or  *)
(* lose their row, and whoever dies has a row that says so and no boot.      *)
LEMMA DeadKept ==
  ASSUME TypeOK, TypeOK', DeadRecorded, up, up',
         \A i \in dead : /\ i \in dead' \/ rows'[i] = "none"
                         /\ i \in dead' => rows'[i] \in {rows[i], "suspended"}
                         /\ boot'[i] = boot[i]
                         /\ \A h \in Handlers :
                              on'[h] = i /\ pc'[h] = "exec" => pc[h] = "exec",
         \A i \in dead' : i \notin dead => rows'[i] = "dead" /\ boot'[i] = None
  PROVE  DeadRecorded' /\ LeavesDead
<1>1. DeadRecorded'
  BY Zenon DEF DeadRecorded
<1>2. LeavesDead
  BY Zenon DEF LeavesDead, Dead, DeadRecorded
<1> QED BY Zenon, <1>1, <1>2

(* Steps that mark nobody, touch no row and begin no command.                *)
LEMMA DeadUntouched ==
  ASSUME TypeOK, TypeOK', DeadRecorded, up, up', UNCHANGED <<dead, rows>>,
         \A i \in dead : boot'[i] = boot[i],
         \A h \in Handlers : pc'[h] = "exec" => on'[h] \notin dead \/ pc[h] = "exec"
  PROVE  DeadRecorded' /\ LeavesDead
BY DeadKept

(* A registration takes an ID without a row.                                 *)
LEMMA DeadRegister ==
  ASSUME IInv, IInv', DeadRecorded,
         NEW t \in Tasks, NEW w \in Worktrees, NEW i \in Ids, NEW o \in RegisterOutcomes,
         Register(t, w, i, o)
  PROVE  DeadRecorded' /\ LeavesDead
<1>1. up /\ up' /\ trail[i] = <<>> /\ UNCHANGED <<dead, boot, pc, on>>
  BY ZenonT(60) DEF Register, Issue, control
<1>2. rows[i] = "none"
  BY <1>1 DEF IInv, Bindings
<1>3. i \notin dead
  BY ZenonT(60), <1>2 DEF DeadRecorded
<1>4. \A j \in Ids : j # i => rows'[j] = rows[j]
  BY DEF Register, IInv, TypeOK
<1> QED BY ZenonT(60), <1>1, <1>3, <1>4, DeadKept DEF IInv, TypeOK

(* Commands are given to sandboxes that are not dead.                        *)
LEMMA DeadExec ==
  ASSUME IInv, IInv', DeadRecorded, NEW h \in Handlers, NEW t \in Tasks, Exec(h, t)
  PROVE  DeadRecorded' /\ LeavesDead
<1> DEFINE i == byTask[t]
<1>1. up /\ up' /\ i \notin dead /\ i \in Ids /\ UNCHANGED <<dead, rows>>
  BY DEF Exec, Issue, durable, IInv, TypeOK
<1>2. PICK stage \in Stages : Goto(h, stage, i)
  BY Zenon DEF Exec, Stages
<1>3. \A g \in Handlers : g # h => pc'[g] = pc[g] /\ on'[g] = on[g]
  BY Zenon, <1>2 DEF Goto, IInv, TypeOK
<1>4. on'[h] = i
  BY ZenonT(60), <1>2 DEF Goto, IInv, TypeOK
<1>5. \A j \in dead : boot'[j] = boot[j]
  <2>1. boot' = boot \/ boot' = [boot EXCEPT ![i] = h]
    BY ZenonT(60) DEF Exec
  <2> QED BY <1>1, <2>1 DEF IInv, TypeOK
<1> HIDE DEF i
<1>6. \A g \in Handlers : pc'[g] = "exec" => on'[g] \notin dead \/ pc[g] = "exec"
  BY ZenonT(60), <1>1, <1>3, <1>4
<1> QED BY ZenonT(60), <1>1, <1>5, <1>6, DeadUntouched DEF IInv

(* A handler that begins no command, in a step that leaves the registry and  *)
(* the rows alone.                                                           *)
LEMMA DeadMoves ==
  ASSUME IInv, IInv', DeadRecorded, up, up', UNCHANGED <<dead, rows, boot>>,
         NEW h \in Handlers, NEW stage \in Stages, NEW i, Goto(h, stage, i), stage # "exec"
  PROVE  DeadRecorded' /\ LeavesDead
<1>1. \A g \in Handlers : pc'[g] = IF g = h THEN stage ELSE pc[g]
  BY DEF Goto, IInv, TypeOK
<1> QED BY ZenonT(60), <1>1, DeadUntouched DEF IInv

(* A boot that settles is of a sandbox that is not dead, and only its party  *)
(* begins commands.                                                          *)
LEMMA DeadSettle ==
  ASSUME IInv, IInv', DeadRecorded, NEW h \in Handlers, SettleFailed(h) \/ SettleBooted(h)
  PROVE  DeadRecorded' /\ LeavesDead
<1>1. /\ up /\ up' /\ dead' = dead /\ pc[h] \in BootStages
      /\ \E stage \in {"idle", "exec"} : Release(on[h], stage)
  BY SettleFacts
<1>2. PICK stage \in {"idle", "exec"} : Release(on[h], stage)
  BY <1>1
<1>3. on[h] \in Ids /\ boot[on[h]] = h
  BY ZenonT(60), <1>1 DEF IInv, BootKeepsEntry, Registered
<1>4. on[h] \notin dead
  BY <1>3, NoneAssumption DEF DeadRecorded
<1>5. \A j \in Ids : j # on[h] => rows'[j] = rows[j]
  <2>1. rows' = rows \/ rows' = RowsSet({on[h]}, "running")
    BY DEF SettleFailed, SettleBooted, durable
  <2>2. "running" \in States
    BY ZenonT(60) DEF States
  <2> QED BY SMT, Z3, <2>1, <2>2, RowsSetFacts DEF IInv
<1>6. \A j \in dead : boot'[j] = boot[j]
  BY <1>2, <1>4 DEF Release, IInv, TypeOK
<1>7. \A g \in Handlers : on[g] # on[h] => pc'[g] = pc[g] /\ on'[g] = on[g]
  BY ZenonT(60), <1>2 DEF Release
<1>8. \A g \in Handlers : on'[g] \in {on[g], None}
  BY ZenonT(60), <1>2 DEF Release
<1>9. \A g \in Handlers, j \in dead : on'[g] = j /\ pc'[g] = "exec" => pc[g] = "exec"
  <2> SUFFICES ASSUME NEW g \in Handlers, NEW j \in dead, on'[g] = j, pc'[g] = "exec"
               PROVE  pc[g] = "exec"
    BY Zenon
  <2>1. j # None
    BY ZenonT(60), NoneAssumption DEF IInv, TypeOK
  <2>2. on[g] = j
    BY <1>8, <2>1
  <2> QED BY Zenon, <1>4, <1>7, <2>2
<1> QED BY ZenonT(60), <1>1, <1>4, <1>5, <1>6, <1>9, DeadKept DEF IInv, TypeOK

(* A sandbox is marked dead once its row says so, and a booted one has no    *)
(* boot in flight.                                                           *)
LEMMA DeadNote ==
  ASSUME IInv, IInv', DeadRecorded, NEW h \in Handlers, noteExecFailure(h)
  PROVE  DeadRecorded' /\ LeavesDead
<1> DEFINE i == byTask[task[on[h]]]
<1>1. up /\ up' /\ boot' = boot /\ Goto(h, "idle", None)
  BY Zenon DEF noteExecFailure, NoIssue, Finish
<1>2. CASE UNCHANGED <<rows, dead>>
  BY <1>1, <1>2, DeadMoves DEF Stages
<1>3. CASE i \in booted \ dead /\ rows' = RowsSet({i}, "dead") /\ dead' = dead \cup {i}
  <2>1. i \in Ids /\ i \notin dead /\ i \in booted
    BY Zenon, <1>3 DEF IInv, TypeOK
  <2>2. boot[i] = None
    BY <2>1 DEF IInv, BootOwner, BootKeepsEntry, TypeOK
  <2>3. \A j \in Ids : rows'[j] = IF j \in {i} THEN "dead" ELSE rows[j]
    BY Zenon, <1>3, DeadWritten DEF IInv
  <2>4. \A g \in Handlers : pc'[g] = "exec" => pc[g] = "exec"
    BY ZenonT(60), <1>1 DEF Goto, IInv, TypeOK
  <2>5. dead' = dead \cup {i}
    BY <1>3
  <2> HIDE DEF i
  <2> QED BY ZenonT(60), <1>1, <2>1, <2>2, <2>3, <2>4, <2>5, DeadKept DEF IInv, TypeOK
<1> QED BY Zenon, <1>2, <1>3 DEF noteExecFailure

(* A teardown forgets a dead sandbox with its row, or leaves both.           *)
LEMMA DeadTeardown ==
  ASSUME IInv, IInv', DeadRecorded, up, up',
         NEW done \in SUBSET Registered, NEW bad \in SUBSET Registered,
         NEW pre \in Seq(Events), NEW ev \in Terminal, NEW step,
         TornDown(done, bad, pre, ev, step),
         \A g \in Handlers : pc'[g] = "exec" => pc[g] = "exec"
  PROVE  DeadRecorded' /\ LeavesDead
<1>1. \A j \in Ids : rows'[j] = IF j \in done THEN "none" ELSE rows[j]
  <2>1. RosterEffect(done, bad)
    BY Zenon, TornDownFacts
  <2> QED BY Zenon, <2>1 DEF RosterEffect
<1>2. dead' = dead \ done /\ boot' = boot
  BY ZenonT(60) DEF TornDown
<1> QED BY ZenonT(60), <1>1, <1>2, DeadKept DEF IInv, TypeOK

(* Remove, Land and Resume tear down, wait, or find nothing.                 *)
LEMMA DeadRemoveLand ==
  ASSUME IInv, IInv', DeadRecorded, NEW h \in Handlers,
         (\E t \in Tasks : Remove(h, t) \/ Land(h, t)) \/ Resume(h)
  PROVE  DeadRecorded' /\ LeavesDead
<1>1. up /\ up'
  BY RemovalsServe
<1>2. \A g \in Handlers : pc'[g] = "exec" => pc[g] = "exec"
  <2>1. UNCHANGED control \/ \E stage \in {"remove", "land", "idle"} : \E i : Goto(h, stage, i)
    BY Zenon DEF Remove, Land, Resume, Await, Finish
  <2>2. CASE UNCHANGED control
    BY <2>2 DEF control
  <2>3. CASE \E stage \in {"remove", "land", "idle"} : \E i : Goto(h, stage, i)
    BY ZenonT(60), <2>3 DEF Goto, IInv, TypeOK
  <2> QED BY ZenonT(60), <2>1, <2>2, <2>3
<1>3. CASE UNCHANGED <<registry, durable, backend>>
  BY <1>1, <1>2, <1>3, DeadUntouched DEF registry, durable, IInv
<1>4. CASE \E i \in Registered : RemoveLocked(i) \/ LandLocked(i)
  <2>1. PICK done \in SUBSET Registered, bad \in SUBSET Registered, pre \in Seq(Events),
             ev \in Terminal, step \in TeardownSteps \cup {"none"} :
             TornDown(done, bad, pre, ev, step)
    BY ZenonT(60), <1>4, LockedTearsDown
  <2> QED BY Zenon, <1>1, <1>2, <2>1, DeadTeardown
<1>5. \A t \in Tasks : byTask[t] # None => byTask[t] \in Registered
  BY DEF IInv, TypeOK, Registered
<1>6. CASE Resume(h)
  <2>1. task[on[h]] \in Tasks
    BY ZenonT(60), <1>6 DEF Resume, IInv, Working, TypeOK
  <2> QED BY ZenonT(60), <1>3, <1>4, <1>5, <1>6, <2>1 DEF Resume
<1> QED BY ZenonT(60), <1>3, <1>4, <1>5, <1>6 DEF Remove, Land, Await

(* The sweeps: one forgets, the other writes suspended over a dead row and   *)
(* leaves the mark.                                                          *)
LEMMA DeadSweep ==
  ASSUME IInv, IInv', DeadRecorded,
         NEW done, NEW bad, NEW step,
         \/ /\ done \in SUBSET Registered /\ bad \in SUBSET Registered
            /\ ReapExpired(done, bad, step)
         \/ done \in SUBSET booted /\ SuspendIdle(done, bad, step)
  PROVE  DeadRecorded' /\ LeavesDead
<1>1. up /\ up' /\ UNCHANGED <<pc, on>>
  BY Zenon, SweepsServe
<1>2. CASE /\ done \in SUBSET Registered /\ bad \in SUBSET Registered
           /\ ReapExpired(done, bad, step)
  <2>1. TornDown(done, bad, <<>>, "ttl_expired", step)
    BY Zenon, <1>2 DEF ReapExpired, Forget, TypeOK, TornDown, IInv
  <2>2. <<>> \in Seq(Events) /\ "ttl_expired" \in Terminal
    BY FirstTrails
  <2>3. \A g \in Handlers : pc'[g] = "exec" => pc[g] = "exec"
    BY <1>1
  <2> QED BY ZenonT(60), <1>1, <1>2, <2>1, <2>2, <2>3, DeadTeardown
<1>3. CASE SuspendIdle(done, bad, step)
  <2>1. "suspended" \in States /\ rows' = RowsSet(done, "suspended") /\ UNCHANGED <<dead, boot>>
    BY Zenon, <1>3 DEF States, SuspendIdle
  <2>2. \A j \in Ids : rows'[j] = IF j \in done THEN "suspended" ELSE rows[j]
    BY <2>1, RowsSetFacts DEF IInv
  <2> QED BY ZenonT(60), <1>1, <2>1, <2>2, DeadKept DEF IInv, TypeOK
<1> QED BY <1>2, <1>3

(* A crash forgets the mark and keeps the row; a restart that succeeds marks *)
(* the rows that say dead again and discards the suspended ones; one that    *)
(* fails discards some of those.                                             *)
LEMMA DeadRestart ==
  ASSUME IInv, IInv', DeadRecorded,
         \/ Crash
         \/ Rehydrate
         \/ \E gone \in SUBSET Claims, i \in Ids, step \in {"audit", "drop"} :
              RehydrateFails(gone, i, step)
  PROVE  DeadRecorded' /\ LeavesDead
<1>1. CASE Crash
  <2>1. ~up' /\ dead' = {} /\ rows' = rows /\ \A j \in Ids : boot'[j] = None
    BY Zenon, <1>1 DEF Crash, durable
  <2>2. \A h \in Handlers : pc'[h] = "idle"
    BY Zenon, <1>1 DEF Crash
  <2>3. up
    BY Zenon, <1>1 DEF Crash
  <2> QED BY Zenon, <2>1, <2>2, <2>3 DEF DeadRecorded, LeavesDead, Dead, IInv, TypeOK
<1>2. ASSUME ~up PROVE dead = {} /\ \A j \in Ids : boot[j] = None
  BY <1>2 DEF IInv, Down
<1>3. CASE Rehydrate
  <2>1. /\ ~up /\ dead' = {j \in Verified : rows[j] = "dead"} /\ UNCHANGED <<boot, pc, on>>
        /\ rows' = RowsSet(Claims, "none")
    BY Zenon, <1>3 DEF Rehydrate, control
  <2>2. \A j \in Ids : rows'[j] = IF j \in Claims THEN "none" ELSE rows[j]
    BY <2>1, RowsSetFacts DEF IInv
  <2>3. \A j \in Ids : /\ rows[j] = "dead" => j \in Verified /\ j \notin Claims
                       /\ rows[j] = "suspended" => j \in Claims
    BY DEF Verified, Claims
  <2>4. Verified \subseteq Ids
    BY Zenon DEF Verified
  <2>5. DeadRecorded'
    BY Zenon, <1>2, <2>1, <2>2, <2>3, <2>4 DEF DeadRecorded
  <2>6. LeavesDead
    BY ZenonT(60), <1>2, <2>1, <2>2, <2>3, <2>4 DEF LeavesDead, Dead
  <2> QED BY <2>5, <2>6
<1>4. CASE \E gone \in SUBSET Claims, i \in Ids, step \in {"audit", "drop"} :
             RehydrateFails(gone, i, step)
  <2>1. PICK gone \in SUBSET Claims, i \in Ids, step \in {"audit", "drop"} :
               RehydrateFails(gone, i, step)
    BY Zenon, <1>4
  <2>2. /\ ~up /\ up' = up /\ UNCHANGED <<dead, boot, pc, on>>
        /\ rows' = RowsSet(gone, "none")
    BY Zenon, <2>1 DEF RehydrateFails, registry, control
  <2>3. \A j \in Ids : rows'[j] = IF j \in gone THEN "none" ELSE rows[j]
    BY <2>2, RowsSetFacts DEF IInv
  <2> QED BY Zenon, <1>2, <2>2, <2>3 DEF DeadRecorded, LeavesDead, Dead
<1> QED BY Zenon, <1>1, <1>3, <1>4

(* Every step keeps DeadRecorded and leaves the dead dead.                   *)
LEMMA DeadStep == IInv /\ IInv' /\ DeadRecorded /\ [Next]_vars => DeadRecorded' /\ LeavesDead
<1> SUFFICES ASSUME IInv, IInv', DeadRecorded, [Next]_vars PROVE DeadRecorded' /\ LeavesDead
  OBVIOUS
<1>1. CASE \E t \in Tasks, w \in Worktrees, i \in Ids, o \in RegisterOutcomes : Register(t, w, i, o)
  BY <1>1, DeadRegister
<1>2. CASE \E h \in Handlers, t \in Tasks : Exec(h, t)
  BY Zenon, <1>2, DeadExec
<1>3. CASE \E h \in Handlers : GiveUp(h) \/ ExecReturns(h) \/ Launch(h) \/ WireControls(h)
  <2>1. PICK h \in Handlers : GiveUp(h) \/ ExecReturns(h) \/ Launch(h) \/ WireControls(h)
    BY <1>3
  <2>2. up /\ up' /\ UNCHANGED <<dead, rows, boot>>
    BY Zenon, <2>1, MovesServe
  <2>3. \E stage \in Stages \ {"exec"} : \E i : Goto(h, stage, i)
    BY Zenon, <2>1 DEF GiveUp, ExecReturns, Launch, WireControls, Finish, Stages
  <2> QED BY Zenon, <2>2, <2>3, DeadMoves
<1>4. CASE \E h \in Handlers : (\E t \in Tasks : Remove(h, t) \/ Land(h, t)) \/ Resume(h)
  BY <1>4, DeadRemoveLand
<1>5. CASE \E h \in Handlers : SettleFailed(h) \/ SettleBooted(h)
  BY <1>5, DeadSettle
<1>6. CASE \E h \in Handlers : noteExecFailure(h)
  BY Zenon, <1>6, DeadNote
<1>7. CASE \E i \in Ids : GuestDies(i)
  <2>1. up /\ up' /\ UNCHANGED <<dead, rows, boot, pc, on>>
    BY <1>7 DEF GuestDies, NoIssue, registry, durable, control
  <2> QED BY Zenon, <2>1, DeadUntouched DEF IInv
<1>8. CASE \E done, bad \in SUBSET Registered, step \in TeardownSteps \cup {"none"} :
             Sweep(done, bad, step) /\ ReapExpired(done, bad, step)
  BY Zenon, <1>8, DeadSweep
<1>9. CASE \E done, bad \in SUBSET booted, step \in SuspendSteps \cup {"none"} :
             Sweep(done, bad, step) /\ SuspendIdle(done, bad, step)
  BY Zenon, <1>9, DeadSweep
<1>10. CASE \/ Crash
            \/ Rehydrate
            \/ \E gone \in SUBSET Claims, i \in Ids, step \in {"audit", "drop"} :
                 RehydrateFails(gone, i, step)
  BY Zenon, <1>10, DeadRestart
<1>11. CASE UNCHANGED vars
  <2>1. UNCHANGED <<up, dead, rows, boot, pc, on>>
    BY ZenonT(60), <1>11 DEF vars, registry, durable, control
  <2>2. ~up => dead = {} /\ \A j \in Ids : boot[j] = None
    BY DEF IInv, Down
  <2> QED BY Zenon, <2>1, <2>2 DEF DeadRecorded, LeavesDead, Dead
<1> QED BY Zenon, <1>1, <1>2, <1>3, <1>4, <1>5, <1>6, <1>7, <1>8, <1>9, <1>10, <1>11 DEF Next

(* A sandbox whose guest died is never booted nor given a command again, and *)
(* every daemon knows it, until it is removed.                               *)
THEOREM DeadIsForEver == Spec => DeadStaysDead
<1> DEFINE A == \A i \in Ids : Dead(i) => /\ Dead(i)' \/ rows'[i] = "none"
                                          /\ boot'[i] = None
                                          /\ \A h \in Handlers :
                                               on'[h] = i /\ pc'[h] = "exec" => pc[h] = "exec"
<1>1. Init => DeadRecorded
  BY DEF Init, DeadRecorded
<1>2. IInv /\ IInv' /\ DeadRecorded /\ [Next]_vars => DeadRecorded'
  BY Zenon, DeadStep
<1>3. IInv /\ IInv' /\ DeadRecorded /\ [Next]_vars => A
  BY Zenon, DeadStep DEF LeavesDead
<1>4. IInv /\ IInv' /\ DeadRecorded /\ [Next]_vars => [A]_vars
  BY Zenon, <1>3
<1> QED BY <1>1, <1>2, <1>4, Invariance, PTL DEF Spec, DeadStaysDead

-----------------------------------------------------------------------------
(* The service implements the roster *)

(* The values the refinement mapping gives held and running.                *)
Held == {i \in Ids : rows[i] # "none"}
Running == {i \in booted : vm[i] = "running"}

(* A step that leaves the roster alone.                                     *)
LEMMA RosterStutters ==
  ASSUME TypeOK, UNCHANGED <<task, worktree, booted>>,
         \A j \in Ids : (rows'[j] # "none") = (rows[j] # "none"),
         \A j \in booted : (vm'[j] = "running") = (vm[j] = "running")
  PROVE  UNCHANGED Roster!vars
<1>1. Held' = Held
  BY Zenon DEF Held
<1>2. Running' = Running
  BY ZenonT(60) DEF Running
<1> QED BY Zenon, <1>1, <1>2 DEF Roster!vars, Held, Running

(* VMs of the roster stop.                                                  *)
LEMMA RosterHalts ==
  ASSUME TypeOK, UNCHANGED <<task, worktree>>,
         \A j \in Ids : (rows'[j] # "none") = (rows[j] # "none"),
         booted' \subseteq booted,
         \A j \in booted' : vm'[j] = "running" => vm[j] = "running"
  PROVE  Roster!Next
<1>0. PICK S : S = Running \ Running'
  BY Zenon
<1>1. Held' = Held /\ Running' = Running \ S /\ S \in SUBSET Running
  BY Zenon, <1>0 DEF Held, Running
<1>2. Roster!Halt(S)
  BY Zenon, <1>1 DEF Roster!Halt, Held, Running
<1>3. \E T \in SUBSET Running : Roster!Halt(T)
  BY <1>1, <1>2
<1> QED BY <1>3 DEF Roster!Next, Running

(* Sandboxes leave the roster, and some VMs stop.                           *)
LEMMA RosterEnds ==
  ASSUME TypeOK, UNCHANGED <<task, worktree>>, NEW done \in SUBSET Held,
         \A j \in Ids : rows'[j] = IF j \in done THEN "none" ELSE rows[j],
         booted' \subseteq booted \ done,
         \A j \in booted' : vm'[j] = "running" => vm[j] = "running"
  PROVE  Roster!Next
<1>0. PICK H : H = Running \ Running'
  BY Zenon
<1>1. Held' = Held \ done /\ Running' = Running \ (done \cup H) /\ H \in SUBSET Running
  BY Zenon, <1>0 DEF Held, Running
<1>2. Roster!End(done, H)
  BY Zenon, <1>1 DEF Roster!End, Held, Running
<1>3. \E S \in SUBSET Held, T \in SUBSET Running : Roster!End(S, T)
  BY <1>1, <1>2
<1> QED BY Zenon, <1>3 DEF Roster!Next, Running, Held

(* A teardown lets the sandboxes it completes leave the roster.             *)
LEMMA RosterTeardown ==
  ASSUME IInv, up, NEW done \in SUBSET Registered, NEW bad \in SUBSET Registered,
         NEW pre \in Seq(Events), NEW ev \in Terminal, NEW step,
         TornDown(done, bad, pre, ev, step)
  PROVE  Roster!Next
<1>1. RosterEffect(done, bad)
  BY ZenonT(60), TornDownFacts
<1>2. /\ UNCHANGED <<task, worktree>> /\ booted' = booted \ done
      /\ booted \subseteq Ids
  BY DEF TornDown, IInv, TypeOK
<1>3. done \in SUBSET Held
  BY ZenonT(60), NoneAssumption DEF IInv, RosterIsDurable, Registered, Held
<1>4. \A j \in Ids : rows'[j] = IF j \in done THEN "none" ELSE rows[j]
  BY ZenonT(60), <1>1 DEF RosterEffect
<1>5. \A j \in Ids : vm'[j] = "running" => vm[j] = "running"
  BY Zenon, <1>1 DEF RosterEffect
<1>6. TypeOK
  BY Zenon DEF IInv
<1> QED BY ZenonT(60), <1>2, <1>3, <1>4, <1>5, <1>6, RosterEnds

(* Registering binds an ID nobody has had, under a task and a worktree that *)
(* no sandbox of the roster holds.                                          *)
LEMMA RosterRegister ==
  ASSUME IInv, NEW t \in Tasks, NEW w \in Worktrees, NEW i \in Ids, NEW o \in RegisterOutcomes,
         Register(t, w, i, o)
  PROVE  Roster!Next
<1>1. /\ up /\ byTask[t] = None /\ task[i] = None /\ rows[i] = "none"
      /\ \A j \in Registered : worktree[j] # w
      /\ task' = [task EXCEPT ![i] = t] /\ worktree' = [worktree EXCEPT ![i] = w]
      /\ booted' = booted /\ vm' = vm
  BY Zenon DEF Register, Issue, checkExclusivity, IInv, Bindings, backend
<1>2. Running' = Running
  BY Zenon, <1>1 DEF Running
<1>3. \A j \in Held : task[j] # t /\ worktree[j] # w
  <2>1. \A j \in Held : j \in Ids /\ byTask[task[j]] = j /\ task[j] \in Tasks
    BY <1>1 DEF Held, IInv, RosterIsDurable, Bindings, TypeOK
  <2> QED BY ZenonT(60), <1>1, <2>1, NoneAssumption DEF Registered
<1>4. CASE rows' = [rows EXCEPT ![i] = "created"]
  <2>1. Held' = Held \cup {i}
    BY <1>4 DEF Held, IInv, TypeOK
  <2>2. Roster!Register(i, t, w)
    BY ZenonT(60), <1>1, <1>2, <1>3, <2>1 DEF Roster!Register, Roster!Bind, Held, Running
  <2> QED BY Zenon, <2>2 DEF Roster!Next
<1>5. CASE rows' = rows
  <2>1. Held' = Held
    BY <1>5 DEF Held
  <2>2. Roster!FailRegister(i, t, w)
    BY Zenon, <1>1, <1>2, <2>1 DEF Roster!FailRegister, Roster!Bind, Held, Running
  <2> QED BY Zenon, <2>2 DEF Roster!Next
<1> QED BY Zenon, <1>4, <1>5 DEF Register

(* A boot that is recorded is the roster's Boot; one that is rolled back    *)
(* never ran for a client.                                                  *)
LEMMA RosterSettle ==
  ASSUME IInv, NEW h \in Handlers, SettleBooted(h)
  PROVE  [Roster!Next]_(Roster!vars)
<1>0. PICK i : i = on[h]
  OBVIOUS
<1>1. i \in Ids /\ i \notin booted /\ rows[i] # "none"
  BY ZenonT(60), <1>0, OwnerFacts DEF SettleBooted, BootStages
<1>2. vm[i] = "running" /\ TypeOK /\ UNCHANGED <<task, worktree>>
  BY Zenon, <1>0 DEF SettleBooted, IInv, BootingVM
<1>3. CASE rows' = RowsSet({i}, "running") /\ booted' = booted \cup {i} /\ vm' = vm
  <2>1. \A j \in Ids : (rows'[j] # "none") = (rows[j] # "none")
    <3>1. \A j \in Ids : rows'[j] = IF j \in {i} THEN "running" ELSE rows[j]
      BY Zenon, <1>3 DEF RowsSet
    <3> QED BY ZenonT(60), <1>1, <3>1
  <2>2. Held' = Held
    BY Zenon, <2>1 DEF Held
  <2>3. Running' = Running \cup {i} /\ i \in Held \ Running
    BY Zenon, <1>1, <1>2, <1>3 DEF Running, Held
  <2>4. Roster!Boot(i)
    BY Zenon, <1>2, <2>2, <2>3 DEF Roster!Boot, Held, Running
  <2> QED BY Zenon, <1>1, <2>4 DEF Roster!Next
<1>4. CASE rows' = rows /\ booted' = booted /\ StopAndRemove(i)
  <2>1. \A j \in booted : vm'[j] = vm[j]
    BY Zenon, <1>1, <1>2, <1>4 DEF StopAndRemove, TypeOK
  <2>2. UNCHANGED Roster!vars
    BY ZenonT(60), <1>2, <1>4, <2>1, RosterStutters
  <2> QED BY Zenon, <2>2
<1> QED BY Zenon, <1>0, <1>3, <1>4 DEF SettleBooted, backend

(* The start after a crash lets the sandboxes whose VM is lost leave.       *)
LEMMA RosterRehydrate ==
  ASSUME IInv,
         \/ Rehydrate
         \/ \E gone \in SUBSET Claims, i \in Ids, step \in {"audit", "drop"} :
              RehydrateFails(gone, i, step)
  PROVE  Roster!Next
<1>1. ~up /\ UNCHANGED <<task, worktree, booted, vm>>
  BY Zenon DEF Rehydrate, RehydrateFails, registry, backend
<1>2. booted = {} /\ TypeOK
  BY Zenon, <1>1 DEF IInv, Down
<1>3. PICK gone : gone \subseteq Claims /\ rows' = RowsSet(gone, "none")
  BY ZenonT(60) DEF Rehydrate, RehydrateFails
<1>4. gone \in SUBSET Held
  BY <1>3 DEF Claims, Held
<1>5. \A j \in Ids : rows'[j] = IF j \in gone THEN "none" ELSE rows[j]
  BY Zenon, <1>3 DEF RowsSet
<1> QED BY Zenon, <1>1, <1>2, <1>4, <1>5, RosterEnds

(* Every step of the service is a step of the roster, or none.              *)
LEMMA RosterStep == IInv /\ [Next]_vars => [Roster!Next]_(Roster!vars)
<1> SUFFICES ASSUME IInv, [Next]_vars PROVE [Roster!Next]_(Roster!vars)
  OBVIOUS
<1>0. TypeOK
  BY DEF IInv
<1>1. CASE \E t \in Tasks, w \in Worktrees, i \in Ids, o \in RegisterOutcomes : Register(t, w, i, o)
  BY Zenon, <1>1, RosterRegister
<1>2. CASE UNCHANGED <<task, worktree, rows, booted, vm>>
  BY <1>0, <1>2, RosterStutters
<1>3. CASE \E h \in Handlers : \/ \E t \in Tasks : Exec(h, t)
                               \/ GiveUp(h) \/ ExecReturns(h) \/ SettleFailed(h)
  BY Zenon, <1>2, <1>3 DEF Exec, GiveUp, ExecReturns, SettleFailed, registry, durable, backend
<1>4. CASE \E h \in Handlers : Launch(h) \/ WireControls(h)
  <2>1. PICK h \in Handlers : Launch(h) \/ WireControls(h)
    BY <1>4
  <2>2. on[h] \notin booted /\ UNCHANGED <<task, worktree, rows, booted>>
    BY ZenonT(60), <2>1, OwnerFacts DEF Launch, WireControls, BootStages, registry, durable
  <2>3. \A j \in booted : vm'[j] = vm[j]
    BY Zenon, <1>0, <2>1, <2>2 DEF Launch, WireControls, StopAndRemove, TypeOK
  <2>4. UNCHANGED Roster!vars
    BY Zenon, <1>0, <2>2, <2>3, RosterStutters
  <2> QED BY <2>4
<1>5. CASE \E h \in Handlers : SettleBooted(h)
  BY <1>5, RosterSettle
<1>6. CASE \E h \in Handlers : noteExecFailure(h)
  <2>1. UNCHANGED <<task, worktree, booted, vm>>
    BY ZenonT(60), <1>6 DEF noteExecFailure, backend
  <2>2. \A j \in Ids : (rows'[j] # "none") = (rows[j] # "none")
    BY Zenon, <1>6 DEF noteExecFailure, RowsSet, IInv, BootedIsRecorded
  <2>3. UNCHANGED Roster!vars
    BY Zenon, <1>0, <2>1, <2>2, RosterStutters
  <2> QED BY <2>3
<1>7. CASE \E i \in Registered : up /\ (RemoveLocked(i) \/ LandLocked(i))
  <2>1. PICK done \in SUBSET Registered, bad \in SUBSET Registered, pre \in Seq(Events),
             ev \in Terminal, step \in TeardownSteps \cup {"none"} :
             TornDown(done, bad, pre, ev, step)
    BY <1>7, LockedTearsDown
  <2> QED BY Zenon, <1>7, <2>1, RosterTeardown
<1>8. CASE \E h \in Handlers : (\E t \in Tasks : Remove(h, t) \/ Land(h, t)) \/ Resume(h)
  <2>1. \A t \in Tasks : byTask[t] # None => byTask[t] \in Registered
    BY ZenonT(60) DEF IInv, TypeOK, Registered
  <2>2. \A h \in Handlers : Resume(h) => task[on[h]] \in Tasks
    BY DEF Resume, IInv, Working, TypeOK
  <2>3. CASE UNCHANGED <<registry, durable, backend>>
    BY Zenon, <1>2, <2>3 DEF registry, durable, backend
  <2> QED BY Zenon, <1>7, <1>8, <2>1, <2>2, <2>3 DEF Remove, Land, Resume, Await, Issue
<1>9. CASE \E i \in Ids : GuestDies(i)
  BY <1>2, <1>9 DEF GuestDies, registry, durable
<1>10. CASE \E done, bad \in SUBSET Registered, step \in TeardownSteps \cup {"none"} :
              Sweep(done, bad, step) /\ ReapExpired(done, bad, step)
  <2>1. PICK done \in SUBSET Registered, bad \in SUBSET Registered,
             step \in TeardownSteps \cup {"none"} : ReapExpired(done, bad, step)
    BY Zenon, <1>10
  <2>2. up /\ TornDown(done, bad, <<>>, "ttl_expired", step)
    BY <2>1 DEF ReapExpired, Issue, Forget, TypeOK, TornDown, IInv
  <2>3. <<>> \in Seq(Events) /\ "ttl_expired" \in Terminal
    BY FirstTrails
  <2> QED BY ZenonT(60), <2>2, <2>3, RosterTeardown
<1>11. CASE \E done, bad \in SUBSET booted, step \in SuspendSteps \cup {"none"} :
              Sweep(done, bad, step) /\ SuspendIdle(done, bad, step)
  <2>1. PICK done \in SUBSET booted, bad \in SUBSET booted,
             step \in SuspendSteps \cup {"none"} : SuspendIdle(done, bad, step)
    BY <1>11
  <2>2. /\ UNCHANGED <<task, worktree>> /\ booted' \subseteq booted /\ booted \subseteq Ids
        /\ rows' = RowsSet(done, "suspended")
    BY Zenon, <1>0, <2>1 DEF SuspendIdle, TypeOK
  <2>3. \A j \in Ids : (rows'[j] # "none") = (rows[j] # "none")
    BY Zenon, <2>2 DEF RowsSet, IInv, BootedIsRecorded
  <2>4. \A j \in Ids : vm'[j] = "running" => vm[j] = "running"
    BY Zenon, <2>1 DEF SuspendIdle, VmSet
  <2> QED BY ZenonT(60), <1>0, <2>2, <2>3, <2>4, RosterHalts
<1>12. CASE Crash
  <2>1. UNCHANGED <<task, worktree, rows>> /\ booted' = {}
    BY <1>12 DEF Crash, durable
  <2> QED BY Zenon, <1>0, <2>1, RosterHalts
<1>13. CASE \/ Rehydrate
            \/ \E gone \in SUBSET Claims, i \in Ids, step \in {"audit", "drop"} :
                 RehydrateFails(gone, i, step)
  BY Zenon, <1>13, RosterRehydrate
<1>14. CASE UNCHANGED vars
  BY <1>2, <1>14 DEF vars, registry, durable, backend
<1> QED BY ZenonT(60), <1>1, <1>3, <1>4, <1>5, <1>6, <1>8, <1>9, <1>10, <1>11, <1>12, <1>13,
           <1>14 DEF Next

(* The service implements the roster it promises its clients: an ID is used *)
(* once, tasks and worktrees are exclusive, only a sandbox of the roster    *)
(* runs, and one that leaves never returns, through crashes and faults.     *)
THEOREM ServiceImplementsRoster == Spec => ImplementsRoster
<1>1. Init => Roster!Init
  BY DEF Init, Roster!Init
<1>2. IInv /\ [Next]_vars => [Roster!Next]_(Roster!vars)
  BY RosterStep
<1> QED BY <1>1, <1>2, Invariance, PTL DEF Spec, ImplementsRoster, Roster!Spec
=============================================================================
