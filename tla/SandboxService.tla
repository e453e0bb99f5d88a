--------------------------- MODULE SandboxService ---------------------------
(***************************************************************************)
(* The sandbox lifecycle of the daemon: SandboxService (internal/service/  *)
(* sandbox*.go) over the microVM manager (backend/microvm/manager.go, with *)
(* the libkrun hypervisor, whose Stop of a known VM always succeeds), the  *)
(* durable registry and the audit trail (internal/store/index).            *)
(*                                                                         *)
(* SandboxService.mu is held through every operation except a boot         *)
(* (runBoot) and a command (manager.Exec), so those two are split into     *)
(* steps and every other operation is one action that may stop at each     *)
(* write that can fail.  A crash between two writes of an operation leaves *)
(* what a failure of the second write leaves, and then loses the memory,   *)
(* so Crash after a partial operation covers every crash point.            *)
(***************************************************************************)
EXTENDS SandboxEvents, FiniteSets

CONSTANTS
  Tasks,        \* task IDs agents work on
  Worktrees,    \* worktree paths sandboxes are bound to
  Ids,          \* sandbox IDs newID can hand out (bound: its cardinality)
  Handlers,     \* request goroutines of the daemon
  None,         \* "no sandbox", "no binding", "no boot in flight"
  Faulty,       \* the writes and backend calls that may fail in this instance
  MaxRequests,  \* bound on the requests issued
  MaxCrashes    \* bound on the daemon crashes

FaultKinds == {"audit", "persist", "drop", "launch", "wire", "remove"}

ASSUME NoneAssumption ==
  None \notin Tasks /\ None \notin Worktrees /\ None \notin Ids /\ None \notin Handlers
ASSUME FaultAssumption == Faulty \subseteq FaultKinds
ASSUME BoundAssumption == MaxRequests \in Nat /\ MaxCrashes \in Nat

VARIABLES
  up,        \* a daemon serves: it has rehydrated and accepts requests
  byTask,    \* SandboxService.byTask: the sandbox registered for a task
  task,      \* info.TaskID of a sandbox, fixed when it is registered
  worktree,  \* info.WorktreePath of a sandbox, fixed when it is registered
  state,     \* reg.info.State of a registered sandbox
  booted,    \* sandboxes whose reg.booted is set
  dead,      \* sandboxes whose reg.dead is set
  boot,      \* reg.boot: the handler running the boot in flight
  rows,      \* the durable registry: the recorded state of a sandbox
  trail,     \* the durable audit trail of a sandbox
  vm,        \* Manager.sandboxes: the manager's record of a VM
  dirs,      \* per-sandbox state directories (with overlay.img) on disk
  wired,     \* sandboxes with host egress and published ports up
  lost,      \* VMs whose guest has stopped answering
  pc, on,    \* what a handler is doing, and for which sandbox
  issued,    \* requests issued so far
  crashes    \* crashes so far

registry == <<byTask, task, worktree, state, booted, dead, boot>>
durable  == <<rows, trail>>
backend  == <<vm, dirs, wired, lost>>
control  == <<pc, on>>
bounds   == <<issued, crashes>>
vars     == <<up, registry, durable, backend, control, bounds>>

Stages == {"idle", "launch", "wire", "settle", "failed", "join", "exec",
           "lost", "remove", "land"}
BootStages == {"launch", "wire", "settle", "failed"}

TypeOK ==
  /\ up \in BOOLEAN
  /\ byTask \in [Tasks -> Ids \cup {None}]
  /\ task \in [Ids -> Tasks \cup {None}]
  /\ worktree \in [Ids -> Worktrees \cup {None}]
  /\ state \in [Ids -> States \cup {"none"}]
  /\ booted \subseteq Ids /\ dead \subseteq Ids
  /\ boot \in [Ids -> Handlers \cup {None}]
  /\ rows \in [Ids -> States \cup {"none"}]
  /\ trail \in [Ids -> Seq(Events)]
  /\ vm \in [Ids -> {"absent", "running", "stopped"}]
  /\ dirs \subseteq Ids /\ wired \subseteq Ids /\ lost \subseteq Ids
  /\ pc \in [Handlers -> Stages]
  /\ on \in [Handlers -> Ids \cup {None}]
  /\ issued \in Nat /\ crashes \in Nat

Init ==
  /\ up = TRUE
  /\ byTask = [t \in Tasks |-> None]
  /\ task = [i \in Ids |-> None]
  /\ worktree = [i \in Ids |-> None]
  /\ state = [i \in Ids |-> "none"]
  /\ booted = {} /\ dead = {}
  /\ boot = [i \in Ids |-> None]
  /\ rows = [i \in Ids |-> "none"]
  /\ trail = [i \in Ids |-> <<>>]
  /\ vm = [i \in Ids |-> "absent"]
  /\ dirs = {} /\ wired = {} /\ lost = {}
  /\ pc = [h \in Handlers |-> "idle"]
  /\ on = [h \in Handlers |-> None]
  /\ issued = 0 /\ crashes = 0

-----------------------------------------------------------------------------
(* Helpers *)

Registered == {i \in Ids : \E t \in Tasks : byTask[t] = i}

Fails(kind) == kind \in Faulty

Issue == /\ up /\ issued < MaxRequests
         /\ issued' = issued + 1
         /\ UNCHANGED <<up, crashes>>

NoIssue == UNCHANGED <<up, bounds>>

Goto(h, stage, i) == pc' = [pc EXCEPT ![h] = stage] /\ on' = [on EXCEPT ![h] = i]

Finish(h) == Goto(h, "idle", None)

(* AppendSandboxEvent for every sandbox of a set. *)
Append1(ids, ev) == [i \in Ids |-> IF i \in ids THEN Append(trail[i], ev) ELSE trail[i]]

(* SetSandboxState, and DeleteSandbox, for every sandbox of a set. *)
RowsSet(ids, s) == [i \in Ids |-> IF i \in ids THEN s ELSE rows[i]]

(* Entry of the manager's map, for every sandbox of a set. *)
VmSet(ids, s) == [i \in Ids |-> IF i \in ids THEN s ELSE vm[i]]

(* Deletion from byTask, which forgets the registrations of a set.          *)
Forget(ids) ==
  /\ byTask' = [t \in Tasks |-> IF byTask[t] \in ids THEN None ELSE byTask[t]]
  /\ state' = [i \in Ids |-> IF i \in ids THEN "none" ELSE state[i]]
  /\ booted' = booted \ ids
  /\ dead' = dead \ ids
  /\ UNCHANGED <<task, worktree, boot>>

-----------------------------------------------------------------------------
(* Register *)

(* Mutant: the task alone is exclusive. *)
checkExclusivityTaskOnly(t, w) == byTask[t] = None

(* checkExclusivity: one sandbox per task, one per worktree. *)
checkExclusivity(t, w) ==
  /\ byTask[t] = None
  /\ \A i \in Registered : worktree[i] # w

(* persistRegistration failing: the compensating `destroyed` event is       *)
(* appended unless that append fails too.                                   *)
RegisterOutcomes ==
  {"ok"} \cup (IF Fails("persist") THEN {"compensated"} ELSE {})
         \cup (IF Fails("persist") /\ Fails("audit") THEN {"abandoned"} ELSE {})

(* Mutant: newID hands out an ID again. *)
RegisterReusesId(t, w, i, outcome) ==
  /\ Issue /\ checkExclusivity(t, w) /\ rows[i] = "none" /\ outcome = "ok"
  /\ task' = [task EXCEPT ![i] = t]
  /\ worktree' = [worktree EXCEPT ![i] = w]
  /\ trail' = [trail EXCEPT ![i] = <<"created">>]
  /\ rows' = [rows EXCEPT ![i] = "created"]
  /\ byTask' = [byTask EXCEPT ![t] = i]
  /\ state' = [state EXCEPT ![i] = "created"]
  /\ UNCHANGED <<booted, dead, boot, backend, control>>

Register(t, w, i, outcome) ==
  /\ Issue
  /\ checkExclusivity(t, w)
  /\ trail[i] = <<>>
  /\ outcome \in RegisterOutcomes
  /\ task' = [task EXCEPT ![i] = t]
  /\ worktree' = [worktree EXCEPT ![i] = w]
  /\ trail' = [trail EXCEPT ![i] =
                 IF outcome = "compensated" THEN <<"created", "destroyed">> ELSE <<"created">>]
  /\ \/ /\ outcome = "ok"
        /\ rows' = [rows EXCEPT ![i] = "created"]
        /\ byTask' = [byTask EXCEPT ![t] = i]
        /\ state' = [state EXCEPT ![i] = "created"]
     \/ outcome # "ok" /\ UNCHANGED <<rows, byTask, state>>
  /\ UNCHANGED <<booted, dead, boot, backend, control>>

-----------------------------------------------------------------------------
(* EnsureRunning, the boot it may run, and the command it runs for *)

(* Mutant: a dead guest is not refused. *)
ExecIgnoresDead(h, t) ==
  /\ Issue /\ pc[h] = "idle" /\ byTask[t] # None
  /\ LET i == byTask[t] IN
     \/ i \in booted /\ Goto(h, "exec", i) /\ UNCHANGED boot
     \/ /\ i \notin booted /\ boot[i] = None
        /\ Goto(h, "launch", i)
        /\ boot' = [boot EXCEPT ![i] = h]
  /\ UNCHANGED <<byTask, task, worktree, state, booted, dead, durable, backend>>

(* Exec up to the end of EnsureRunning's critical section. *)
Exec(h, t) ==
  /\ Issue
  /\ pc[h] = "idle"
  /\ byTask[t] # None
  /\ LET i == byTask[t] IN
     /\ i \notin dead
     /\ \/ /\ i \in booted
           /\ Goto(h, "exec", i)
           /\ UNCHANGED boot
        \/ /\ i \notin booted /\ boot[i] # None
           /\ Goto(h, "join", i)
           /\ UNCHANGED boot
        \/ /\ i \notin booted /\ boot[i] = None
           /\ Goto(h, "launch", i)
           /\ boot' = [boot EXCEPT ![i] = h]
  /\ UNCHANGED <<byTask, task, worktree, state, booted, dead, durable, backend>>

(* joinBoot and awaitBootLocked give up when their context is cancelled. *)
GiveUp(h) ==
  /\ up
  /\ pc[h] \in {"join", "remove", "land"}
  /\ Finish(h)
  /\ NoIssue
  /\ UNCHANGED <<registry, durable, backend>>

(* manager.Launch.  createOverlay opens overlay.img with O_EXCL, so a state *)
(* directory left behind refuses the launch.  A launch that fails later     *)
(* removes the directory and ignores the error of doing so; one that fails  *)
(* in confirmGuestServing stops and removes the VM, as far as it gets.      *)
Launch(h) ==
  LET i == on[h] IN
  /\ up /\ pc[h] = "launch"
  /\ \/ /\ i \notin dirs
        /\ vm' = [vm EXCEPT ![i] = "running"]
        /\ dirs' = dirs \cup {i}
        /\ lost' = lost \ {i}
        /\ Goto(h, "wire", i)
     \/ /\ i \in dirs \/ Fails("launch")
        /\ Goto(h, "failed", i)
        /\ UNCHANGED <<vm, dirs, lost>>
     \/ /\ i \notin dirs /\ Fails("launch")
        /\ vm' \in {vm} \cup (IF Fails("remove") THEN {[vm EXCEPT ![i] = "stopped"]} ELSE {})
        /\ dirs' = dirs \cup {i}
        /\ Goto(h, "failed", i)
        /\ UNCHANGED lost
  /\ NoIssue
  /\ UNCHANGED <<registry, durable, wired>>

(* manager.Stop and manager.Remove with force, errors joined and passed on: *)
(* Remove gives up with the directory and the map entry in place when       *)
(* RemoveAll fails.                                                         *)
StopAndRemove(i) ==
  /\ \/ /\ vm' = [vm EXCEPT ![i] = "absent"]
        /\ dirs' = dirs \ {i}
     \/ /\ Fails("remove")
        /\ vm' = [vm EXCEPT ![i] = "stopped"]
        /\ UNCHANGED dirs
  /\ wired' = wired \ {i}
  /\ UNCHANGED lost

(* StartEgress, ReplayGrants and StartPublish; the first that fails undoes  *)
(* the ones before it and the launch.                                       *)
WireControls(h) ==
  LET i == on[h] IN
  /\ up /\ pc[h] = "wire"
  /\ \/ /\ wired' = wired \cup {i}
        /\ Goto(h, "settle", i)
        /\ UNCHANGED <<vm, dirs, lost>>
     \/ /\ Fails("wire")
        /\ StopAndRemove(i)
        /\ Goto(h, "failed", i)
  /\ NoIssue
  /\ UNCHANGED <<registry, durable>>

(* Mutant: the attempt's channel is never closed, so joiners are not woken. *)
ReleaseOwnerOnly(i, stage) ==
  /\ pc' = [pc EXCEPT ![boot[i]] = stage]
  /\ on' = [on EXCEPT ![boot[i]] = IF stage = "idle" THEN None ELSE i]
  /\ boot' = [boot EXCEPT ![i] = None]

(* close(attempt.done): the owner and everyone who joined the attempt share *)
(* its result and go on to their commands, or fail together.                *)
Release(i, stage) ==
  LET Party == {g \in Handlers : on[g] = i /\ pc[g] \in BootStages \cup {"join"}} IN
  /\ pc' = [g \in Handlers |-> IF g \in Party THEN stage ELSE pc[g]]
  /\ on' = [g \in Handlers |-> IF g \in Party /\ stage = "idle" THEN None ELSE on[g]]
  /\ boot' = [boot EXCEPT ![i] = None]

(* settleBoot of a boot that failed. *)
SettleFailed(h) ==
  /\ up /\ pc[h] = "failed"
  /\ Release(on[h], "idle")
  /\ NoIssue
  /\ UNCHANGED <<byTask, task, worktree, state, booted, dead, durable, backend>>

(* settleBoot and recordBootLocked: `resumed` is appended, the row set      *)
(* running, and only then is the sandbox booted; a failure of either write  *)
(* rolls the VM back (rollbackBoot).                                        *)
SettleBooted(h) ==
  LET i == on[h] IN
  /\ up /\ pc[h] = "settle"
  /\ \/ /\ trail' = Append1({i}, "resumed")
        /\ rows' = RowsSet({i}, "running")
        /\ booted' = booted \cup {i}
        /\ state' = [state EXCEPT ![i] = "running"]
        /\ Release(i, "exec")
        /\ UNCHANGED backend
     \/ /\ \/ Fails("audit") /\ UNCHANGED trail
           \/ Fails("persist") /\ trail' = Append1({i}, "resumed")
        /\ StopAndRemove(i)
        /\ Release(i, "idle")
        /\ UNCHANGED <<rows, booted, state>>
  /\ NoIssue
  /\ UNCHANGED <<byTask, task, worktree, dead>>

(* The guest of a running VM stops answering. *)
GuestDies(i) ==
  /\ up /\ vm[i] = "running" /\ i \notin lost
  /\ lost' = lost \cup {i}
  /\ NoIssue
  /\ UNCHANGED <<registry, durable, vm, dirs, wired, control>>

(* manager.Exec returns: with a result or an error that says nothing of the *)
(* guest, or having reached the guest and lost it (model.IsLostServing).    *)
ExecReturns(h) ==
  /\ up /\ pc[h] = "exec"
  /\ \/ Finish(h)
     \/ /\ vm[on[h]] # "running" \/ on[h] \in lost
        /\ Goto(h, "lost", on[h])
  /\ NoIssue
  /\ UNCHANGED <<registry, durable, backend>>

(* noteExecFailure and markDeadLocked: looked up by the command's TASK. *)
noteExecFailure(h) ==
  /\ up /\ pc[h] = "lost"
  /\ LET i == byTask[task[on[h]]] IN
     \/ /\ i \in booted \ dead
        /\ \/ /\ Fails("audit")
              /\ UNCHANGED <<trail, rows, dead, state>>
           \/ /\ Fails("persist")
              /\ trail' = Append1({i}, "guest_died")
              /\ UNCHANGED <<rows, dead, state>>
           \/ /\ trail' = Append1({i}, "guest_died")
              /\ rows' = RowsSet({i}, "dead")
              /\ state' = [state EXCEPT ![i] = "dead"]
              /\ dead' = dead \cup {i}
     \/ /\ i \notin booted \ dead
        /\ UNCHANGED <<trail, rows, dead, state>>
  /\ Finish(h)
  /\ NoIssue
  /\ UNCHANGED <<byTask, task, worktree, booted, boot, backend>>

-----------------------------------------------------------------------------
(* Teardown: Remove, Land, ReapExpired *)

(* manager.Stop finds the VM of a booted sandbox, or there is none to stop. *)
Stoppable(i) == i \in booted => vm[i] # "absent"

(* teardownLocked over the sandboxes of `done`, each to the end, and then,  *)
(* when `bad` is not empty, over the one sandbox in it, which fails at      *)
(* `step`.  `pre` is appended before (Land's `landed`), `ev` is the terminal*)
(* event.  reg.booted is not reset when a later step fails.                 *)
TeardownSteps == {"stop", "remove", "audit", "drop"}

CanTearDown(done, bad, step) ==
  /\ \A i \in done : Stoppable(i)
  /\ \A i \in bad :
       \/ step = "stop" /\ ~Stoppable(i)
       \/ step = "remove" /\ Fails("remove") /\ i \in booted /\ Stoppable(i)
       \/ step \in {"audit", "drop"} /\ Fails(step) /\ Stoppable(i)

Teardown(done, bad, pre, ev, step) ==
  LET cleared == booted \cap (IF step \in {"audit", "drop"} THEN done \cup bad ELSE done)
      halted  == IF step = "remove" THEN bad ELSE {}
      closed  == IF step = "drop" THEN done \cup bad ELSE done
  IN
  /\ wired' = wired \ (booted \cap (done \cup bad))
  /\ vm' = [i \in Ids |-> IF i \in cleared THEN "absent"
                          ELSE IF i \in halted THEN "stopped" ELSE vm[i]]
  /\ dirs' = dirs \ cleared
  /\ trail' = [i \in Ids |->
                 IF i \in closed THEN Append(trail[i] \o pre, ev)
                 ELSE IF i \in bad THEN trail[i] \o pre ELSE trail[i]]
  /\ rows' = RowsSet(done, "none")
  /\ UNCHANGED lost

(* awaitBootLocked: a task with a boot in flight is waited for.             *)
Await(h, i, stage) ==
  /\ pc[h] = "idle" /\ boot[i] # None
  /\ Goto(h, stage, i)
  /\ UNCHANGED <<registry, durable, backend>>

LandThroughBoot(i) ==
  /\ CanTearDown({i}, {}, "none")
  /\ Teardown({i}, {}, <<"landed">>, "destroyed", "none")
  /\ Forget({i})

(* The critical section of Remove, for the sandbox the task has by now. *)
RemoveLocked(i) ==
  /\ boot[i] = None
  /\ \/ /\ CanTearDown({i}, {}, "none")
        /\ Teardown({i}, {}, <<>>, "destroyed", "none")
        /\ Forget({i})
     \/ \E step \in TeardownSteps :
        /\ CanTearDown({}, {i}, step)
        /\ Teardown({}, {i}, <<>>, "destroyed", step)
        /\ UNCHANGED registry

(* The critical section of Land: `landed` first, then the teardown. *)
LandLocked(i) ==
  /\ boot[i] = None
  /\ \/ /\ CanTearDown({i}, {}, "none")
        /\ Teardown({i}, {}, <<"landed">>, "destroyed", "none")
        /\ Forget({i})
     \/ \E step \in TeardownSteps :
        /\ CanTearDown({}, {i}, step)
        /\ Teardown({}, {i}, <<"landed">>, "destroyed", step)
        /\ state' = [state EXCEPT ![i] = "landed"]
        /\ UNCHANGED <<byTask, task, worktree, booted, dead, boot>>
     \/ Fails("audit") /\ UNCHANGED <<registry, durable, backend>>

Remove(h, t) ==
  /\ Issue
  /\ byTask[t] # None
  /\ \/ Await(h, byTask[t], "remove")
     \/ RemoveLocked(byTask[t]) /\ UNCHANGED control

Land(h, t) ==
  /\ Issue
  /\ byTask[t] # None
  /\ \/ Await(h, byTask[t], "land")
     \/ LandLocked(byTask[t]) /\ UNCHANGED control

(* A waiter is woken, takes the lock and reads the map again: the task may  *)
(* be gone, have another sandbox, or have another boot in flight.           *)
Resume(h) ==
  LET i == byTask[task[on[h]]] IN
  /\ up /\ pc[h] \in {"remove", "land"}
  /\ \/ i = None /\ UNCHANGED <<registry, durable, backend>>
     \/ i # None /\ pc[h] = "remove" /\ RemoveLocked(i)
     \/ i # None /\ pc[h] = "land" /\ LandLocked(i)
  /\ Finish(h)
  /\ NoIssue

(* ReapExpired and PruneAbandoned: a sweep over the expired registrations   *)
(* with no boot in flight, ended by the first failure.  Which ones have     *)
(* expired is left open: any of them.                                       *)
ReapExpired(done, bad, step) ==
  /\ Issue
  /\ done \cup bad # {}
  /\ \A i \in done \cup bad : boot[i] = None
  /\ CanTearDown(done, bad, step)
  /\ Teardown(done, bad, <<>>, "ttl_expired", step)
  /\ Forget(done)
  /\ UNCHANGED control

(* SuspendIdle and suspendLocked: a sweep over idle booted sandboxes, ended *)
(* by the first failure (which of them are idle is left open).              *)
SuspendSteps == {"stop", "audit", "persist"}

SuspendIdle(done, bad, step) ==
  /\ Issue
  /\ done \cup bad # {} /\ done \cup bad \subseteq booted
  /\ \A i \in done : Stoppable(i)
  /\ \A i \in bad : IF step = "stop" THEN ~Stoppable(i) ELSE Fails(step) /\ Stoppable(i)
  /\ wired' = wired \ (done \cup bad)
  /\ vm' = VmSet(IF step = "stop" THEN done ELSE done \cup bad, "stopped")
  /\ trail' = Append1(IF step = "persist" THEN done \cup bad ELSE done, "suspended")
  /\ rows' = RowsSet(done, "suspended")
  /\ booted' = booted \ done
  /\ state' = [i \in Ids |-> IF i \in done THEN "suspended" ELSE state[i]]
  /\ UNCHANGED <<byTask, task, worktree, dead, boot, dirs, lost, control>>

-----------------------------------------------------------------------------
(* Crash, restart and Rehydrate *)

(* The daemon dies: the service's and the manager's memory go, and every VM *)
(* child with it; rows, trail and state directories stay.                   *)
Crash ==
  /\ up /\ crashes < MaxCrashes
  /\ up' = FALSE
  /\ crashes' = crashes + 1
  /\ byTask' = [t \in Tasks |-> None]
  /\ state' = [i \in Ids |-> "none"]
  /\ booted' = {} /\ dead' = {}
  /\ boot' = [i \in Ids |-> None]
  /\ vm' = [i \in Ids |-> "absent"]
  /\ wired' = {} /\ lost' = {}
  /\ pc' = [h \in Handlers |-> "idle"]
  /\ on' = [h \in Handlers |-> None]
  /\ UNCHANGED <<task, worktree, durable, dirs, issued>>

(* verifyLocked, for a manager that starts empty: `created` claims no VM,   *)
(* `dead` stays dead, and any other row claims a VM that cannot be found.   *)
Verified == {i \in Ids : rows[i] \in {"created", "dead"}}
Claims   == {i \in Ids : rows[i] # "none"} \ Verified

(* Rehydrate adopts the verified rows and discards the others: `killed`,    *)
(* then the row is dropped.                                                 *)
Rehydrate ==
  /\ ~up /\ up' = TRUE
  /\ trail' = Append1(Claims, "killed")
  /\ rows' = RowsSet(Claims, "none")
  /\ byTask' = [t \in Tasks |->
                  IF \E i \in Verified : task[i] = t
                  THEN CHOOSE i \in Verified : task[i] = t ELSE None]
  /\ state' = [i \in Ids |-> IF i \in Verified THEN rows[i] ELSE "none"]
  /\ dead' = {i \in Verified : rows[i] = "dead"}
  /\ UNCHANGED <<task, worktree, booted, boot, backend, control, bounds>>

(* A write of Rehydrate fails: the daemon does not start.  `gone` were      *)
(* discarded before the row `i` whose audit or drop failed.                 *)
RehydrateFails(gone, i, step) ==
  /\ ~up /\ crashes < MaxCrashes
  /\ crashes' = crashes + 1
  /\ gone \cup {i} \subseteq Claims /\ i \notin gone
  /\ step \in {"audit", "drop"} /\ Fails(step)
  /\ trail' = Append1(IF step = "drop" THEN gone \cup {i} ELSE gone, "killed")
  /\ rows' = RowsSet(gone, "none")
  /\ UNCHANGED <<up, registry, backend, control, issued>>

-----------------------------------------------------------------------------
(* A sweep completes `done`, then either ends or fails at `step` on `bad`.   *)
Sweep(done, bad, step) ==
  /\ done \cap bad = {} /\ Cardinality(bad) <= 1
  /\ (bad = {}) = (step = "none")

Next ==
  \/ \E t \in Tasks, w \in Worktrees, i \in Ids, o \in RegisterOutcomes : Register(t, w, i, o)
  \/ \E h \in Handlers, t \in Tasks : Exec(h, t)
  \/ \E h \in Handlers, t \in Tasks : Remove(h, t)
  \/ \E h \in Handlers, t \in Tasks : Land(h, t)
  \/ \E h \in Handlers : GiveUp(h)
  \/ \E h \in Handlers : Launch(h)
  \/ \E h \in Handlers : WireControls(h)
  \/ \E h \in Handlers : SettleFailed(h)
  \/ \E h \in Handlers : SettleBooted(h)
  \/ \E h \in Handlers : ExecReturns(h)
  \/ \E h \in Handlers : noteExecFailure(h)
  \/ \E h \in Handlers : Resume(h)
  \/ \E i \in Ids : GuestDies(i)
  \/ \E done, bad \in SUBSET Registered, step \in TeardownSteps \cup {"none"} :
       Sweep(done, bad, step) /\ ReapExpired(done, bad, step)
  \/ \E done, bad \in SUBSET booted, step \in SuspendSteps \cup {"none"} :
       Sweep(done, bad, step) /\ SuspendIdle(done, bad, step)
  \/ Crash
  \/ Rehydrate
  \/ \E gone \in SUBSET Claims, i \in Ids, step \in {"audit", "drop"} :
       RehydrateFails(gone, i, step)

Spec == Init /\ [][Next]_vars

(* A boot runs on its own goroutine and each of its calls is bounded by a   *)
(* timeout of its own, and a woken waiter gets the mutex in the end; a      *)
(* command may run for ever and requests need not come.                     *)
BootStep(h) == Launch(h) \/ WireControls(h) \/ SettleFailed(h) \/ SettleBooted(h)

Fairness == \A h \in Handlers : WF_vars(BootStep(h)) /\ WF_vars(Resume(h))

FairSpec == Spec /\ Fairness

-----------------------------------------------------------------------------
(* Properties *)

(* While the daemon serves, its working set and the durable registry name   *)
(* exactly the same sandboxes under the same tasks: no registration that    *)
(* the next daemon would forget, no row that no request can address         *)
(* (Register, teardownLocked and Rehydrate keep the two in step).           *)
RosterIsDurable ==
  up => /\ \A t \in Tasks : byTask[t] # None => rows[byTask[t]] # "none" /\ task[byTask[t]] = t
        /\ \A i \in Ids : rows[i] # "none" => byTask[task[i]] = i

(* One sandbox per task and one per worktree, in the durable registry too,  *)
(* whichever daemon registered them (checkExclusivity; SEC-11).             *)
Exclusive ==
  \A i, j \in Ids : (i # j /\ rows[i] # "none" /\ rows[j] # "none")
                     => task[i] # task[j] /\ worktree[i] # worktree[j]

(* A boot in flight keeps its registration: while a handler launches,       *)
(* wires or settles, the sandbox it boots is still its task's map entry,    *)
(* that entry names this handler's attempt, and nobody else boots it        *)
(* (settleBoot: "reg is still the map's entry ... guaranteed to be").       *)
BootKeepsEntry ==
  \A h \in Handlers : pc[h] \in BootStages =>
    /\ on[h] \in Registered \ booted
    /\ boot[on[h]] = h

(* No stranded VM: a VM the manager reports running belongs to a registered *)
(* sandbox that is booted, or that is being booted right now by a handler   *)
(* past its launch (teardownLocked, reapExpired, rollbackBoot).             *)
NoStrandedVM ==
  \A i \in Ids : vm[i] = "running" =>
    /\ i \in Registered
    /\ i \in booted \/ (boot[i] # None /\ pc[boot[i]] \in {"wire", "settle"})

(* A booted sandbox is recorded as having a VM, so that a daemon that finds *)
(* its row after a crash asks the backend instead of reporting `created`    *)
(* (recordBootLocked persists before it sets booted; verifyLocked).         *)
BootedIsRecorded == \A i \in booted : i \in Registered /\ rows[i] \in {"running", "dead"}

(* Host egress and published ports never outlive the VM they serve          *)
(* (StopEgress and StopPublish come before every Stop).                     *)
NoDanglingControls == \A i \in wired : vm[i] = "running"

(* Nobody waits for a boot that nobody runs: a joiner's sandbox always has  *)
(* a boot in flight, owned by a handler that is running it.                 *)
JoinersHaveOwner ==
  \A h \in Handlers : pc[h] = "join" =>
    /\ boot[on[h]] # None
    /\ pc[boot[on[h]]] \in BootStages /\ on[boot[on[h]]] = on[h]

(* A sandbox that is gone stays gone: once it has no row and no             *)
(* registration, no late boot, command or sweep adds to its trail, brings   *)
(* back its row, or starts its VM (MGIT-122).                               *)
Gone(i) == trail[i] # <<>> /\ rows[i] = "none" /\ i \notin Registered

GoneIsFinal ==
  [][\A i \in Ids : Gone(i) => /\ trail'[i] = trail[i] /\ rows'[i] = "none"
                               /\ i \notin Registered' /\ vm'[i] # "running"]_vars

(* Every sandbox that was ever booted and is gone has a terminal event last *)
(* in its trail (FR-17.18); only a registration that failed while being     *)
(* recorded may be left at `created`.                                       *)
GoneEndsTerminal == \A i \in Ids : Gone(i) => Ended(trail[i]) \/ trail[i] = <<"created">>

(* A sandbox whose guest died: marked in memory, or, while no daemon is up,  *)
(* by its row. The idle sweep may have recorded it as suspended since; the   *)
(* next daemon discards such a row.                                          *)
Dead(i) == i \in dead \/ (~up /\ rows[i] \in {"dead", "suspended"})

(* Dead is for ever: a sandbox marked dead stays marked, through crashes and *)
(* restarts, until it is removed, and meanwhile is never booted nor given a  *)
(* command (EnsureRunning, noteExecFailure, Rehydrate; MGIT-99).             *)
DeadStaysDead ==
  [][\A i \in Ids : Dead(i) => /\ Dead(i)' \/ rows'[i] = "none"
                               /\ boot'[i] = None
                               /\ \A h \in Handlers :
                                    on'[h] = i /\ pc'[h] = "exec" => pc[h] = "exec"]_vars

(* The service implements the roster it promises: the durable registry is   *)
(* the roster, and a sandbox runs when it is booted and its VM runs.        *)
Roster == INSTANCE SandboxRoster WITH
  held <- {i \in Ids : rows[i] # "none"},
  running <- {i \in booted : vm[i] = "running"}

ImplementsRoster == Roster!Spec

(* Everyone waiting on a boot is released: its owner, the commands that     *)
(* joined it, and the removals and lands that wait it out (joinBoot,        *)
(* awaitBootLocked, settleBoot's close of attempt.done).                    *)
Waiting(h) == pc[h] \in BootStages \cup {"join", "remove", "land"}
WaitersReturn == \A h \in Handlers : []<>~Waiting(h)

-----------------------------------------------------------------------------
(* What the repository's own comments and soak invariants say, and the code *)
(* does not keep.                                                           *)

(* "A backend or audit failure leaves the sandbox registered and retryable" *)
(* (Remove): a registered sandbox with no boot in flight can be torn down,  *)
(* given that no write fails from now on.                                   *)
TeardownRetryable == \A i \in Registered : boot[i] = None => Stoppable(i)

\* The service is safe: the roster is durable and exclusive, a boot outside the
\* lock keeps its entry and its joiners their owner, no VM is stranded, nothing
\* dangles, and what is gone has ended (Service.Launch, startBoot, Remove, Reap).
ServiceIsSafe ==
  /\ TypeOK /\ RosterIsDurable /\ Exclusive /\ BootKeepsEntry /\ JoinersHaveOwner
  /\ NoStrandedVM /\ BootedIsRecorded /\ NoDanglingControls /\ GoneEndsTerminal
=============================================================================
