# TLA+ models of mgit

mgit is version control for coding agents. A project keeps a second,
append-only git store under `.mgit/`, in which every commit belongs to a task;
each task can have a linked worktree and, bound to that worktree, a microVM
sandbox that a per-project daemon (`mgit-sandboxd`) boots, feeds commands,
suspends, lands and destroys.

This directory holds TLA+ modules translated from the Go code, the TLC
configurations that model-check them on small instances, and TLAPS proofs of
the results that matter most.

    tlc -workers 2 -config SandboxService_faults.cfg MCSandboxService
    tlapm SandboxServiceProofs.tla

| module | what it is | section |
|---|---|---|
| `SandboxService`, `SandboxEvents` | the sandbox service over registry, trail and microVM manager | 2 |
| `SandboxRoster` | what the service promises its clients; `SandboxService` implements it | 2 |
| `EgressControl` | egress policy, capability broker and enforcement of one sandbox | 3 |
| `MicroTree` | trees, commits and materialisation, shared by several | 4 |
| `Landing`, `ObjectTransfer`, `LandNotify` | guest commits to the host branch, ledger and worktree; the objects behind them; the signal that starts a land | 4 |
| `TaskHistory`, `Serving`, `BaseSync`, `Workspaces`, `Merging`, `Bundles`, `IndexStore` | the repository: tasks, servers and lock, base, worktrees, merges, bundles, index | 5 |
| `Daemon`, `Fleet`, `ExecStream`, `SandboxVerbs`, `Snapshots`, `AgentFiles` | the daemon process and what talks to it | 6 |
| `GuestVM`, `WorktreeSync`, `ArtifactExport`, `PortPublish`, `TapFilter` | a VM and the host's side of it | 7 |
| `BaseCache`, `GuestTree`, `ImageTrust` | what a VM boots from | 8 |
| `SandboxLifecycleProofs`, `SandboxServiceProofs` | step lemmas, invariants and refinement of the service | 9 |
| `EgressProofs`, `LandingProofs` | theorems about `EgressControl` and `Landing` | 9 |
| `HistoryInvariant`, `HistoryProofs` | inductive invariant of `TaskHistory`; theorems about it | 9 |
| `DaemonProofs`, `StoreProofs` | theorems about `Daemon`, `PortPublish` and `LandNotify`; about `ImageTrust` and `Workspaces` | 9 |
| `MC*` | instances for TLC | |

`MCSandboxService`, `MCEgressControl`, `MCLanding` and `MCTaskHistory` extend one
component each. `MCLive`, `MCRepo`, `MCStore`, `MCGuest` and `MCHost` instantiate
several: a behaviour is a behaviour of the one component that `which` names, the
others' variables stand still, so a run explores their state spaces side by side
and their properties read `which = "..." => ...`. The safety runs use symmetry on
model values that stand for processes, tasks, contents or files which nothing
tells apart but by name (`Symmetry` in each MC module); `MCLive` uses none.

## 1. The system

### 1.1 How the parts interact

- A client reaches the daemon over a socket; each request is a goroutine of its
  own. The daemon calls the sandbox service, which alone owns registrations and
  calls the manager. Registry rows and audit events are written by the service,
  a row for what exists and an event for what happened.
- A boot asks the fleet ceiling, calls the manager, starts an egress stack,
  replays the grants of the capability broker and publishes ports, all without
  the service lock. The broker and the egress engine have locks of their own and
  call back on a denial.
- The manager creates a state directory with an exclusive overlay, lets a
  hypervisor start a VMM that dies with the daemon, waits for the guest to
  answer, binds the peer and opens the notify listener.
- A land pulls the guest's objects, verifies them and then takes the repository
  lock that every `mgit` command takes, to import, append to the task ledger,
  fast-forward the task branch over the worktree and record the delivery.
- A command opens the repository under the process lock, completes what the
  apply journal says an earlier one left undone, and then works on objects,
  branch, files, staging set and index, which are five separate stores without
  a common transaction. A server opens it once and locks per request.
- Bases live in a cache all repositories of a machine share, images under a
  signing key of the repository.

`PROJECT.json` ("components") lists every part with its status.

### 1.2 What is hard

Long operations outside the lock (boot, exec, derivation of a land, approval of
a grant, materialising a worktree, composing a base) whose subject changes
meanwhile; sequences of writes to separate stores that may stop after any of
them; a daemon whose memory and VMs go away while rows and trail stay; retries of
operations that were partly done; several requests that share one boot or one
land; several processes that start, stop and drain over one host root.
`PROJECT.json` ("hazards") lists each at its line, with the properties that would
catch it going wrong. Two hazards of the code have no property and are not in
the list: a late command failure marks the sandbox its task has now
(`sandbox_dead_guest.go:52`); a rule change drops grants the broker still counts as
live (`egress/livepolicy.go:26`).

Where the code looks and then acts, the two are separate steps, and others act in
between. What the code does not protect there is an exception in the property,
kept by a history variable, and never a step the model leaves out: a file saved
after a land, a merge or a checkout has looked at it (`late` in `Landing` and
`Merging`), a document edited after a launch has read it (`spoilt` in
`AgentFiles`), a connection that is between its authorisation and the registry
when the registry is emptied (`missed` in `EgressControl`), a signal that joins a
land which has read an older HEAD (`missed` in `LandNotify`), a guest file written
after a sync was planned. Section 10 lists the statements of the repository that
hold only with the exception.

### 1.3 What correct means

1. One sandbox per task and worktree; what is registered is what is recorded;
   every VM belongs to a registered sandbox and to a daemon that holds the host
   root; what is gone stays gone and its trail says how it ended (2, 6).
2. Every wait on a boot, a land, a request or a command ends (2, 4, 6).
3. The rules a sandbox runs under are the ones last acknowledged and were
   recorded before they took effect; grants survive a reboot; a policy change
   reaches the established connections it finds registered; filter rules and ports
   come and go with their sandbox (3, 7).
4. The ledger names only commits the store holds; what it calls delivered is on
   the branch; the branch never loses a commit; a land destroys no work of the
   host that it could see, a sync none of the guest; a commit whose signal got
   through lands (4, 7).
5. History only grows, but for a squash of the task that is checked out; a
   rollback undoes its own task, a squash is the net change of its own task; after recovery, files, ledger and branch agree; no
   base, merge or import loses or invents work (5).
6. What a VM boots is what was composed, signed and pinned (8).

## 2. The sandbox service

`SandboxService.tla` is `internal/service/sandbox*.go` over the microVM
manager (`backend/microvm/manager.go` with libkrun), the durable registry and
the audit trail. `SandboxEvents.tla` holds the event and state vocabulary and
`DeriveState`. `SandboxRoster.tla` is the promise to clients.

### State and actions

| model | code |
|---|---|
| `byTask`, `state`, `booted`, `dead`, `boot` | the `byTask` map and the fields of a registration; `boot[i]` is the handler whose attempt `reg.boot` is |
| `rows`, `trail` | the `sandboxes` table and the `sandbox_events` of a sandbox |
| `vm`, `dirs`, `wired`, `lost` | `Manager.sandboxes`, the state directories with `overlay.img`, host egress and published ports, guests that no longer answer |
| `pc`, `on` | what a request goroutine is doing, for which sandbox |
| `up` | a daemon serves |

`SandboxService.mu` is held through every operation except a boot (`runBoot`)
and a command (`manager.Exec`). An operation under the lock is one action with
one outcome per write that can fail. A boot is `Exec` (claims `reg.boot`), then
`Launch`, `WireControls` and `SettleBooted` or `SettleFailed`, interleaved with
everything else; a second command joins it (`join`), and a removal or a land
waits it out (`Await`, `Resume`). `Crash` loses the memory of the daemon and its
VMs between any two steps; a crash inside a locked operation leaves what a
failure of its next write leaves, so it is covered by that failure followed by
`Crash`. `Rehydrate` adopts or discards the rows it finds and may itself fail.
`Faulty` names the writes and calls that may fail.

What is left out: data (options, policies, argv), the idle and TTL clocks (any
registration may be idle or expired at any time), the container backend.

### Runs

| run | question | result |
|---|---|---|
| `service_faults` | two tasks, two worktrees, three IDs, two handlers, every fault, two crashes: does `ServiceIsSafe` hold (nine invariants of roster, boot and teardown), is what is gone final, do dead guests stay dead, and does the service implement the roster? | yes (all proved) |
| `live` (`WaitersReturn`) | three handlers on one task: is everyone who waits on a boot released? | yes |
| `service_retry` | is a failed teardown retryable? | no (finding) |

Bounds. Two handlers are the least that reach every pair of interleaved
operations (a boot and a removal, two boots, a late command and a successor);
three IDs allow a sandbox, its successor for the same task and a neighbour; five
requests are register, exec, remove, register, exec, the sequence behind the
late-failure case of section 10; two crashes allow a crash during the recovery from a
crash. The instance in `live` uses three handlers so that an owner, a joiner and a
remover wait on one boot.

Fairness (in `live` only): weak fairness of a boot's own steps, which run on
one goroutine under timeouts of their own, and of a woken waiter taking the
mutex. Nothing is assumed of commands, which may run for ever, or of clients.

## 3. Egress policy and capabilities

`EgressControl.tla` is one sandbox in allowlist mode: `EgressPolicyService`,
`CapabilityService`, the staged policy of the registration, and the stack of
`internal/sandboxd/egress` that the daemon runs for it.

| model | code |
|---|---|
| `state`, `boot`, `tearing`, `opts`, `launch` | the registration, how far its boot is, a teardown that holds the lock, `reg.opts` and the copy a boot took of it |
| `row` | the allow list of the durable row |
| `stacks`, `active` | every stack a boot started (rules, grants, pins, swaps, last completed kill), and the one in `Runner.active` |
| `live`, `pending`, `replay` | the broker's grants and requests, and the grants `ReplayGrants` has still to apply |
| `set`, `app`, `flow` | a policy change, an approval and a connection, each at the step it has reached |
| `granted`, `requested` | what the audit trail records |
| `promised`, `astray` | history: the policy last reported as pending, grants whose stack went away under their approval |
| `flow[f].since`, `flow[f].missed` | history: the rule change a connection was authorised under, and whether the registry was emptied while it was being resolved or dialed |

Stacks are numbered because a policy change, an approval and a connection look
their stack up under the runner's lock and use it after releasing it. A lookup
and the effect on the stack found are one step where no other step can tell them
apart. Launching is abstract here (it may succeed or fail); `SandboxService`
has its details.

| run | question | result |
|---|---|---|
| `egress_policy` | two policy changes, an approval, a connection, two boots, a restart: `GrantsAccounted` (recorded first; honoured, also after a replay, when held while the stack it widened ran; one prompt), `NothingOutlives` (a completed kill leaves no connection authorised before it, but those it could not find; no stray stack), `StagedIsEnforced`? | yes (all proved) |

Bounds. Two setters let one change overtake another between swap and kill; two
stacks let an approval, a change or a connection outlive the stack it found; one
destination that is reachable by address and through one name gives each
decision of the authorizer both outcomes; one restart separates the row from the
memory. The system may stop (a removed sandbox is never booted again), so
deadlock is not checked.

`StagedIsEnforced` says that the next stack starts from the policy last
reported as pending. A change applied to a running stack is not written to the
launch options, so it ends with that stack: the model has this, and no
property speaks of it. Neither does a rule change touch what the resolver has
pinned. A connection is authorised, its name resolved, its destination dialed, and
only then is it in the registry that a change empties; one caught on its way stays
(`RevokedIsGone`, section 10).

## 4. Landing

`Landing.tla` is a land of one task: `LandService`, `LandOrchestrator`,
`internal/sandboxd/land`, the native projection of `cmd/mgit-sandboxd` and
`FastForwardDelivered`, next to host commands and edits in the same worktree.

| model | code |
|---|---|
| `commits` | every commit; a commit is its number, `line` is what is reachable from it |
| `objects`, `whole` | the shared store: commit objects, and those whose tree and blobs are there too |
| `rows` | `task_commits` with the latest admission: position, origin, pending or delivered |
| `tip`, `disk`, `staged` | the task branch, the worktree and its staging set |
| `guest` | the head of the guest's private store |
| `cli`, `land` | the command that holds the repository lock; the stage of every caller of `Land` |
| `late` | history: the files edited since the land that holds the lock looked at them |

The derivation (pull, new chain, base position, verification) takes no lock; the
chain it settles on is any order of the new commits in which parents come first
(`ParentFirst`, of which `orderChain` takes one);
import, append, fast-forward and delivery run under the repository lock, one
step each, each with its failure. The fast-forward looks at the files
(`FastForward`) and then writes them and moves the branch (`materializeCommit`); an
edit may come in between. The check that follows takes the lock again.
A crash of the daemon takes guest and callers with it, a crash of a command
leaves its commit without a row. What signatures and content rules say of a
batch is left out (every guest commit passes them); so is the cap on lands of
different sandboxes.

| run | question | result |
|---|---|---|
| `landing_history` | two callers, three commits, one content, one crash: `LedgerHolds` (the ledger is grounded, delivered rows are on the branch, with the strengthenings of section 9), `LedgerFollowsHistory`? | yes (proved) |
| `repo` (`HostWorkKept`) | two contents: does a land, failed or retried, rewind the branch or destroy host work that was there when it looked and exists nowhere else? | it does not (proved) |
| `live` (`LandsReturn`) | two callers under fairness: does every land return? | yes |
| `landing_orphans` | does a land that reports success leave no guest commit without a row? | no (finding) |

Bounds. One path with a content or none gives trees that differ; a second
content is needed only to tell host work from both branch and target. Three
commits are a fork base, a host commit and a guest commit; two callers are one
who lands and one who joins. For longer histories there is the proof.
Fairness: a land in progress moves on, since it runs on a goroutine of its own
and waits for the lock with a timeout.

`ObjectTransfer.tla` is what `Landing` takes as one step each: `Provision` copies
the base into the guest's store, `ServeLandHead` streams what the head reaches,
and the host decodes, verifies, binds the tree and imports object by object, any
of which may break off; the policy file is read on the way. `RefsResolve` (run
`store`): what the task branch and the HEAD of the guest's store name is all there,
commits, trees and blobs. Of ledger rows `LedgerHolds` says it.

`LandNotify.tla` is the trigger: the guest fingerprints its store after each
command and signals a change (`landReadyGate`), the host's listener authorises
the peer and a handler lands; the land verb of the control plane lands beside it.
One land runs per sandbox, and who comes meanwhile shares its result (`flight.Do`),
also when it has already read the guest's HEAD. `QuietMeansLanded` (run `guest`,
proved): when no command runs and no handler works, every commit of the guest has
landed, unless the last signal was lost, its land failed, or it joined a land that
had read an older HEAD; the next land makes good for all three.

## 5. The repository

### Task history

`TaskHistory.tla` is one working copy on which several tasks commit:
`CreateCommit`, `RollbackTask`, `CherryPick`, `SquashTask`, `RestoreAll`,
`RestoreFile`, staging, and `RecoverPendingApply`. Commands are serialised by
the process lock, so a command is one action; its parameter `got` is the last
write it made, and a command cut short leaves exactly the writes up to it, with
files written in part where it was writing files. A command opens the repository
through recovery: with a journal pending only `RecoverPendingApply` and edits
are possible. `applied` and `edited` are history variables. `current` is the branch
checked out: a squash sets the branch of its task, and when that is the one
checked out, as it is in the task's own worktree, the tip moves with it while the
files stay, so that work of others on that branch then counts as edits.

The branch of `RecoverPendingApply` for a journalled commit that is an older
ancestor of the tip is translated and not reached here: only a long-lived server
or another root moves the tip while a journal is pending.

| run | question | result |
|---|---|---|
| `history_crash` | two tasks, four commits after the base, main or a task's branch checked out, one command cut short and its recovery again: `RecoveryIsComplete` (every revert recorded, every tip on disk after recovery), `RewritesAreExact` (rows are never dropped, a commit leaves the lineage only when the task checked out is squashed, a rollback equals the history without its task at every path nobody else changed since, a squash is its base with the net change of its task)? | yes (both proved) |

Bounds. Two tasks and one path interleave in every order; two contents and
absence distinguish before, between and after; five commits are a base, two
commits, a rollback or a squash and one more; one command is cut short (`MaxCuts`),
and a recovery any number of times.
`RollbackIsReplay` excludes the paths another task changed after the task (see
section 10).

### The rest of the repository

| module | code | property (run) |
|---|---|---|
| `Serving` | `mgit serve` (REST and MCP) and commands over one store: process lock, open with recovery, per-request lock, one apply journal for all roots, the configuration file | `StaleNeverAbsorbed` (`repo`): the stale files of an interrupted apply are committed only by a process that was already open when it was cut short, a server or a command that gave its lock back (`mgit work`, `mgit worktree add`), and not once anybody has opened that root again; `RevertStands` (`serving_revert`): never, which fails (finding) |
| `BaseSync` | the resync of the shared base with the project's git, with the staging area it borrows; edits and git commits beside it | `SyncIsHonest` (`repo`): a base that says it is synced has absorbed what git has committed, nothing else, and staging survives |
| `Workspaces` | claim, fork base, materialise, roll back, remove, prune, branch delete; commits from a worktree and from the main directory, cut between ref and row | `PinHolds` (`repo`, proved): the fork point a registered task is pinned to is the parent of its first recorded commit, unless its branch was deleted or bound to another task, or its first commit was made on another branch or lost its row |
| `Merging` | merge (fast-forward, three-way, squash) and checkout, look, files and branch as three steps, with saves and a crash in between | `MergeLosesNothing` (`repo`): a merge keeps both sides' changes, a branch keeps its history and what is its own under every strategy, and no checkout or merge overwrites tracked work that was there when it looked |
| `Bundles` | export, damage in transit, import one row at a time, killed and repeated | `ImportIsSound` (`store`): a repeated import converges, and imported rows never pass for local content |
| `IndexStore` | several processes opening the SQLite index (write-ahead switch, tables, columns, version), ULIDs of appended events | `OpensAndOrders` (`store`): an open fails only when a wait outlasts its budget or another migrates the same old database first, and one that succeeds finds the whole schema; the newest event by id is the last appended, though the clock steps back, unless a later daemon wrote it at a millisecond no greater than an earlier one's |

Bounds. Two paths and two contents for trees; two processes; one fault or crash,
which is what separates two writes of one command; two commits per branch over a
shared base. SQLite is external: one writer at a time, waiting writers, and a
write-ahead switch that is refused at once.

## 6. The daemon and what talks to it

| module | code | property (run) |
|---|---|---|
| `Daemon` | processes that compete for one host root: claim, host-wide record, socket and its lock, bounded handlers, idle exit, the two drains, the client's activation, handshake and one request per connection, `daemons stop` | `DaemonStands` (`host`, proved): VMs are supervised, a socket that answers is on record, a drain that listed the registry after its signal leaves nothing behind; `RequestsReturn`, `NoLingeringDaemon` (`live`) |
| `Fleet` | the ceiling from policy, flags and measured memory, and `CeilingManager` while launches overlap | `AdmissionIsSound` (`host`): the fleet stays within its ceiling, reservations balance, the ceiling is off only on purpose |
| `ExecStream` | one exec on an open stream: handler, ticker, runner, probe, and the client's read deadline | `SilenceIsRead` (`live`): a client reports a stall only of a wedged daemon, and a wedged daemon keeps up no beat; `RunnerEnds` (`live`) |
| `SandboxVerbs` | the sandbox commands from the command line to the daemon and back, with a daemon that restarts | `NothingMeansNothing` (`host`): a command that says nothing ran or changed has changed nothing and will not; the answer to a sync that was too large to send is the exception (`UnsentMeansNothing`, section 10) |
| `Snapshots` | the housekeeping pass that captures settled worktrees, and restore | `QuietWorkIsSaved` (`live`): work left alone is in a snapshot in the end |
| `AgentFiles` | pointers, routing files and the generated block in CLAUDE.md and AGENTS.md; staging and committing around them | `TextsStayApart` (`host`): regeneration keeps the user's lines, but for an edit made between its read and its write and for a write cut short; bulk staging takes up no listed file, and the commit of a listed document that has text of its own leaves the block out |

Bounds. Two daemons and two clients of different protocol versions, one
connection slot, one fault: the least at which a client is refused for the
limit, one is refused for its version, a predecessor is draining while a
successor starts, and a stop meets either. Three launches fill a ceiling of two.
Time in `ExecStream` passes in half heartbeats, the coarsest grain that separates
a beat sent in time from one that is late.

Fairness (`live`). Steps of a daemon process and of a connection's handler
(goroutines that are scheduled), a client's timers, a boot's own steps and woken
waiters, a land's steps, the start of a VMM's child and its lifeline watcher, the ticker, the
housekeeping pass. Nothing is assumed of users, guests, commands, or of an
operation that may fail for ever.

## 7. A VM and the host's side of it

| module | code | property (run) |
|---|---|---|
| `GuestVM` | launch, exec, stop and removal over libkrun, firecracker and vzf: handshake, the child's adoption of its lifeline, peer binding, notify listener, the VMM's and the daemon's death | `HostStateOwned` (`guest`): a sandbox owns the directory it runs from; one the manager no longer knows has no VMM, binding, listener or tap, but for a guest left to its graceful stop and a tap that was set up half way or whose daemon died; and the lifeline of a VMM whose daemon runs holds; `OrphansEnd` (`live`): a VMM that outlives its daemon ends, unless it waited too long for its token and runs without a lifeline |
| `WorktreeSync` | carrying host edits into a running guest, and the check that the guest reads them | `SyncKeepsGuest` (`guest`): a sync that is not forced overwrites nothing the guest wrote before the plan, and the baseline it decides from is the truth about the guest's tree |
| `ArtifactExport` | plan, copy, place, sidecar and audit of an exported path, with a guest that keeps writing | `ExportIsAccounted` (`guest`): what stays on the host is within the limits and on record |
| `PortPublish` | loopback listeners per sandbox, opened outside the lock | `PortsOnRecord` (`guest`, proved): a port is held exactly while it is on record or being opened |
| `TapFilter` | the chains, rules and taps of each sandbox, one command at a time, any of which may fail | `FilterFollowsLife` (`guest`): a running guest reaches what its mode allows, a removed one leaves no rule, unless one of its commands failed |
| `LandNotify` | see section 4 | `QuietMeansLanded` (`guest`, proved) |

Bounds. Two sandboxes interfere through host ports, destinations, directories
and shared chains; a third adds no new pair. One fault at any call is what a
half-done operation needs. `TapFilter` has one packet per source and destination
class, which is all a rule distinguishes.

## 8. What a VM boots from

| module | code | property (run) |
|---|---|---|
| `BaseCache` | the cache of composed bases, each repository's `images.lock`, compose, migration and prune | `PinnedBasesKept` (`store`): no pinned or occupied base is pruned, none is ever rewritten |
| `GuestTree` | layers extracted in order with whiteouts, the guest binary, the digest | `BaseIsTheImage` (`store`): the tree is what the layers describe, checked against a reference definition over all layers of two entries, but that a marker late in its layer also takes entries of that layer; what is published is pinned and bootable |
| `ImageTrust` | signing key, registration, rotation, and `Store.Resolve`, which reads lock, rootfs and kernel one after the other | `AdmittedWasRegistered` (`store`, proved): the rootfs and the kernel that `Resolve` hashed were registered together, under the key the daemon trusts |

## 9. Proofs

Eight modules hold theorems that TLAPS checks, for every value of the constants:
any sets of tasks, processes, callers, paths and contents, any bounds. TLC
checks the same formulas, inductive strengthenings included, on the small
instances of the runs named in sections 2 to 8.

| theorem | module | states |
|---|---|---|
| `TypeCorrect`, `RosterStaysDurable`, `AlwaysExclusive`, `BootsKeepTheirEntry`, `JoinersAreServed`, `NoVMIsStranded`, `BootedStaysRecorded`, `ControlsNeverDangle`, `GoneHasEnded`, `ServiceStaysSafe` | `SandboxServiceProofs` | the nine invariants of the service, and their conjunction `ServiceIsSafe` |
| `GoneStaysGone`, `DeadIsForEver`, `ServiceImplementsRoster` | `SandboxServiceProofs` | `GoneIsFinal`; `DeadStaysDead`; the service implements `SandboxRoster` |
| `GrantsAlwaysAccounted`, `NothingEverOutlives`, `StagedIsAlwaysEnforced` | `EgressProofs` | `GrantsAccounted`, `NothingOutlives`, `StagedIsEnforced` |
| `RecoveryAlwaysComplete`, `RewritesAreAlwaysExact` | `HistoryProofs` | `RecoveryIsComplete`, `RewritesAreExact` |
| `LedgerAlwaysHolds`, `LedgerAlwaysOrdered`, `HostWorkAlwaysKept` | `LandingProofs` | `LedgerHolds`, `LedgerFollowsHistory`, `HostWorkKept` |
| `DaemonAlwaysStands`, `PortsStayOnRecord`, `QuietAlwaysMeansLanded` | `DaemonProofs` | `DaemonStands`, `PortsOnRecord`, `QuietMeansLanded` |
| `AdmittedAlwaysRegistered`, `PinAlwaysHolds` | `StoreProofs` | `AdmittedWasRegistered`, `PinHolds` |

Assumptions on constants. `SandboxService`, `EgressControl`, `MicroTree`, `Landing`
and `TaskHistory` name theirs (`NoneAssumption`, `FaultAssumption`,
`EgressAssumption`, `AbsentAssumption`, `BoundsAssumption`, `BytesAssumption`,
`BoundAssumption`) and TLC evaluates them in the runs of modules that extend
them. The others state them in `WellFormed`, a hypothesis of each theorem: bounds
are natural numbers and the value that stands for nothing is none of the
things it is told apart from. Nothing else is assumed.

### The service

None of the invariants is inductive alone. The argument is their conjunction
`IInv` with strengthenings: `Bindings` (an ID is bound to a task and a worktree
exactly when its trail is not empty, so a fresh ID can have no row, VM or
handler), `Down` (a stopped daemon has no memory, which is why `Rehydrate` starts
from nothing), `BootOwner` and `Joining` (`boot[i]` and the handler's stage name
each other, so at most one handler launches a sandbox), `BootingVM` (what the VM
and the controls can be at each stage of the boot) and `Working` (every handler
works on a sandbox that was registered). `NoStrandedVM` needs `BootKeepsEntry`:
the VM that a launch has just started is not booted yet, and only the fact that
nobody can remove a registration with a boot in flight keeps it from being
orphaned. There is one lemma per action (in
`SandboxLifecycleProofs` those of commands, boots, registration, dead guests and
teardown, the rest before the theorems) and one, `TeardownStep`, for the sweep that `Remove`,
`Land` and `ReapExpired` share.

The refinement maps the roster to the rows, and a running sandbox to a booted
one whose VM runs. Each action is shown to be a roster step or a stutter;
`Rehydrate` maps to `End` of the rows it discards, a failed teardown to `Halt`.

`DeadStaysDead` needs one thing more, `DeadRecorded`: what a daemon marks dead has
a row that says dead, or suspended once the idle sweep has passed over it, and no boot
in flight. The sweep's row is why the property lets a restart forget the sandbox:
`Rehydrate` reads suspended as a VM that is lost and discards it.

### Egress

The inductive invariant follows what has been asked for on its way into a stack.
`Recorded` has everything that is on its way (options, row, the copy a launch
took, the list a setter is about to stage or swap, the grants being replayed, the
destination an approver holds) among the recorded events, not only what the stack
has. `Reported` says that options, row and the launch's copy are the policy last
reported, which gives `StagedIsEnforced`. `Honoured` says of a stack whose policy
was not replaced that a grant held while the stack it widened ran is among its grants
or still to be replayed, and that an approver which found this stack has already changed it.
`Reached` is `KillReachesAll`, said of flows on their way as well, with its reason: a
spliced flow is tracked, so `CloseAll` finds it, and one that is not yet tracked when
`CloseAll` runs is `missed` from then on. `Phases` (a boot, a teardown and a running stack exclude each
other) and `Grounded` (what a request or a connection points to has been started,
and no kill is ahead of its swaps) hold it together. One lemma per action shows
that it is kept.

### Landing

The inductive invariant is `LedgerHolds` itself. Besides types, `LedgerGrounded`
and `DeliveredOnBranch` it has

- `LinesClosed`: what is reachable from a commit is closed under reachability,
  and ancestors have smaller numbers;
- `StoreClosed`: a commit held with its tree is held with its whole history; the
  branch, every row and the commit a command has yet to index are held so;
- `FlightAlone`: at most one land is past its claim, its batch is a chain in
  parent-first order below the head it pulled, and when it appends, all of that
  history is in the store and no command is running;
- `BatchFresh`, `RowsOrdered`: why the ledger follows the history;
- `LockAlone`, `Judged`: the repository lock has one holder, and what a land found
  when it looked at the files is still so when it writes them, but for the files
  edited since (`late`).

`RowsOrdered` is the interesting one. `newChain` reads the base position before the lock is
taken, so rows may be added between the read and the append, and a batch may
end up at a position that an ancestor of it already has. `BatchFresh` says
exactly how far that can go: a commit of the batch is in no row's history, and of
the batch's own history the ledger can have gained only the one commit whose
command had written it and not yet its row when the guest forked from it. That row has the
batch's base position, and since it was inserted first, order by position and
then by insertion still puts it first. The order holds for pending rows too
(`RowsOrdered`), and has to: a retry may mark any of them delivered later.

The step lemmas are split by what a step may disturb. Most steps only retreat
(`Retreats`: no new row, no new flight) or leave commands alone (`CommandQuiet`,
`LinesKept`) and share `QuietStep`; `CommitStep`, `IndexStep`, `DeriveStep`,
`ImportStep`, `AppendStep`, `PublishStep` (the look), `WriteStep` and `RecordStep` are
the others; `LockStep` and `JudgedStep` treat the last two conjuncts. `HostWorkKept`
follows from the invariant: the look of a fast-forward checks descent, which `Judged`
keeps until the write and `LinesClosed` turns into containment of histories; the
files it replaces are, by `Judged`, those of a commit that `StoreClosed` says is there
(`WorktreeStep`).

### Task history

`RecoveryIsComplete` says what holds when no journal is pending; the invariant
says what holds while one is. `Pending`: the journal is about the last commit
written, a rollback or a cherry-pick, and has the bytes of that commit. `Reverts` and
`Files`: a revert that is not on record, and a file that is not the tip's, are the ones
the journal vouches for. So a process may die at any step of an apply, and again in
any step of the recovery, and what is left is what the journal says.

`RewritesAreExact` compares the trees that commands compute from the ledger with
the history they stand for. `Shape` (the line of a commit is a chain that ends in
it), `Carried` (a tree has at a path what the last commit of its line that changed
the path left there), `Ledger` (a task's rows come in commit order), `Net` (the
net change of a task is the change its own rows made, because the squashes among
them add nothing) and `Current` are the strengthenings. `Current` is about the task
checked out, whose squash moves the tip: the lineage goes through its base and has
nothing older than its first row beyond it (`BasedAt`), and the tip has its net change
wherever nobody else's work is on the lineage (`KeptAt`). The first bounds what such a
squash takes off the lineage, the second is why the files stay those of the tip. A
commit that was cut short before its row counts there as somebody else's: a squash
leaves it out, and once it is off the lineage `mgit verify` no longer reports it.
`NetGrown` shows that a new row keeps `Net`, `CarriedGrown` that a new commit keeps `Carried`. `RollbackReplays` then
reads the state before a task's first change of a path off `Carried` (`WithoutIs`,
`TouchedIs`, `InverseIs`), and `SquashNets` the squash off `Net`.

Ledgers are treated through index sets with a least and a greatest element: that a set
of naturals has a least element (`LeastNumber`) comes from the library's well-founded
order on the naturals, in its form without an operator parameter. An earlier form of
`RecoverPendingApply` had `CASE` arms whose guards overlapped. TLC takes the first that
holds, the logic leaves the choice open, and the proof of `RecoverStep` did not go
through until the guards were made exclusive, here and in the other modules.

### Daemon

`Ownership` is the strengthening. `OneClaimer`: a process past `ClaimHostRoot` is
the one that holds the claim, so no two are. With it `VMsOutlastBoot` (there are
VMs only under a claimer that has rehydrated), `RecordKept` (from its write to its
removal the record is that of the process, or was removed by a stop) and
`SealedIsLast` (a drain that listed after its signal only drains) give the three
parts of `DaemonStands`. `PeerIsUp` and `ServedIsAsked` relate a connection to the
process it reached and to the request it carries: without them not even the types
are preserved, because a handler acts on the task of a client that may have gone.

### Ports, signals, images, worktrees

- `PortsOnRecord` needs `Reserved`: while the ports of a sandbox are being opened
  its entry is empty, otherwise nothing is open beside it.
- `QuietMeansLanded` needs `LandPending`: neither gate nor host is ahead of the
  guest's store (`NothingAhead`), what the gate has not seen has its command still
  running (`GateFollows`), and what it has seen is landed, was missed, or its signal
  or a handler that will pull it or has pulled it is on the way (`OnTheWay`). A
  handler that joins a land with an older HEAD is `missed`, until the next pull.
- `AdmittedWasRegistered` needs `LockedWasRegistered`: the lock file holds nothing
  that no `Register` wrote, whichever files installs leave beside it, and a `Resolve`
  carries the entry it read to its end, each file replaced by what it hashed.
- `PinHolds` needs `Pinned`: of a task that has not `strayed` (branch deleted or bound
  by another task, first commit elsewhere or without its row), the branch is at the
  pinned base until the first commit, exists from then on, and is bound in no
  directory but its own.

### What is only model-checked

- Liveness (`WaitersReturn`, `LandsReturn`, `RequestsReturn`, `NoLingeringDaemon`,
  `OrphansEnd`, `RunnerEnds`, `QuietWorkIsSaved`) and `SilenceIsRead`, which runs
  with them: fairness and `ENABLED` are out of the prover's reach.
- What rests on induction over data: sums over a set (`AdmissionIsSound`), folds over
  a sequence (`BaseIsTheImage`), what `SelectSeq` or a sort leaves of a sequence of any
  length (`ImportIsSound`, `FilterFollowsLife`, `TextsStayApart`), reachability by a
  RECURSIVE operator (`RefsResolve`).
- Not attempted: the properties of `GuestVM`, `WorktreeSync`, `ArtifactExport`,
  `BaseCache`, `Serving`, `BaseSync`, `Merging`, `IndexStore` and `SandboxVerbs`.

## 10. Findings, and statements of the repository the models do not bear out

`PROJECT.json` ("findings") quotes the three statements that a run refutes:
`service_retry`, `landing_orphans` and `serving_revert`. The modules also define
statements quoted from a comment, a test or a document that the model does not
bear out, and for which no run is kept. TLC refutes each on the component alone, with the
constants of the run given and the changes noted.

| statement | module (run) | what the code does |
|---|---|---|
| `ChainLands` | `Landing` (`landing_history`) | `buildRequest` (`land_service.go:378`) deregisters the pulled pool before the orchestrator verifies, so a batch of two new commits is refused |
| `LateEditsKept` | `Landing` (`repo`) | "It never accepts a third version": `FastForwardDelivered` (`merge_delivered.go:49`) checks every file and then writes, so a file saved in between is overwritten |
| `LandsAsSoon` | `LandNotify` (`guest`) | a signal that joins a running land (`land_service.go:265`) gets what that one pulled, so a commit made after the pull waits for the next signal |
| `RevokedIsGone` | `EgressControl` (`egress_policy`) | a connection authorised and not yet tracked when `CloseAll` runs (`egress/livepolicy.go:96`, `transparent.go:135-166`) is spliced afterwards |
| `HeldIsHonoured` | `EgressControl` (`egress_policy`) | an approval whose stack is torn down before the broker holds the grant (`capability.go:92`) holds a grant the next stack was not replayed |
| `RegrantPossible` | `EgressControl` (`egress_policy`) | `RecordDenial` (`capability.go:132`) takes a grant that a rule change dropped for live, so it is never asked for again |
| `RollbackSparesOthers` | `TaskHistory` (`history_crash`) | `verifyOldState` (`commit_from_diffs.go:162`) compares content only: work of another task that left the same content (a cherry-pick, a `chmod`) is taken back |
| `SquashKeepsHead` | `TaskHistory` (`history_crash`) | "It NEVER advances HEAD": `CreateSquashCommit` (`squash.go:139`) sets `task/<id>`, which is HEAD in the task's worktree |
| `MergeRefusesDirty` | `Merging` (`repo`) | a file saved between the dirty check and the write (`merge.go:167-177`) is overwritten |
| `UntrackedKept`, `SquashCarriesSource` | `Merging` (`repo`) | a checkout writes over an untracked file of the same name; a squash merge may hold less than its source changed |
| `ClaimStaysExclusive` | `Workspaces` (`repo`) | a prune between claim and materialisation frees the claim of an addition that is still running |
| `ResyncConverges` | `BaseSync` (`repo`) | a gate killed half way leaves state from which the next one records a sync it did not make |
| `SetChangesItsKey` | `Serving` (`repo`, two keys) | a server writes back the configuration it read when it opened |
| `FullyRecordedHolds`, `RegisterKeepsOthers` | `BaseCache` (`store`; the second with two processes and two names) | a migration killed before it recorded its pin; two registrations of one repository, the later write wins |
| `OrderedAcrossProcesses` | `IndexStore` (`store`) | the clamp of `newULID` (`index/store.go:106`) is per process: after a restart under a clock stepped back, new events sort before old ones |
| `RegisteredIsAdmitted`, `InstallFailsClosed`, `ResolvedIsOnDisk` | `ImageTrust` (`store`) | a daemon keeps the key it opened with; two installs interleave kernel and rootfs; a file is replaced after `Resolve` has hashed it |
| `OwnFilesRemain`, `GuestBinaryRuns` | `GuestTree` (`store`) | an opaque marker late in its layer removes files of that layer; the binary keeps the mode of the file it replaces |
| `WaitingCanWork` | `Fleet` (`host`) | the count is tested before the size, so a launch that never fits is told to wait |
| `UnsentMeansNothing` | `SandboxVerbs` (`host`) | "Nothing was applied", of an answer over the size cap: a sync has been applied by then (`dispatch.go:270`, `:492`) |
| `LostServingIsTrue`, `OwnerReachesBinding` | `SandboxVerbs` (`host`; the second with two repositories) | an error of the wire reads like a guest lost in mid-command; a worktree's owner file is overwritten by a second repository |
| `UserTextKept` | `AgentFiles` (`host`) | `upsertMarkedFile` (`markers.go:31`) writes back what it made of the text it read, so a line saved in between goes, and a write cut short takes the text with it; with `MarkerEdits` true, two runs and two edits, also when the user deletes an end marker, since the next end marker closes the block |
| `ClaimsOnlyWritten` | `AgentFiles` (`host`) | a file that already existed is claimed as generated |
| `RetryRunsOnce`, `StopHalts` | `GuestVM` (`guest`) | an exec whose connection fails after the send is sent again; a stop of vzf that fails leaves the VM running, recorded as suspended |
| `ExportNeverOverwrites` | `ArtifactExport` (`guest`) | the destination is checked before it is placed, and an undo removes what is there by then |
| `FailedSyncReruns`, `NoPartialView`, `KnownStaleNeverRuns` | `WorktreeSync` (`guest`) | a path only a failed sync wrote becomes a conflict; an explicit sync does not wait for commands that run; a later command forgets what an earlier one found stale |

Two properties hold only for the instances given: `QuietWorkIsSaved` needs edits
that bring back no earlier content and a clock that only advances (`Reverts`,
`ClockSteps`), `TextsStayApart` markers that the user leaves alone (`MarkerEdits`).
Setting the constant shows the counterexample.

Differences seen while reading, of the modelled parts, without a definition:

- Terminal events. `teardownLocked` appends the terminal event and then drops the
  row (`sandbox_lifecycle.go:205`, `:214`); when the drop fails the retry appends a
  second one. `scripts/e2e/sandbox_fleet_soak.sh:30`: a trail "never continues
  past a terminal event".
- Boot retry. After a crash during a boot the state directory exists and
  `createOverlay` (`backend/microvm/manager.go:1193`) is exclusive, so the next
  boot of the adopted registration fails. `sandbox.go:410`: "A boot failure leaves
  the registration intact (not booted) so the next attempt can retry." The same
  holds after `SuspendIdle` (`sandbox_lifecycle.go:14-15`).
- State directories. Teardown calls the backend, and revokes grants, only for a
  booted registration (`sandbox_lifecycle.go:180`). `sandbox_fleet_soak.sh:28`: "no
  state dir leaks after destroy".
- Registration. `Register` appends `created` before it writes the row
  (`sandbox.go:284`); a crash between them leaves a trail that ends there.
  `sandbox_rehydrate.go:41`: "so the trail never ends at `created` for a sandbox
  that is gone".
- Dead guests. `noteExecFailure` looks the registration up by task
  (`sandbox_dead_guest.go:52`), so a late failure may mark a successor.
- Delivery. `landProjection.Check` looks at the last ledger row by position
  (`cmd/mgit-sandboxd/land_projection.go:169`), so an earlier row may stay pending
  behind a successful answer. `land_projection.go:153`: "A durable ledger append is
  not proof of delivery".
- Records. `daemons stop` removes the record of a daemon that has just started
  when it read the record of its predecessor (`sandbox_daemons.go:215-243`); this is
  the exception `unlisted` in `AnswerImpliesRecord`.
- `verify --fix` repairs nothing (`cmd/mgit/verify.go:49-61`); `branch --rename` never
  succeeds (`cmd/mgit/branch.go:42-56`); the container backend is built without a
  work directory and always refused (`platform_backend.go:70-87`).

## 11. What is not modelled

Wire formats, signatures and hashes (a commit is its number); what a hypervisor
or the kernel does below the interface used; object encoding, packs and garbage
collection; HTTP and MCP framing; diagnostics and release tooling. Idle and
lifetime clocks are nondeterministic choices. Crashes in the middle of one file
write are modelled where the code replaces files in steps (`TaskHistory`,
`Serving`, `Merging`, `BaseCache`, `ImageTrust`) and for the documents and the
configuration (`AgentFiles`, `Serving`), and not for other single `os.WriteFile` calls
(images and their sidecars). Code
without a caller (`images/warmpool.go`, `LockBranch`, `DeriveState`) is not
covered. `PROJECT.json` gives the reason for every part left out.
