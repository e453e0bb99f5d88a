------------------------------ MODULE GuestVM ------------------------------
(***************************************************************************)
(* One sandbox VM from launch to removal, and the command it runs:         *)
(* microvm.Manager (Launch, Exec, Stop, Remove) over the three microVM     *)
(* hypervisors.  libkrun runs each VM in a re-executed child of the daemon *)
(* that reports over a handshake pipe and dies with the daemon through a   *)
(* lifeline pipe; firecracker ("kvm") runs a VMM process tied to the thread*)
(* that forked it, with a tap device; vzf runs the VM inside the daemon.   *)
(*                                                                         *)
(* SandboxService keeps one operation at a time on a sandbox, so launch,   *)
(* stop and removal of one VM do not overlap; the VMM, the guest, a command*)
(* and the daemon's death interleave with each of their steps.             *)
(***************************************************************************)
EXTENDS Naturals, FiniteSets

CONSTANTS
  Ids,        \* sandbox IDs
  Dirs,       \* state directory names: the last eight characters of an ID
  None,       \* no sandbox
  Backends,   \* the hypervisors a daemon may run on
  Modes,      \* network modes, of "none", "open" and "allowlist"
  MaxLaunches, MaxFaults  \* bounds

VARIABLES
  backend,    \* the daemon's hypervisor
  up,         \* the daemon runs
  seg,        \* SandboxStateDir of an ID
  dirs,       \* the state directories: the owner of the overlay, and the files
  mode,       \* the network mode of the VM
  reg,        \* Manager.sandboxes, by state
  ready,      \* sandbox.guestReady
  vmm,        \* the VMM of a sandbox
  lifeline,   \* libkrun: the pipes whose write end the daemon holds, those a child
              \* watches, and those a child gave up on (for the property)
  handshake,  \* what the libkrun child wrote to its handshake pipe
  control,    \* libkrun children that serve their control channel
  guest,      \* what serves inside the VM
  bound,      \* PeerBinder's bindings
  notify,     \* NotifyRegistrar's listeners
  live,       \* vzf's liveVMs
  tap,        \* tap devices (and firewall rules) on the host
  pc,         \* the stage of a launch in flight
  cmd,        \* a command: its sandbox, its stage, and how often the guest ran it
  orphan,     \* history: VMMs whose daemon is gone
  asked,      \* history: VMs that were asked to stop, and left to it
  strayTap,   \* history: taps whose setup failed half way, or whose daemon died
  spent       \* bound counters

vars == <<backend, up, seg, dirs, mode, reg, ready, vmm, lifeline, handshake, control, guest, bound,
          notify, live, tap, pc, cmd, orphan, asked, strayTap, spent>>

Files == {"overlay", "store", "staging", "image", "baseline"}
Running == {i \in Ids : vmm[i] # "none"}
Empty == [owner |-> None, files |-> {}]
NoCmd == [id |-> None, at |-> "none", runs |-> 0]

TypeOK ==
  /\ backend \in Backends /\ up \in BOOLEAN
  /\ seg \in [Ids -> Dirs] /\ dirs \in [Dirs -> [owner : Ids \cup {None}, files : SUBSET Files]]
  /\ mode \in [Ids -> Modes]
  /\ reg \in [Ids -> {"none", "running", "suspended"}]
  /\ vmm \in [Ids -> {"none", "spawned", "configuring", "entered"}]
  /\ lifeline \in [held : SUBSET Ids, watched : SUBSET Ids, late : SUBSET Ids]
  /\ handshake \in [Ids -> {"none", "ok", "error"}]
  /\ guest \in [Ids -> {"down", "serving", "skewed"}]
  /\ UNION {ready, control, bound, notify, live, tap, orphan, asked, strayTap} \subseteq Ids
  /\ pc \in [Ids -> {"idle", "created", "handshake", "confirm"}]
  /\ cmd \in [id : Ids \cup {None}, at : {"none", "dialing", "sent", "ran"}, runs : 0..2]
  /\ spent \in [{"launches", "faults"} -> Nat]

\* NewManager: an empty map of sandboxes over a work directory.
Init ==
  /\ backend \in Backends /\ up = TRUE
  /\ seg \in [Ids -> Dirs] /\ dirs = [d \in Dirs |-> Empty]
  /\ mode = [i \in Ids |-> "none"] /\ reg = [i \in Ids |-> "none"] /\ ready = {}
  /\ vmm = [i \in Ids |-> "none"] /\ lifeline = [held |-> {}, watched |-> {}, late |-> {}]
  /\ handshake = [i \in Ids |-> "none"]
  /\ guest = [i \in Ids |-> "down"]
  /\ control = {} /\ bound = {} /\ notify = {} /\ live = {} /\ tap = {}
  /\ pc = [i \in Ids |-> "idle"] /\ cmd = NoCmd
  /\ orphan = {} /\ asked = {} /\ strayTap = {}
  /\ spent = [k \in {"launches", "faults"} |-> 0]

Spend == spent["faults"] < MaxFaults /\ spent' = [spent EXCEPT !["faults"] = @ + 1]
MayFail(failed) == IF failed THEN Spend ELSE UNCHANGED spent
fixed == <<backend, up, seg>>
records == <<reg, ready, bound, notify>>
machine == <<vmm, lifeline, control, guest, orphan>>

\* os.RemoveAll of the sandbox's state directory.
RemoveDir(i) == dirs' = [dirs EXCEPT ![seg[i]] = Empty]
VmmIs(i, s) == vmm' = [vmm EXCEPT ![i] = s]
Goto(i, stage) == pc' = [pc EXCEPT ![i] = stage]

(* The VMM of a sandbox ends, and what ran in it or served it; a child is   *)
(* reaped before the daemon lets go of its lifeline (execChild.Wait).       *)
Unlinked(i) == [k \in DOMAIN lifeline |-> lifeline[k] \ {i}]
Halt(i) ==
  /\ VmmIs(i, "none") /\ guest' = [guest EXCEPT ![i] = "down"]
  /\ control' = control \ {i} /\ orphan' = orphan \ {i} /\ lifeline' = Unlinked(i)

-----------------------------------------------------------------------------
(* Launch *)

(* What the resolved base is on disk: a directory, a kernel and a rootfs    *)
(* image, a rootfs without a kernel, or nothing (left to the hypervisor).   *)
Shapes == {"dir", "image", "bare", "missing"}
checkBootShape(shape) ==
  shape = "missing" \/ shape = (IF backend = "libkrun" THEN "dir" ELSE "image")

(* createOverlay opens the overlay image exclusively. *)
createOverlay(i) == dirs[seg[i]].owner = None

(* The worktree is staged with the private store in place of the shared one;*)
(* firecracker packs the staged tree into an image and drops the staging.   *)
deliverWorktree(fault) == fault # "stage"
buildWorktreeImageRepo(fault) == fault \notin {"stage", "image"}
worktreeShare(fault) == fault # "stage"

(* A base holds an executable guest supervisor and the mount points it needs.*)
validateGuestBase(fault) == fault # "base"

(* vmSpec.Validate: the root is a directory that holds a base, the mode has *)
(* a network backing, and every socket path fits.                           *)
Validate(shape, fault) == shape = "dir" /\ validateGuestBase(fault) /\ fault # "spec"

(* The first command of the plan fails on a tap that is already there; a    *)
(* later one leaves what the earlier ones did.                              *)
applyTapPlan(i, fault) == i \notin tap /\ fault # "tap"

refuseUnenforceableNetwork(m) == m = "allowlist"

(* CreateVM of the three hypervisors: whether it succeeds, what it leaves   *)
(* in the state directory, and what becomes of the tap ("gone": it was set  *)
(* up and removed again).                                                   *)
krunCreateVM(shape, fault) ==
  [ok |-> deliverWorktree(fault) /\ Validate(shape, fault), files |-> {"staging"}, tap |-> "none"]

fcCreateVM(i, m, shape, fault) ==
  LET nic  == m # "none"
      made == buildWorktreeImageRepo(fault) /\ shape # "missing"
      up0  == made /\ nic /\ applyTapPlan(i, fault)
  IN  [ok |-> made /\ (nic => up0) /\ fault # "machine", files |-> {"image"},
       tap |-> CASE ~made \/ ~nic -> "none"
                 [] made /\ nic /\ ~up0 -> IF i \in tap THEN "none" ELSE "half"
                 [] OTHER -> IF fault = "machine" THEN "none" ELSE "set"]

vzCreateVM(m, shape, fault) ==
  [ok |-> ~refuseUnenforceableNetwork(m) /\ shape # "missing" /\ worktreeShare(fault) /\ fault # "machine",
   files |-> {"staging"}, tap |-> "none"]

CreateVM(i, m, shape, fault) ==
  CASE backend = "libkrun" -> krunCreateVM(shape, fault)
    [] backend = "kvm" -> fcCreateVM(i, m, shape, fault)
    [] OTHER -> vzCreateVM(m, shape, fault)

(* Provisions the task's private store and binds it over the shared one. *)
quarantine(fault) == fault # "store"

LaunchFaults == {"none", "options", "truncate", "store", "stage", "image", "base", "spec", "tap", "machine"}

Created(i, m) == Goto(i, "created") /\ mode' = [mode EXCEPT ![i] = m]

(* The service launches an ID that has no VM running: a new one, one whose  *)
(* launch failed, and one that it suspended or found dead.                  *)
MayLaunch(i) == up /\ pc[i] = "idle" /\ i \notin Running

(* Mutant: a launch that cannot create its overlay clears the directory. *)
LaunchClearsDir(i, m, shape, fault) ==
  /\ MayLaunch(i) /\ spent["launches"] < MaxLaunches /\ fault = "none"
  /\ spent' = [spent EXCEPT !["launches"] = @ + 1]
  /\ LET vm == CreateVM(i, m, shape, fault)
     IN  IF ~checkBootShape(shape) \/ ~createOverlay(i) \/ ~vm.ok
         THEN RemoveDir(i) /\ UNCHANGED <<mode, tap, strayTap, pc>>
         ELSE /\ dirs' = [dirs EXCEPT ![seg[i]] = [owner |-> i, files |-> {"overlay", "store"} \cup vm.files]]
              /\ tap' = IF vm.tap = "set" THEN tap \cup {i} ELSE tap
              /\ Created(i, m) /\ UNCHANGED strayTap
  /\ UNCHANGED <<fixed, records, handshake, machine, live, cmd, asked>>

(* Launch up to CreateVM.  A failure after the overlay exists clears the    *)
(* state directory; a failure to create or size it does not.  A tap plan    *)
(* that fails half way is not taken down.                                   *)
Launch(i, m, shape, fault) ==
  /\ MayLaunch(i) /\ spent["launches"] < MaxLaunches
  /\ fault = "none" \/ spent["faults"] < MaxFaults
  /\ spent' = [launches |-> spent["launches"] + 1,
               faults |-> spent["faults"] + (IF fault = "none" THEN 0 ELSE 1)]
  /\ LET vm == CreateVM(i, m, shape, fault)
     IN  IF fault = "options" \/ ~checkBootShape(shape) \/ ~createOverlay(i)
         THEN UNCHANGED <<dirs, mode, tap, strayTap, pc>>
         ELSE IF fault = "truncate"
         THEN /\ dirs' = [dirs EXCEPT ![seg[i]] = [owner |-> i, files |-> {"overlay"}]]
              /\ UNCHANGED <<mode, tap, strayTap, pc>>
         ELSE IF ~quarantine(fault)
         THEN RemoveDir(i) /\ UNCHANGED <<mode, tap, strayTap, pc>>
         ELSE /\ dirs' = [dirs EXCEPT ![seg[i]] =
                            IF vm.ok THEN [owner |-> i, files |-> {"overlay", "store"} \cup vm.files] ELSE Empty]
              /\ tap' = IF vm.tap = "none" THEN tap ELSE tap \cup {i}
              /\ strayTap' = IF vm.tap = "half" THEN strayTap \cup {i} ELSE strayTap
              /\ IF vm.ok THEN Created(i, m) ELSE UNCHANGED <<mode, pc>>
  /\ UNCHANGED <<fixed, records, handshake, machine, live, cmd, asked>>

(* The notify listener is started on the VM's socket; a VM without one      *)
(* (vzf), or a listener that does not start, leaves the sandbox running.    *)
registerNotify(i, listening) ==
  notify' = IF listening /\ backend # "vzf" THEN notify \cup {i} ELSE notify

(* The VM started: the delivery baseline is recorded beside a staged tree,  *)
(* the sandbox registered, its peer bound and its listener started.  (A     *)
(* baseline that is not written is WorktreeSync's concern.)                 *)
Register(i, listening) ==
  /\ UNCHANGED mode
  /\ dirs' = [dirs EXCEPT ![seg[i]].files = IF "staging" \in @ THEN @ \cup {"baseline"} ELSE @]
  /\ reg' = [reg EXCEPT ![i] = "running"] /\ ready' = ready \ {i}
  /\ bound' = bound \cup {i}
  /\ registerNotify(i, listening)
  /\ Goto(i, "confirm")

LaunchFails(i) ==
  RemoveDir(i) /\ Goto(i, "idle") /\ mode' = [mode EXCEPT ![i] = "none"] /\ UNCHANGED records

(* fcVM.teardown: the context that runs the VMM is cancelled, the tap plan  *)
(* removed, and the thread that forked the VMM let go, which kills it.      *)
teardown(i) == tap' = tap \ {i}

(* fcVM.Start forks the VMM on a thread pinned until teardown. *)
fcStart(i, ok) ==
  IF ok THEN VmmIs(i, "entered") /\ UNCHANGED <<tap, live>>
        ELSE UNCHANGED <<vmm, live>> /\ teardown(i)

(* vzVM.Start registers the VM for the dialers. *)
vzStart(i, ok) ==
  /\ UNCHANGED tap
  /\ IF ok THEN VmmIs(i, "entered") /\ live' = live \cup {i} ELSE UNCHANGED <<vmm, live>>

Start(i, ok, listening) ==
  /\ up /\ pc[i] = "created" /\ backend # "libkrun" /\ MayFail(~ok)
  /\ IF backend = "kvm" THEN fcStart(i, ok) ELSE vzStart(i, ok)
  /\ IF ok THEN Register(i, listening) ELSE LaunchFails(i)
  /\ UNCHANGED <<fixed, lifeline, handshake, control, guest, cmd, orphan, asked, strayTap>>

(* krunVM.Start: the child is spawned with its spec on stdin, the write end *)
(* of a handshake pipe and the read end of a lifeline, whose token is       *)
(* already in it; the daemon keeps the lifeline's write end.                *)
spawnChild(i, ok) ==
  /\ up /\ pc[i] = "created" /\ backend = "libkrun" /\ MayFail(~ok)
  /\ IF ok THEN /\ VmmIs(i, "spawned") /\ lifeline' = [lifeline EXCEPT !.held = @ \cup {i}]
                /\ Goto(i, "handshake") /\ UNCHANGED <<records, dirs, mode>>
           ELSE UNCHANGED <<vmm, lifeline>> /\ LaunchFails(i)
  /\ UNCHANGED <<fixed, handshake, control, guest, live, tap, cmd, orphan, asked, strayTap>>

-----------------------------------------------------------------------------
(* The libkrun child *)

(* Mutant: the token is written once the child runs, by a daemon that still *)
(* does.                                                                    *)
installParentLifelineLate(i, timely) ==
  /\ vmm[i] = "spawned" /\ VmmIs(i, "configuring")
  /\ lifeline' = IF timely /\ i \notin lifeline.held THEN lifeline
                 ELSE [lifeline EXCEPT ![IF timely THEN "watched" ELSE "late"] = @ \cup {i}]
  /\ UNCHANGED <<fixed, dirs, mode, records, handshake, control, guest, live, tap, pc, cmd, orphan, asked, strayTap, spent>>

(* installParentLifeline, the child's first act: it reads the token from    *)
(* the pipe, and watches it; a child that waits too long for it goes on     *)
(* without.                                                                 *)
installParentLifeline(i, timely) ==
  /\ vmm[i] = "spawned" /\ VmmIs(i, "configuring")
  /\ lifeline' = [lifeline EXCEPT ![IF timely THEN "watched" ELSE "late"] = @ \cup {i}]
  /\ UNCHANGED <<fixed, dirs, mode, records, handshake, control, guest, live, tap, pc, cmd, orphan, asked, strayTap, spent>>

(* childPolicy assembles no network for "none", an authorizer and a resolver*)
(* for "open", and a supervisor, whose policy can be changed later, for     *)
(* every other mode.                                                        *)
childPolicy(i) ==
  CASE mode[i] = "none" -> "nothing" [] mode[i] = "open" -> "authorizer" [] OTHER -> "supervisor"

(* newGuestCtx: the host end of the guest's NIC is bound before the context *)
(* exists, and a later failure frees the context and closes that end.       *)
newGuestCtx(fault) == fault # "context"

serveControlChannel(i) == IF childPolicy(i) = "supervisor" THEN control \cup {i} ELSE control

(* The child reports its failure and exits. *)
childFail(i) == Halt(i) /\ handshake' = [handshake EXCEPT ![i] = "error"]

(* The rest of ChildMain: bundle, spec, policy, guest context and control   *)
(* channel; the child reports that it is configured and enters the VM, or   *)
(* reports its failure.                                                     *)
childRun(i, fault) ==
  /\ vmm[i] = "configuring" /\ MayFail(fault # "none")
  /\ IF newGuestCtx(fault) /\ fault # "assembly"
     THEN /\ control' = serveControlChannel(i)
          /\ handshake' = [handshake EXCEPT ![i] = "ok"] /\ VmmIs(i, "entered")
          /\ UNCHANGED <<lifeline, guest, orphan>>
     ELSE childFail(i)
  /\ UNCHANGED <<fixed, dirs, mode, records, live, tap, pc, cmd, asked, strayTap>>

(* The rest of krunVM.Start: an ok report registers the VM; an error report,*)
(* the end of the pipe, or startTimeout kills and reaps the child.          *)
readHandshake(i, listening, timely) ==
  /\ up /\ pc[i] = "handshake" /\ handshake' = [handshake EXCEPT ![i] = "none"]
  /\ \/ /\ timely /\ handshake[i] = "ok" /\ Register(i, listening)
        /\ UNCHANGED <<machine, spent>>
     \/ /\ IF timely THEN vmm[i] = "none" /\ handshake[i] # "ok" /\ UNCHANGED spent ELSE Spend
        /\ Halt(i) /\ LaunchFails(i)
  /\ UNCHANGED <<fixed, live, tap, cmd, asked, strayTap>>

-----------------------------------------------------------------------------
(* Stop and Remove *)

(* krunVM.Stop: SIGTERM or a kill, a kill after the grace period, and the   *)
(* child is reaped before it returns.                                       *)
krunStop(i) == Halt(i) /\ UNCHANGED <<live, tap, asked>>

(* fcVM.Stop tears the VMM down even when it reports an error. *)
fcStop(i) == Halt(i) /\ teardown(i) /\ UNCHANGED <<live, asked>>

(* vzVM.halt: a guest that accepts a graceful request is left to halt by    *)
(* itself; Virtualization.framework refuses to stop a VM that has ended.    *)
halt(i, force, accepted) ==
  IF ~force /\ accepted /\ i \in Running
  THEN asked' = asked \cup {i} /\ UNCHANGED machine
  ELSE Halt(i) /\ asked' = asked \ {i}

vzStop(i, force, accepted, ok) ==
  /\ ok <=> i \in Running
  /\ halt(i, force, accepted) /\ UNCHANGED tap
  /\ live' = IF ok THEN live \ {i} ELSE live

VmStop(i, force, accepted, ok) ==
  CASE backend = "libkrun" -> ok /\ krunStop(i)
    [] backend = "kvm" -> fcStop(i)
    [] OTHER -> vzStop(i, force, accepted, ok)

(* The end of Remove: directory, entry, binding and listener go. *)
Forget(i) ==
  /\ reg' = [reg EXCEPT ![i] = "none"] /\ ready' = ready \ {i}
  /\ RemoveDir(i) /\ mode' = [mode EXCEPT ![i] = "none"]
  /\ bound' = bound \ {i} /\ notify' = notify \ {i}

(* Manager.Stop. *)
Stop(i, force, accepted, ok) ==
  /\ up /\ pc[i] = "idle" /\ reg[i] = "running"
  /\ MayFail(~ok /\ backend = "kvm")
  /\ VmStop(i, force, accepted, ok)
  /\ reg' = [reg EXCEPT ![i] = IF ok THEN "suspended" ELSE @]
  /\ UNCHANGED <<fixed, dirs, mode, handshake, ready, bound, notify, pc, cmd, strayTap>>

(* Manager.Remove.  A suspended sandbox is not stopped again; a stop that   *)
(* fails ends a removal that is not forced.                                 *)
Remove(i, force, accepted, ok, removable) ==
  /\ up /\ pc[i] = "idle" /\ reg[i] # "none"
  /\ MayFail(~removable \/ (~ok /\ backend = "kvm"))
  /\ IF reg[i] = "running" THEN VmStop(i, force, accepted, ok)
     ELSE ok /\ UNCHANGED <<machine, live, tap, asked>>
  /\ IF (ok \/ force) /\ removable THEN Forget(i) ELSE UNCHANGED <<records, dirs, mode>>
  /\ UNCHANGED <<fixed, handshake, pc, cmd, strayTap>>

(* checkGuestHello: the guest speaks this daemon's exec protocol. *)
checkGuestHello(i) == guest[i] = "serving"

(* awaitGuestServing: the probe is repeated until the guest answers it, the *)
(* time is up, or the caller goes.                                          *)
awaitGuestServing(i, answered) == answered /\ checkGuestHello(i)

(* confirmGuestServing: a guest that does not answer with this daemon's     *)
(* protocol fails the launch closed with Stop and Remove, forced.  Once     *)
(* Stop has succeeded Remove does not stop again; when it failed (a vzf VM  *)
(* that has ended) Remove carries on regardless.                            *)
confirmGuestServing(i, answered, ok, removable) ==
  /\ up /\ pc[i] = "confirm" /\ Goto(i, "idle")
  /\ answered => guest[i] # "down"
  /\ IF awaitGuestServing(i, answered)
     THEN ok /\ removable /\ UNCHANGED <<records, dirs, mode, machine, live, tap, asked, spent>>
     ELSE /\ MayFail(~removable \/ checkGuestHello(i) \/ (~ok /\ backend = "kvm"))
          /\ VmStop(i, TRUE, FALSE, ok)
          /\ IF removable THEN Forget(i)
             ELSE reg' = [reg EXCEPT ![i] = IF ok THEN "suspended" ELSE @] /\ UNCHANGED <<dirs, mode, ready, bound, notify>>
  /\ UNCHANGED <<fixed, handshake, cmd, strayTap>>

-----------------------------------------------------------------------------
(* Exec *)

(* Manager.Exec. *)
Exec(i) ==
  /\ up /\ pc[i] = "idle" /\ reg[i] = "running" /\ cmd = NoCmd
  /\ cmd' = [id |-> i, at |-> "dialing", runs |-> 0]
  /\ UNCHANGED <<fixed, dirs, mode, records, handshake, machine, live, tap, pc, asked, strayTap, spent>>

(* libkrun's socket, in the state directory, accepts as soon as the VM is   *)
(* entered, whether or not the guest listens yet.                           *)
krunDialGuest(i) == vmm[i] = "entered" /\ dirs[seg[i]].owner = i
(* firecracker acknowledges a connection once the guest listens. *)
fcDialGuest(i) == guest[i] # "down" /\ dirs[seg[i]].owner = i
(* vzf connects through the VM its registry holds as live. *)
vzDialGuest(i) == i \in live /\ guest[i] # "down"
DialGuest(i) ==
  CASE backend = "libkrun" -> krunDialGuest(i) [] backend = "kvm" -> fcDialGuest(i) [] OTHER -> vzDialGuest(i)

(* dialGuestReady: polls until the guest takes the connection, or gives up. *)
dialGuestReady(i) ==
  /\ cmd.id = i /\ cmd.at = "dialing"
  /\ cmd' = IF DialGuest(i) THEN [cmd EXCEPT !.at = "sent"] ELSE NoCmd
  /\ UNCHANGED <<fixed, dirs, mode, records, handshake, machine, live, tap, pc, asked, strayTap, spent>>

(* Supervisor.Serve in the guest runs the command it reads. *)
Serve(i) ==
  /\ cmd.id = i /\ cmd.at = "sent" /\ guest[i] # "down"
  /\ cmd' = [cmd EXCEPT !.at = "ran", !.runs = IF @ < 2 THEN @ + 1 ELSE 2]
  /\ UNCHANGED <<fixed, dirs, mode, records, handshake, machine, live, tap, pc, asked, strayTap, spent>>

(* execOnce returns the result, and the guest is marked as having answered. *)
markGuestAnswered(i) ==
  /\ cmd.id = i /\ cmd.at = "ran" /\ guest[i] # "down"
  /\ cmd' = NoCmd
  /\ ready' = IF reg[i] # "none" THEN ready \cup {i} ELSE ready
  /\ UNCHANGED <<fixed, dirs, mode, reg, bound, notify, handshake, machine, live, tap, pc, asked, strayTap, spent>>

guestNeverAnswered(i) == reg[i] # "none" /\ i \notin ready

(* execUntilTheGuestAnswers, on a connection that ends before any output:   *)
(* the guest was not listening, it died, or the connection was reset.  The  *)
(* command is sent again as long as no command was answered and time is     *)
(* left.                                                                    *)
execUntilTheGuestAnswers(i, timeLeft) ==
  /\ cmd.id = i /\ cmd.at \in {"sent", "ran"}
  /\ IF guest[i] = "down" THEN UNCHANGED spent ELSE Spend
  /\ cmd' = IF guestNeverAnswered(i) /\ timeLeft THEN [cmd EXCEPT !.at = "dialing"] ELSE NoCmd
  /\ UNCHANGED <<fixed, dirs, mode, records, handshake, machine, live, tap, pc, asked, strayTap>>

-----------------------------------------------------------------------------
(* The guest, the VMM and the daemon *)

(* The guest's root becomes writable through an overlay: on the overlay     *)
(* drive, formatted when it does not mount, where the VM has one, and on a  *)
(* tmpfs elsewhere.                                                         *)
makeRootWritable(fault) == fault # "overlay" /\ (backend = "kvm" => fault # "mkfs")
mountGuestFilesystems(fault) == fault # "mount" /\ makeRootWritable(fault)

(* A guest without a network descriptor configures nothing; vzf passes none.*)
configureGuestNetwork(i, fault) == (mode[i] # "none" /\ backend # "vzf") => fault # "nic"

(* serveGuest: filesystems, network, then both listeners; init exits on the *)
(* first failure.  A base composed by another version speaks another        *)
(* protocol.                                                                *)
serveGuest(i, fault, as) ==
  /\ vmm[i] = "entered" /\ guest[i] = "down"
  /\ IF mountGuestFilesystems(fault) /\ configureGuestNetwork(i, fault) /\ fault # "listen"
     THEN fault = "none" /\ guest' = [guest EXCEPT ![i] = as]
          /\ UNCHANGED <<vmm, lifeline, control, orphan, spent>>
     ELSE Spend /\ Halt(i)
  /\ UNCHANGED <<fixed, dirs, mode, records, handshake, live, tap, pc, cmd, asked, strayTap>>

(* The VMM dies, or the guest that was asked to powers off; watch reaps a   *)
(* libkrun child.                                                           *)
VmmExits(i) ==
  /\ i \in Running
  /\ IF i \in asked THEN UNCHANGED spent ELSE Spend
  /\ Halt(i) /\ asked' = asked \ {i}
  /\ UNCHANGED <<fixed, dirs, mode, records, handshake, live, tap, pc, cmd, strayTap>>

(* The daemon dies.  vzf's VMs die with it, the kernel kills firecracker's  *)
(* VMMs with the threads that forked them, libkrun's children lose their    *)
(* lifeline.                                                                *)
DaemonDies ==
  /\ up /\ Spend /\ up' = FALSE
  /\ reg' = [i \in Ids |-> "none"] /\ ready' = {} /\ bound' = {} /\ notify' = {} /\ live' = {}
  /\ pc' = [i \in Ids |-> "idle"] /\ cmd' = NoCmd
  /\ orphan' = IF backend = "libkrun" THEN Running ELSE {}
  /\ vmm' = [i \in Ids |-> IF backend # "libkrun" /\ i \in Running THEN "none" ELSE vmm[i]]
  /\ guest' = [i \in Ids |-> IF vmm'[i] = "none" THEN "down" ELSE guest[i]]
  /\ lifeline' = [lifeline EXCEPT !.held = {}]
  /\ strayTap' = tap /\ asked' = {}
  /\ mode' = [i \in Ids |-> IF i \in orphan' THEN mode[i] ELSE "none"]
  /\ handshake' = [i \in Ids |-> "none"]
  /\ UNCHANGED <<backend, seg, dirs, control, tap>>

DaemonStarts ==
  /\ ~up /\ up' = TRUE
  /\ UNCHANGED <<backend, seg, dirs, mode, records, handshake, machine, live, tap, pc, cmd, asked, strayTap, spent>>

(* watchLifeline: the end of the lifeline, or a read of it that fails,      *)
(* exits the child.                                                         *)
watchLifeline(i, readable) ==
  /\ i \in Running /\ i \in lifeline.watched
  /\ IF readable THEN i \notin lifeline.held /\ UNCHANGED spent ELSE Spend
  /\ Halt(i)
  /\ UNCHANGED <<fixed, dirs, mode, records, handshake, live, tap, pc, cmd, asked, strayTap>>

Next ==
  \/ DaemonDies \/ DaemonStarts
  \/ \E i \in Ids :
       \/ \E m \in Modes, s \in Shapes, f \in LaunchFaults : Launch(i, m, s, f)
       \/ \E ok, b, c \in BOOLEAN :
            confirmGuestServing(i, ok, b, c)
       \/ \E ok, b \in BOOLEAN : Start(i, ok, b) \/ readHandshake(i, b, ok)
       \/ \E ok \in BOOLEAN : \/ spawnChild(i, ok) \/ execUntilTheGuestAnswers(i, ok)
                             \/ installParentLifeline(i, ok) \/ watchLifeline(i, ok)
       \/ \E f \in {"none", "assembly", "context"} : childRun(i, f)
       \/ \E force, accepted, ok, removable \in BOOLEAN :
            Stop(i, force, accepted, ok) \/ Remove(i, force, accepted, ok, removable)
       \/ Exec(i) \/ dialGuestReady(i) \/ Serve(i) \/ markGuestAnswered(i)
       \/ \E f \in {"none", "mount", "overlay", "mkfs", "nic", "listen"}, as \in {"serving", "skewed"} :
            serveGuest(i, f, as)
       \/ VmmExits(i)

Adopts(i) == \E timely \in BOOLEAN : installParentLifeline(i, timely)
Fairness == \A i \in Ids : WF_vars(Adopts(i)) /\ WF_vars(watchLifeline(i, TRUE))

Spec == Init /\ [][Next]_vars /\ Fairness

-----------------------------------------------------------------------------
(* A sandbox the manager neither knows nor is launching has no VMM of this  *)
(* daemon, no peer binding, no notify listener and no tap, whichever step   *)
(* its launch, stop or removal failed at; exempt are a guest left to its    *)
(* graceful stop, and a tap whose setup failed half way or whose daemon     *)
(* died (microvm.Manager, the hypervisors' Start and Stop).                 *)
NothingLeftBehind ==
  \A i \in Ids : (up /\ pc[i] = "idle" /\ reg[i] = "none") =>
    /\ i \in Running => i \in orphan \cup asked
    /\ i \notin bound /\ i \notin notify
    /\ i \in tap => i \in strayTap

(* A registered sandbox owns the state directory it runs from: two IDs with *)
(* the same directory name never share one, and a launch that fails never   *)
(* clears the directory of another sandbox (createOverlay's O_EXCL).        *)
DirsExclusive == \A i \in Ids : reg[i] # "none" \/ pc[i] # "idle" => dirs[seg[i]].owner = i

(* Every VMM that outlives its daemon ends, at whichever step of the fork,  *)
(* of the child's start or of its VM's life the daemon died; exempt is a    *)
(* child that waited too long for its token (the parent lifeline).          *)
NoOrphan == orphan \subseteq lifeline.late
OrphansEnd == []<>NoOrphan

(* And only then: the lifeline of a VMM whose daemon runs does not end,     *)
(* whatever was started, stopped or failed (newChildCmd, execChild.Wait).   *)
LifelineHeld == \A i \in Running : backend # "libkrun" \/ i \in lifeline.held \cup orphan

(* "Stop halts the guest and deregisters it" (vzVM.Stop), "Stop halts the   *)
(* sandbox's VM and records it suspended" (Manager.Stop).                   *)
StopHalts == \A i \in Ids : reg[i] = "suspended" => i \notin Running

(* "the command provably never reached a listener, so re-sending it cannot  *)
(* run anything twice" (Manager.execUntilTheGuestAnswers).                  *)
RetryRunsOnce == cmd.runs < 2

(* What a sandbox uses on the host is its own and goes with it, and it      *)
(* keeps its hold on the VM (Launch, Stop, Remove, Forget).                 *)
HostStateOwned == NothingLeftBehind /\ DirsExclusive /\ LifelineHeld
=============================================================================
