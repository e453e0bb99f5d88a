---------------------------- MODULE WorktreeSync ----------------------------
(***************************************************************************)
(* Carrying host edits into a running sandbox: worktreesync.Sync, run under *)
(* a sandbox's syncMu by `mgit sandbox sync` and before every command       *)
(* (backend/microvm/sync.go), and the question that follows it, whether the *)
(* guest itself reads what was delivered (backend/microvm/settle.go).       *)
(*                                                                         *)
(* A tree is a function from the worktree's paths to entries; an entry     *)
(* stands for a content hash with its mode, Links are the entries that are *)
(* symbolic links, Partial is the file a write or a removal that failed    *)
(* half way leaves.  The guest's kernel keeps its own view of the shared   *)
(* directory, which may lag what the host wrote there.  Staging copies the *)
(* worktree before the guest's tree is read, and the two reads commute     *)
(* with an edit of the other side, so they are one step.                   *)
(***************************************************************************)
EXTENDS Naturals, FiniteSets

CONSTANTS
  First,          \* the worktree when the sandbox is launched
  Paths,          \* worktree-relative paths in sync's scope (skipPath's are not)
  Contents,       \* entries a file can have
  Links,          \* the entries of Contents that are symbolic links
  Absent,         \* no such path in a tree
  Partial,        \* the entry of a half written, or emptied, file
  Callers,        \* requests of the daemon: execs, syncs, queries
  None,           \* syncMu is free
  MaxHostEdits, MaxGuestEdits, MaxCalls, MaxFaults  \* bounds

VARIABLES
  up,         \* the VM has booted and runs
  host,       \* the live worktree on the host
  delivered,  \* the delivery baseline: sync-manifest in the state directory
  guest,      \* the staged directory the guest has mounted
  view,       \* what the guest's kernel reads for that directory
  syncMu,     \* the caller that holds the sandbox's sync lock
  candidate,  \* the freshly staged tree of the running sync
  plan, todo, \* its plan, and the paths of the plan still to be written
  pc, call,   \* what a caller is doing, and the request it serves
  edited,     \* paths the guest changed: early or late (after the sync read them)
  torn,       \* paths a failed sync wrote
  stale,      \* paths the last settle found the guest reading differently
  spent       \* bounds used so far

vars == <<up, host, delivered, guest, view, syncMu, candidate, plan, todo, pc, call,
          edited, torn, stale, spent>>

Entries == Contents \cup {Absent}
Trees == [Paths -> Entries]
Calls == {"exec", "sync", "force", "dry"}
NoPlan == [update |-> {}, delete |-> {}, conflicts |-> {}]

TypeOK ==
  /\ up \in BOOLEAN
  /\ host \in Trees /\ delivered \in Trees /\ candidate \in Trees
  /\ guest \in [Paths -> Entries \cup {Partial}]
  /\ view \in [Paths -> Entries \cup {Partial}]
  /\ syncMu \in Callers \cup {None}
  /\ plan \in [update : SUBSET Paths, delete : SUBSET Paths, conflicts : SUBSET Paths]
  /\ todo \subseteq Paths
  /\ pc \in [Callers -> {"idle", "queued", "apply", "verify", "save", "settle", "run"}]
  /\ call \in [Callers -> Calls]
  /\ edited \in [Paths -> {"no", "early", "late"}]
  /\ torn \subseteq Paths /\ stale \subseteq Paths
  /\ spent \in [{"host", "guest", "calls", "faults"} -> Nat]

Init ==
  /\ up = FALSE
  /\ host = First
  /\ delivered = [p \in Paths |-> Absent]
  /\ guest = delivered /\ view = delivered /\ candidate = delivered
  /\ syncMu = None /\ plan = NoPlan /\ todo = {}
  /\ pc = [c \in Callers |-> "idle"] /\ call = [c \in Callers |-> "exec"]
  /\ edited = [p \in Paths |-> "no"] /\ torn = {} /\ stale = {}
  /\ spent = [k \in {"host", "guest", "calls", "faults"} |-> 0]

Spend(k, bound) == spent[k] < bound /\ spent' = [spent EXCEPT ![k] = @ + 1]
Goto(c, stage) == pc' = [pc EXCEPT ![c] = stage]
trees == <<host, delivered, guest, view>>
history == <<edited, torn, stale>>

-----------------------------------------------------------------------------
(* The host, the guest's programs and its kernel *)

HostEdit(p, e) ==
  /\ Spend("host", MaxHostEdits) /\ e # host[p]
  /\ host' = [host EXCEPT ![p] = e]
  /\ UNCHANGED <<up, delivered, guest, view, syncMu, candidate, plan, todo, pc, call, history>>

(* A program in the guest writes or removes a path: it reads its own write. *)
GuestEdit(p, e) ==
  /\ up /\ Spend("guest", MaxGuestEdits) /\ e # guest[p]
  /\ guest' = [guest EXCEPT ![p] = e]
  /\ view' = [view EXCEPT ![p] = e]
  /\ edited' = [edited EXCEPT ![p] = "late"]
  /\ UNCHANGED <<up, host, delivered, syncMu, candidate, plan, todo, pc, call, torn, stale>>

(* The guest's name and attribute caches expire. *)
ViewCatchesUp ==
  /\ view # guest
  /\ view' = guest
  /\ UNCHANGED <<up, host, delivered, guest, syncMu, candidate, plan, todo, pc, call, history, spent>>

(* Launch: staging.Build delivers the worktree and RecordDelivery writes    *)
(* the baseline of what was staged, before the first command can run.       *)
RecordDelivery ==
  /\ ~up
  /\ up' = TRUE
  /\ delivered' = host /\ guest' = host /\ view' = host
  /\ UNCHANGED <<host, syncMu, candidate, plan, todo, pc, call, history, spent>>

-----------------------------------------------------------------------------
(* Requests.  A sandbox that has not booted answers a sync without doing    *)
(* anything; an exec boots it first (SandboxService).                       *)

(* syncTarget: only a booted sandbox is handed to the manager. *)
syncTarget(c) == up /\ pc[c] = "idle"

SyncWorktree(c, k) ==
  /\ syncTarget(c) /\ Spend("calls", MaxCalls)
  /\ call' = [call EXCEPT ![c] = k]
  /\ Goto(c, "queued")
  /\ UNCHANGED <<up, trees, syncMu, candidate, plan, todo, history>>

(* `mgit sandbox sync`; a forced dry run classifies like a dry one. *)
sandboxSyncCmd(c, force, dryRun) ==
  SyncWorktree(c, IF dryRun THEN "dry" ELSE IF force THEN "force" ELSE "sync")

(* Manager.Exec syncs before it runs anything. *)
Exec(c) == SyncWorktree(c, "exec")

(* Mutant: the guest's own state is not compared. *)
ComputeIgnoringGuest(d, h, g) ==
  [update |-> {p \in Paths : h[p] # Absent /\ h[p] # d[p]},
   delete |-> {p \in Paths : h[p] = Absent /\ d[p] # Absent /\ g[p] # Absent},
   conflicts |-> {}]

(* appendDeletes: paths delivered earlier that the host no longer has. *)
appendDeletes(d, h, g) == {p \in Paths : h[p] = Absent /\ d[p] # Absent /\ g[p] # Absent}

(* Compute: the collision policy. *)
Compute(d, h, g) ==
  LET changed == {p \in Paths : h[p] # Absent /\ h[p] # d[p]}
      dropped == appendDeletes(d, h, g)
      diverged == {p \in changed : g[p] # Absent /\ g[p] # d[p]}
                    \cup {p \in dropped : g[p] # d[p]}
  IN [update |-> changed \ diverged, delete |-> dropped \ diverged, conflicts |-> diverged]

(* Forced: a conflict becomes an update, or a delete if the host lacks it.  *)
Forced(pl, h) ==
  [pl EXCEPT !.update = @ \cup {p \in pl.conflicts : h[p] # Absent},
             !.delete = @ \cup {p \in pl.conflicts : h[p] = Absent}]

(* syncBeforeExec: an exec whose sync succeeded runs its command; every     *)
(* other outcome answers the caller.                                        *)
syncBeforeExec(c, ok) == Goto(c, IF ok /\ call[c] = "exec" THEN "run" ELSE "idle")

(* syncLocked returns, and releases the lock. *)
Unlock(c, ok) ==
  /\ syncMu' = None
  /\ plan' = NoPlan /\ todo' = {} /\ candidate' = [p \in Paths |-> Absent]
  /\ syncBeforeExec(c, ok)

(* Sync up to its first write: re-stage, read the three trees, classify.    *)
(* An empty plan, a dry run and a conflict end the sync here.  A worktree   *)
(* that cannot be staged (an escaping link, an unreadable file) or read     *)
(* refuses it.                                                              *)
SyncPlan(c, readable) ==
  /\ up /\ pc[c] = "queued" /\ syncMu = None
  /\ edited' = [p \in Paths |-> IF edited[p] = "no" THEN "no" ELSE "early"]
  /\ IF readable THEN UNCHANGED spent ELSE Spend("faults", MaxFaults)
  /\ LET computed == Compute(delivered, host, guest)
         forced == IF call[c] = "force" THEN Forced(computed, host) ELSE computed
         blocked == call[c] # "force" /\ computed.conflicts # {}
     IN IF ~readable \/ computed = NoPlan \/ call[c] = "dry" \/ blocked
        THEN Unlock(c, readable /\ computed = NoPlan)
        ELSE /\ syncMu' = c /\ candidate' = host /\ plan' = forced
             /\ todo' = forced.update \cup forced.delete
             /\ Goto(c, "apply")
  /\ UNCHANGED <<up, trees, call, torn, stale>>

-----------------------------------------------------------------------------
(* Apply *)

(* What copyInto leaves when it fails: the old entry, a file it had begun   *)
(* to rewrite, or nothing where clearNonRegular or deliverLink had already  *)
(* removed what was there.                                                  *)
copyInto(old, new) ==
  {old} \cup (IF new \in Links THEN {} ELSE {Partial})
        \cup (IF {old, new} \cap Links # {} THEN {Absent} ELSE {})

(* removeForGuest empties a regular file before it unlinks it. *)
removeForGuest(old) == {old} \cup (IF old \in Links THEN {} ELSE {Partial})

(* Apply, one path at a time, the updates first.  A write may fail, and the *)
(* share may drop one without an error ("lost").                            *)
ApplyNext(c, p, outcome, left) ==
  /\ pc[c] = "apply"
  /\ p \in IF todo \cap plan.update # {} THEN todo \cap plan.update ELSE todo
  /\ CASE outcome = "ok" -> left = candidate[p]
       [] outcome = "lost" -> left = guest[p]
       [] OTHER -> left \in IF p \in plan.update THEN copyInto(guest[p], candidate[p])
                                                ELSE removeForGuest(guest[p])
  /\ IF outcome = "ok" THEN UNCHANGED spent ELSE Spend("faults", MaxFaults)
  /\ guest' = [guest EXCEPT ![p] = left]
  /\ edited' = IF guest' = guest THEN edited ELSE [edited EXCEPT ![p] = "no"]
  /\ torn' = torn \cup {p}
  /\ IF outcome \in {"ok", "lost"}
     THEN /\ todo' = todo \ {p}
          /\ Goto(c, IF todo = {p} THEN "verify" ELSE "apply")
          /\ UNCHANGED <<syncMu, candidate, plan>>
     ELSE Unlock(c, FALSE)
  /\ UNCHANGED <<up, host, delivered, view, call, stale>>

(* VerifyDelivery: the planned paths, read back from the guest's tree. *)
VerifyDelivery(pl, intended, actual) ==
  /\ \A p \in pl.update : actual[p] = intended[p]
  /\ \A p \in pl.delete : actual[p] = Absent

ReadBack(c) ==
  /\ pc[c] = "verify"
  /\ IF VerifyDelivery(plan, candidate, guest)
     THEN Goto(c, "save") /\ UNCHANGED <<syncMu, candidate, plan, todo>>
     ELSE Unlock(c, FALSE)
  /\ UNCHANGED <<up, trees, call, history, spent>>

(* SaveManifest renames the new baseline into place, or fails and leaves    *)
(* the old one.                                                             *)
SaveManifest(c, ok) ==
  /\ pc[c] = "save"
  /\ IF ok
     THEN /\ delivered' = candidate
          /\ torn' = torn \ (plan.update \cup plan.delete)
          /\ Goto(c, "settle")
          /\ UNCHANGED <<syncMu, candidate, plan, todo, spent>>
     ELSE /\ Spend("faults", MaxFaults)
          /\ Unlock(c, FALSE)
          /\ UNCHANGED <<delivered, torn>>
  /\ UNCHANGED <<up, host, guest, view, call, edited, stale>>

-----------------------------------------------------------------------------
(* The guest's own view *)

(* classifyGuestView: what the guest reads against what was delivered;      *)
(* links are confirmed by the host's read-back alone.                       *)
classifyGuestView(want, deleted, seen) ==
  {p \in DOMAIN want : want[p] \notin Links /\ seen[p] # want[p]}
    \cup {p \in deleted : seen[p] # Absent}

(* The probe drops the guest's caches if it can, and reads. *)
Probe(dropped) == IF dropped THEN guest ELSE view

(* The last round of settleGuest.  The probe may be unable to tell (no      *)
(* shell, no sha256sum, identity unconfirmed), or fail; a guest that still  *)
(* reads something else is asked again until the budget is spent.           *)
settleGuest(c, dropped, answer) ==
  /\ pc[c] = "settle"
  /\ LET seen == Probe(dropped)
         differs == classifyGuestView([p \in plan.update |-> candidate[p]], plan.delete, seen)
     IN /\ view' = seen
        /\ answer = "settled" => differs = {}
        /\ answer = "unsettled" => differs # {}
        /\ stale' = IF answer = "unsettled" THEN differs ELSE {}
  /\ IF answer = "settled" THEN UNCHANGED spent ELSE Spend("faults", MaxFaults)
  /\ Unlock(c, answer \in {"settled", "unverified"})
  /\ UNCHANGED <<up, host, delivered, guest, call, edited, torn>>

(* The manager's VerifyGuestView, doctor's question: one probe of every     *)
(* delivered path under the sync lock; nothing is repaired.                 *)
VerifyGuestView ==
  /\ up /\ syncMu = None
  /\ \E p \in Paths : delivered[p] # Absent
  /\ view # guest /\ view' = Probe(TRUE)
  /\ UNCHANGED <<up, host, delivered, guest, syncMu, candidate, plan, todo, pc, call, history, spent>>

(* The command of an exec ends. *)
ExecReturns(c) ==
  /\ pc[c] = "run"
  /\ Goto(c, "idle")
  /\ UNCHANGED <<up, trees, syncMu, candidate, plan, todo, call, history, spent>>

-----------------------------------------------------------------------------
Next ==
  \/ \E p \in Paths, e \in Entries : HostEdit(p, e) \/ GuestEdit(p, e)
  \/ ViewCatchesUp \/ RecordDelivery \/ VerifyGuestView
  \/ \E c \in Callers :
       \/ Exec(c)
       \/ \E force, dryRun \in BOOLEAN : sandboxSyncCmd(c, force, dryRun)
       \/ \E readable \in BOOLEAN : SyncPlan(c, readable)
       \/ \E p \in Paths, outcome \in {"ok", "lost", "fails"}, left \in Entries \cup {Partial} :
            ApplyNext(c, p, outcome, left)
       \/ ReadBack(c)
       \/ \E ok \in BOOLEAN : SaveManifest(c, ok)
       \/ \E dropped \in BOOLEAN, answer \in {"settled", "unsettled", "unverified", "error"} :
            settleGuest(c, dropped, answer)
       \/ ExecReturns(c)

Spec == Init /\ [][Next]_vars

-----------------------------------------------------------------------------
(* A sync that was not forced replaces in the guest's tree only what the    *)
(* host had delivered there, or an edit the guest made after the sync read  *)
(* the tree: work the guest had not landed when the sync looked is never    *)
(* overwritten (Compute's policy, kept by Apply over several syncs, some    *)
(* of which fail half way).                                                 *)
GuestWorkKept ==
  \A c \in Callers, p \in Paths :
       (pc[c] = "apply" /\ call[c] # "force" /\ guest'[p] # guest[p] /\ edited'[p] # "late")
         => guest[p] \in {delivered[p], Absent} \/ edited[p] = "late"

(* The baseline is the truth about the guest's tree: between syncs a path   *)
(* whose entry is not the delivered one was changed by the guest, or was    *)
(* written by a sync that then failed (Sync moves the baseline only after   *)
(* the read-back).                                                          *)
BaselineMatchesGuest ==
  (up /\ syncMu = None) =>
    \A p \in Paths : guest[p] = delivered[p] \/ edited[p] # "no" \/ p \in torn

(* "a failed sync re-derives the same work next time rather than losing     *)
(* track of it" (Sync): a path that only a failed sync has written is not   *)
(* a conflict with the guest's work.                                        *)
FailedSyncReruns ==
  (up /\ syncMu = None) =>
    \A p \in Compute(delivered, host, guest).conflicts : edited[p] # "no"

(* "no exec runs while a sync is applying" (copyInto), "no command ever     *)
(* observes a partially-applied tree" (syncMu).                             *)
NoPartialView == \A c, o \in Callers : ~(pc[c] = "apply" /\ pc[o] = "run")

(* "running a command against knowingly stale code is the defect this       *)
(* exists to prevent" (syncBeforeExec): a command never starts while the    *)
(* guest still reads something else for a path the settle refused.          *)
KnownStaleNeverRuns ==
  [][\A c \in Callers : (pc[c] # "run" /\ pc'[c] = "run") =>
       \A p \in stale : view[p] = guest[p]]_vars

(* A sync keeps the guest's work, and the baseline it decides from is the   *)
(* truth about the guest's tree (Compute, Apply, VerifyDelivery).           *)
SyncStep == GuestWorkKept /\ BaselineMatchesGuest'
SyncKeepsGuest == [][SyncStep]_vars
=============================================================================
