--------------------------- MODULE ArtifactExport ---------------------------
(***************************************************************************)
(* Exporting a path of a sandbox's worktree to the host: artifactexport    *)
(* (plan, copy, place, sidecar), run by the manager under the sandbox's    *)
(* syncMu, and recorded or undone by SandboxService.ExportArtifact.        *)
(*                                                                         *)
(* The guest's programs keep changing the exported files while they are    *)
(* planned and copied.  Several sandboxes, and the host's user, may name   *)
(* the same destination: only exports of one sandbox exclude each other.   *)
(* The paths a request names are validated before anything is read         *)
(* (safeGuestPath, checkDestination's shape rules); a request here is one  *)
(* that passes.                                                            *)
(***************************************************************************)
EXTENDS Integers, FiniteSets, FiniteSetsExt, Functions, TLC

CONSTANTS
  Sandboxes,   \* running sandboxes; each serves one export at a time
  Files,       \* entries of the exported subtree
  First,       \* the subtree in each guest at the start
  User,        \* the host's user, who may create the destination too
  Nothing,     \* nothing at a host path
  MaxSize,     \* bound on a file's size
  MaxBytes, MaxFiles,              \* Limits
  MaxEdits, MaxExports, MaxFaults  \* bounds

(* Kinds of a guest entry: a regular file, one with a hard link outside the *)
(* subtree, a link inside the subtree, a link out of it, anything else.     *)
Kinds == {"file", "alias", "link", "escape", "device", "none"}
Entry == [kind : {"file", "alias"}, size : 0..MaxSize] \cup [kind : Kinds \ {"file", "alias"}, size : {0}]

VARIABLES
  guest,      \* the exported subtree in the guest's worktree
  pc,         \* what an export is doing
  single,     \* the request names one file, not a directory
  planned,    \* entries of the plan still to be copied, with their planned kind
  payload,    \* what was copied into the export's private temporary directory
  dest,       \* the destination on the host: who placed it, and what
  sidecar,    \* the provenance manifest beside it
  trail,      \* exports with an audit record
  unwritten,  \* exports interrupted by a crash of the daemon
  spent

vars == <<guest, pc, single, planned, payload, dest, sidecar, trail, unwritten, spent>>

NoFiles == [f \in {} |-> 0]
Copies == UNION {[fs -> [kind : {"file", "link"}, size : 0..MaxSize]] : fs \in SUBSET Files}
Placed == [by : Sandboxes, single : BOOLEAN, files : Copies]

TypeOK ==
  /\ guest \in [Sandboxes -> [Files -> Entry]]
  /\ pc \in [Sandboxes -> {"idle", "planned", "copy", "place", "sidecar", "audit"}]
  /\ single \in [Sandboxes -> BOOLEAN]
  /\ \A s \in Sandboxes : DOMAIN planned[s] \subseteq Files /\ payload[s] \in Copies
  /\ dest \in Placed \cup {User, Nothing}
  /\ sidecar \in Placed \cup {Nothing}
  /\ trail \subseteq Sandboxes /\ unwritten \subseteq Sandboxes
  /\ spent \in [{"edits", "exports", "faults"} -> Nat]

Init ==
  /\ guest = [s \in Sandboxes |-> First]
  /\ pc = [s \in Sandboxes |-> "idle"]
  /\ single = [s \in Sandboxes |-> FALSE]
  /\ planned = [s \in Sandboxes |-> NoFiles] /\ payload = planned
  /\ dest = Nothing /\ sidecar = Nothing
  /\ trail = {} /\ unwritten = {}
  /\ spent = [k \in {"edits", "exports", "faults"} |-> 0]

Spend(k, bound) == spent[k] < bound /\ spent' = [spent EXCEPT ![k] = @ + 1]
Goto(s, stage) == pc' = [pc EXCEPT ![s] = stage]
Size(copies) == MapThenSumSet(LAMBDA f : copies[f].size, DOMAIN copies)

(* The export returns: its temporary directory goes, the lock is released. *)
Return(s) ==
  /\ Goto(s, "idle")
  /\ planned' = [planned EXCEPT ![s] = NoFiles]
  /\ payload' = [payload EXCEPT ![s] = NoFiles]

-----------------------------------------------------------------------------
GuestWrites(s, f, e) ==
  /\ Spend("edits", MaxEdits) /\ e # guest[s][f]
  /\ guest' = [guest EXCEPT ![s][f] = e]
  /\ UNCHANGED <<pc, single, planned, payload, dest, sidecar, trail, unwritten>>

UserCreates ==
  /\ Spend("edits", MaxEdits) /\ dest = Nothing
  /\ dest' = User
  /\ UNCHANGED <<guest, pc, single, planned, payload, sidecar, trail, unwritten>>

(* planEntry: regular files and links that stay inside the subtree cross.   *)
planEntry(e) == e.kind \in {"file", "alias", "link"}

(* accountLink and checkHardlinks: every name of a file is in the subtree.  *)
checkHardlinks(tree, S) == \A f \in S : tree[f].kind # "alias"

planSubtree(tree) ==
  LET there == {f \in Files : tree[f].kind # "none"}
  IN IF /\ \A f \in there : planEntry(tree[f])
        /\ Cardinality(there) <= MaxFiles
        /\ MapThenSumSet(LAMBDA f : tree[f].size, there) <= MaxBytes
        /\ checkHardlinks(tree, there)
     THEN [f \in there |-> tree[f].kind]
     ELSE NoFiles

planSingleFile(tree, f) ==
  IF tree[f].size <= MaxBytes /\ checkHardlinks(tree, {f}) THEN (f :> "file") ELSE NoFiles

(* resolveSource: the named path exists, and is itself no link. *)
resolveSource(tree, f) == tree[f].kind \notin {"none", "link", "escape"}

(* buildPlan: the path a request names is a directory, a file, or refused.  *)
buildPlan(tree, names) ==
  IF names = Files THEN planSubtree(tree)
  ELSE LET f == CHOOSE g \in Files : names = {g}
       IN IF resolveSource(tree, f) /\ tree[f].kind # "device" THEN planSingleFile(tree, f) ELSE NoFiles

(* Export, called with the sandbox's syncMu held; a refused plan returns.   *)
Export(s, names) ==
  LET p == buildPlan(guest[s], names)
  IN IF p = NoFiles THEN UNCHANGED <<pc, planned>>
     ELSE Goto(s, "planned") /\ planned' = [planned EXCEPT ![s] = p]

(* ExportArtifact, of the service and of the manager: the sandbox runs and  *)
(* serves no other export.                                                  *)
ExportArtifact(s, names) ==
  /\ pc[s] = "idle" /\ Spend("exports", MaxExports)
  /\ (dest \notin {User, Nothing} => dest.by # s)  \* bound: one artifact per sandbox
  /\ single' = [single EXCEPT ![s] = names # Files]
  /\ Export(s, names)
  /\ trail' = trail \ {s} /\ unwritten' = unwritten \ {s}
  /\ UNCHANGED <<guest, payload, dest, sidecar>>

(* `mgit sandbox export`: a directory, or one file. *)
sandboxExportCmd(s) == ExportArtifact(s, Files) \/ \E f \in Files : ExportArtifact(s, {f})

(* checkDestination: neither the destination nor its sidecar exists. *)
checkDestination(s) ==
  /\ pc[s] = "planned"
  /\ IF dest = Nothing /\ sidecar = Nothing
     THEN Goto(s, "copy") /\ UNCHANGED <<planned, payload>>
     ELSE Return(s)
  /\ UNCHANGED <<guest, single, dest, sidecar, trail, unwritten, spent>>

(* Mutant: the whole ceiling is granted to every file. *)
BudgetPerFile(s) == MaxBytes

(* What materialize leaves copyRegular: limits.MaxBytes - total. *)
Budget(s) == MaxBytes - Size(payload[s])

(* copyRegular opens without following links, reads up to one byte past the *)
(* budget and refuses what has grown past it; a hard link made since the    *)
(* plan is read like a file.                                                *)
copyRegular(now, remaining) == now.kind \in {"file", "alias"} /\ now.size <= remaining

(* materialize, one entry per step: a planned link is recreated from its    *)
(* planned target, a planned file is copied.                                *)
CopyEntry(s, f) ==
  /\ pc[s] = "copy" /\ f \in DOMAIN planned[s]
  /\ LET now == guest[s][f]
         isLink == planned[s][f] = "link"
         copy == [kind |-> planned[s][f], size |-> IF isLink THEN 0 ELSE now.size]
         rest == DOMAIN planned[s] \ {f}
     IN IF isLink \/ copyRegular(now, Budget(s))
        THEN /\ payload' = [payload EXCEPT ![s] = @ @@ (f :> copy)]
             /\ planned' = [planned EXCEPT ![s] = Restrict(@, rest)]
             /\ Goto(s, IF rest = {} THEN "place" ELSE "copy")
        ELSE Return(s)
  /\ UNCHANGED <<guest, single, dest, sidecar, trail, unwritten, spent>>

(* newManifest: whose export it is, and the entries as they were copied. *)
newManifest(s) == [by |-> s, single |-> single[s], files |-> payload[s]]

(* os.Rename(payload, dest): replaces a file with a file; a directory in    *)
(* the way of a file, or anything in the way of a directory, refuses it.    *)
Place(s) ==
  /\ pc[s] = "place"
  /\ IF dest = Nothing \/ (single[s] /\ (dest = User \/ dest.single))
     THEN /\ dest' = newManifest(s)
          /\ Goto(s, "sidecar") /\ UNCHANGED <<planned, payload>>
     ELSE UNCHANGED dest /\ Return(s)
  /\ UNCHANGED <<guest, single, sidecar, trail, unwritten, spent>>

(* os.Rename of the manifest, which describes what was copied; a failure    *)
(* removes the destination.                                                 *)
PlaceSidecar(s, ok) ==
  /\ pc[s] = "sidecar"
  /\ IF ok
     THEN /\ sidecar' = newManifest(s)
          /\ Goto(s, "audit") /\ UNCHANGED <<planned, payload, dest, spent>>
     ELSE /\ Spend("faults", MaxFaults)
          /\ dest' = Nothing /\ UNCHANGED sidecar /\ Return(s)
  /\ UNCHANGED <<guest, single, trail, unwritten>>

(* auditExport: the record, or else both paths are removed. *)
auditExport(s, ok) ==
  /\ pc[s] = "audit"
  /\ IF ok
     THEN trail' = trail \cup {s} /\ UNCHANGED <<dest, sidecar, spent>>
     ELSE Spend("faults", MaxFaults) /\ dest' = Nothing /\ sidecar' = Nothing /\ UNCHANGED trail
  /\ Return(s)
  /\ UNCHANGED <<guest, single, unwritten>>

(* The daemon dies: the exports in flight stop where they are. *)
DaemonDies ==
  /\ \E s \in Sandboxes : pc[s] # "idle"
  /\ Spend("faults", MaxFaults)
  /\ unwritten' = unwritten \cup {s \in Sandboxes : pc[s] # "idle"}
  /\ pc' = [s \in Sandboxes |-> "idle"]
  /\ planned' = [s \in Sandboxes |-> NoFiles] /\ payload' = [s \in Sandboxes |-> NoFiles]
  /\ UNCHANGED <<guest, single, dest, sidecar, trail>>

Next ==
  \/ UserCreates \/ DaemonDies
  \/ \E s \in Sandboxes :
       \/ \E f \in Files : CopyEntry(s, f) \/ \E e \in Entry : GuestWrites(s, f, e)
       \/ sandboxExportCmd(s) \/ checkDestination(s) \/ Place(s)
       \/ \E ok \in BOOLEAN : PlaceSidecar(s, ok) \/ auditExport(s, ok)

Spec == Init /\ [][Next]_vars

-----------------------------------------------------------------------------
(* Whatever the guest does to its files between the plan and the copy, an   *)
(* artifact on the host is within the ceilings of its request (buildPlan    *)
(* measures, copyRegular enforces again on the bytes it reads).             *)
ExportWithinLimits ==
  dest \notin {User, Nothing} =>
    Size(dest.files) <= MaxBytes /\ Cardinality(DOMAIN dest.files) <= MaxFiles

(* An artifact on the host belongs to an export that is recorded, or still  *)
(* being recorded, or that a crash of the daemon cut short (auditExport     *)
(* undoes the export it cannot record).                                     *)
UnrecordedNeverStays ==
  dest \notin {User, Nothing} =>
    dest.by \in trail \cup unwritten \/ pc[dest.by] \in {"sidecar", "audit"}

(* "An export never overwrites, merges into, or deletes anything that       *)
(* already exists at the destination": what an export replaces or removes   *)
(* at its destination, it placed itself.                                    *)
ExportNeverOverwrites ==
  [][\A s \in Sandboxes :
       (dest' # dest /\ dest # Nothing /\ pc[s] # pc'[s]) =>
          dest # User /\ dest.by = s]_vars

(* An export that stays on the host is within its request's limits and on   *)
(* record (export.go, auditExport).                                         *)
ExportIsAccounted == ExportWithinLimits /\ UnrecordedNeverStays
=============================================================================
