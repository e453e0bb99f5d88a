------------------------------ MODULE Serving ------------------------------
(***************************************************************************)
(* `mgit serve' beside the commands: a long-lived process that opens the   *)
(* store once and then takes the store's process lock for each REST        *)
(* request or MCP tool call, commands that hold it for their lifetime, the *)
(* one apply journal the roots of a store share, and the configuration     *)
(* file (cmd/mgit/{serve,app,config}.go, internal/api/http, internal/mcp,  *)
(* internal/store/{lock,git}, internal/service/config.go).                 *)
(*                                                                         *)
(* A root is the repository or a linked worktree, each on a branch of its  *)
(* own; the tip of a branch is its length, its tree (0 or 1) and whether a *)
(* rollback made it.  TaskHistory has the commands themselves and their    *)
(* ledger rows, Workspaces and SandboxVerbs what the worktree and sandbox  *)
(* tools change.                                                           *)
(***************************************************************************)
EXTENDS Integers, Sequences, FiniteSets

CONSTANTS
  Clis,        \* commands
  Reqs,        \* requests of the server
  Served,      \* the root the server was opened at
  Others,      \* the other roots of the store
  Keys,        \* configuration keys
  MaxCommits,  \* bound on the commits of a branch
  MaxCrashes   \* bound on processes that die

Roots  == {Served} \cup Others
Actors == Clis \cup Reqs
None   == "none"
Torn   == {"torn"}
Idle   == [at |-> "idle", op |-> None, root |-> None, base |-> 0, tree |-> 0]
NoJournal == [root |-> None, n |-> 0]

VARIABLES
  lock,     \* locks/mgit.lock: who holds it
  srv,      \* the server: off, opening, up, stopping
  act,      \* each command and request
  tip,      \* the tip of each root's branch
  disk,     \* the files of each root
  edited,   \* the roots somebody edited since mgit last wrote or committed them
  journal,  \* apply_journal.json: its root, and the place its commit is to have
  behind,   \* processes that were open when an apply at a root was cut short, with the
            \* root, until the root is recovered (a record of what happened)
  config,   \* config.json: the keys that are set
  cached,   \* the server's copy of it
  crashes

vars == <<lock, srv, act, tip, disk, edited, journal, behind, config, cached, crashes>>
history == <<tip, disk, edited, journal, behind>>
configs == <<config, cached>>

\* The server is one process, whatever its requests.
Processes == Clis \cup {Served}
Process(a) == IF a \in Clis THEN a ELSE Served

Steps == {"idle", "detached", "in", "staged", "journaled", "advanced", "written", "save"}
Ops   == {None, "pass", "commit", "rollback", "fork", "set", "unset", "delete"}

TypeOK ==
  /\ lock \in Actors \cup {None, Served} /\ srv \in {"off", "opening", "up", "stopping"}
  /\ \A a \in Actors : /\ act[a].at \in Steps /\ act[a].op \in Ops
                       /\ act[a].root \in Roots \cup Keys \cup {None}
                       /\ act[a].base \in 0..MaxCommits /\ act[a].tree \in 0..1
  /\ tip \in [Roots -> [n : 1..MaxCommits, tree : 0..1, revert : BOOLEAN]]
  /\ disk \in [Roots -> 0..1] /\ edited \subseteq Roots
  /\ journal \in [root : Roots \cup {None}, n : 0..MaxCommits]
  /\ behind \subseteq Processes \X Roots
  /\ config \in (SUBSET Keys) \cup {Torn} /\ cached \in SUBSET Keys
  /\ crashes \in 0..MaxCrashes

\* Each root's branch has one recorded commit.
Init ==
  /\ lock = None /\ srv = "off" /\ act = [a \in Actors |-> Idle]
  /\ tip = [r \in Roots |-> [n |-> 1, tree |-> 1, revert |-> FALSE]] /\ disk = [r \in Roots |-> 1]
  /\ edited = {} /\ journal = NoJournal /\ behind = {}
  /\ config = {} /\ cached = {} /\ crashes = 0

To(a, at)  == act' = [act EXCEPT ![a].at = at]
\* The operation is over: Release, and the answer.
Done(a) == act' = [act EXCEPT ![a] = Idle] /\ lock' = IF lock = a THEN None ELSE lock

-----------------------------------------------------------------------------
(* Opening the store, the lock, and the two ways to hold it. *)

\* RecoverPendingApply at root r: a journaled commit that is the tip is completed; a
\* journal of another root is left for that root.
RecoverPendingApply(r) ==
  IF journal.root # r THEN UNCHANGED history
  ELSE /\ IF tip[r].revert /\ tip[r].n = journal.n
          THEN disk' = [disk EXCEPT ![r] = tip[r].tree] /\ edited' = edited \ {r}
          ELSE UNCHANGED <<disk, edited>>
       /\ journal' = NoJournal /\ behind' = {b \in behind : b[2] # r} /\ UNCHANGED tip

\* OpenApp, at root r: the lock, then the configuration file, which must parse, then
\* the recovery.
OpenApp(r, opened, refused) ==
  /\ lock = None
  /\ IF config = Torn THEN refused /\ UNCHANGED history ELSE opened /\ RecoverPendingApply(r)

\* A command opened at root r, or in it, about x: the lock is its own until it exits.
\* `mgit work' and `mgit worktree add' give it back once they are open.
openAppFromCwd(c, op, r, x) ==
  /\ act[c].at = "idle"
  /\ OpenApp(r, IF op = "fork"
                THEN act' = [act EXCEPT ![c].at = "detached", ![c].op = op, ![c].root = x] /\ UNCHANGED lock
                ELSE act' = [act EXCEPT ![c].at = "in", ![c].op = op, ![c].root = x] /\ lock' = c,
                act' = [act EXCEPT ![c] = Idle] /\ UNCHANGED lock)
  /\ UNCHANGED <<srv, configs, crashes>>

\* WorktreeService.claim takes it again for what is shared, with the store as it was
\* opened: nothing is recovered.
claim(c) ==
  /\ act[c].at = "detached" /\ lock = None
  /\ lock' = c /\ To(c, "in")
  /\ UNCHANGED <<srv, history, configs, crashes>>

\* Acquire gives up at its deadline, which a free lock never reaches.  Waiting for a
\* first lock, of a command or a request, and giving up on it changes nothing.
Timeout(c) ==
  /\ act[c].at = "detached" /\ lock # None
  /\ act' = [act EXCEPT ![c] = Idle]
  /\ UNCHANGED <<lock, srv, history, configs, crashes>>

(* Mutant: requests run without the lock. *)
lockingMiddlewareUnguarded(q, op, x) ==
  /\ act[q].at = "idle" /\ srv \in {"up", "stopping"}
  /\ act' = [act EXCEPT ![q].at = "in", ![q].op = op, ![q].root = x]
  /\ UNCHANGED <<lock, srv, history, configs, crashes>>

\* A request of either server, the handler op about x: the lock for its duration,
\* nothing opened anew.  One that waited may get it as the server stops.
lockingMiddleware(q, op, x) ==
  /\ act[q].at = "idle" /\ srv \in {"up", "stopping"} /\ lock = None
  /\ lock' = q /\ act' = [act EXCEPT ![q].at = "in", ![q].op = op, ![q].root = x]
  /\ UNCHANGED <<srv, history, configs, crashes>>

-----------------------------------------------------------------------------
(* The process that serves, and processes that die. *)

\* What opened the store and does not hold its lock.
Open == {c \in Clis : act[c].at = "detached"} \cup (IF srv \in {"up", "stopping"} THEN {Served} ELSE {})

\* The operations of A end where they are: an apply among them stays unfinished.
CutShort(A) ==
  LET cut == {act[a].root : a \in {b \in A : act[b].at \in {"journaled", "advanced", "written"}}}
  IN behind' = behind \cup (Open \X cut)

serveCmd ==
  /\ srv = "off" /\ srv' = "opening"
  /\ UNCHANGED <<lock, act, history, configs, crashes>>

\* openServeApp, then DetachLock: the store is opened like any command's and the lock
\* given back before the first request.
DetachLock ==
  /\ srv = "opening"
  /\ OpenApp(Served, srv' = "up" /\ cached' = config, srv' = "off" /\ UNCHANGED cached)
  /\ UNCHANGED <<lock, act, config, crashes>>

\* runServe leaves its select on a signal, a server that ended, or a closed stdin, and
\* gives the requests in hand serveShutdownTimeout; what is still running then is cut
\* off with the process.
runServe ==
  \/ /\ srv = "up" /\ srv' = "stopping"
     /\ UNCHANGED <<lock, act, history, configs, crashes>>
  \/ /\ srv = "stopping" /\ srv' = "off"
     /\ \/ \A q \in Reqs : act[q].at = "idle" /\ UNCHANGED crashes
        \/ crashes < MaxCrashes /\ crashes' = crashes + 1
     /\ act' = [a \in Actors |-> IF a \in Reqs THEN Idle ELSE act[a]]
     /\ lock' = IF lock \in Reqs THEN None ELSE lock
     /\ config' \in IF \E q \in Reqs : act[q].at = "save" THEN {config, Torn} ELSE {config}
     /\ cached' = {} /\ CutShort(Reqs) /\ UNCHANGED <<tip, disk, edited, journal>>

\* A command dies where it is; the kernel frees its lock.  A configuration file it was
\* writing is left half written.
Crash(c) ==
  /\ act[c].at # "idle" /\ crashes < MaxCrashes /\ crashes' = crashes + 1
  /\ act' = [act EXCEPT ![c] = Idle] /\ lock' = IF lock = c THEN None ELSE lock
  /\ config' \in IF act[c].at = "save" THEN {config, Torn} ELSE {config}
  /\ CutShort({c})
  /\ UNCHANGED <<srv, tip, disk, edited, journal, cached>>

\* Anybody edits files; nothing locks them.
Edit(r) ==
  /\ r \notin edited
  /\ disk' = [disk EXCEPT ![r] = 1 - @] /\ edited' = edited \cup {r}
  /\ UNCHANGED <<lock, srv, act, tip, journal, behind, configs, crashes>>

-----------------------------------------------------------------------------
(* What runs under the lock, step by step. *)

\* Everything that leaves what is modelled here alone.
Pass(a) ==
  /\ act[a].at = "in" /\ act[a].op = "pass" /\ Done(a)
  /\ UNCHANGED <<srv, history, configs, crashes>>

\* stageAll and StagedTreeMatchesHead, or the foundation of a new worktree
\* (EnsureSyncedForNewWorktree): the tree is read off the files.
stageAll(a) ==
  LET r == act[a].root IN
  /\ act[a].at = "in" /\ act[a].op \in {"commit", "fork"}
  /\ \/ disk[r] = tip[r].tree /\ Done(a)
     \/ tip[r].n < MaxCommits /\ UNCHANGED lock
          /\ act' = [act EXCEPT ![a].at = "staged", ![a].base = tip[r].n, ![a].tree = disk[r]]
  /\ UNCHANGED <<srv, history, configs, crashes>>

\* advanceBranchRefCAS: the commit exists; the branch moves to it if nobody moved it
\* since it was read.
advanceBranchRefCAS(a, tree, revert) ==
  LET r == act[a].root IN
  tip' = IF tip[r].n = act[a].base
         THEN [tip EXCEPT ![r] = [n |-> @.n + 1, tree |-> tree, revert |-> revert]] ELSE tip

createCommit(a) ==
  LET r == act[a].root IN
  /\ act[a].at = "staged"
  /\ advanceBranchRefCAS(a, act[a].tree, FALSE)
  /\ edited' = IF tip[r].n = act[a].base /\ disk[r] = act[a].tree THEN edited \ {r} ELSE edited
  /\ Done(a)
  /\ UNCHANGED <<srv, disk, journal, behind, configs, crashes>>

\* Another root's pending journal is not written over; this root's own is.
WriteApplyJournal(r, wrote, refused) ==
  IF journal.root \notin {None, r} THEN refused /\ UNCHANGED journal
  ELSE journal' = [root |-> r, n |-> tip[r].n + 1] /\ wrote

\* RollbackTask: of files nobody changed, if there is anything to undo.
RollbackTask(a) ==
  LET r == act[a].root IN
  /\ act[a].at = "in" /\ act[a].op = "rollback"
  /\ \/ /\ disk[r] # tip[r].tree \/ tip[r].tree = 0
        /\ Done(a) /\ UNCHANGED journal
     \/ /\ disk[r] = tip[r].tree /\ tip[r].tree = 1 /\ tip[r].n < MaxCommits
        /\ WriteApplyJournal(r,
             act' = [act EXCEPT ![a].at = "journaled", ![a].base = tip[r].n] /\ UNCHANGED lock, Done(a))
  /\ UNCHANGED <<srv, tip, disk, edited, behind, configs, crashes>>

\* The branch moves, or somebody moved it and the request fails, its journal left.
createFromDiffs(a) ==
  /\ act[a].at = "journaled"
  /\ advanceBranchRefCAS(a, 0, TRUE)
  /\ IF tip[act[a].root].n = act[a].base THEN To(a, "advanced") /\ UNCHANGED lock ELSE Done(a)
  /\ UNCHANGED <<srv, disk, edited, journal, behind, configs, crashes>>

\* The files are written, or cannot be and the journal is left pending.
MaterializeDiffs(a) ==
  LET r == act[a].root IN
  /\ act[a].at = "advanced"
  /\ \/ /\ disk' = [disk EXCEPT ![r] = 0] /\ edited' = edited \ {r}
        /\ To(a, "written") /\ UNCHANGED <<lock, behind, crashes>>
     \/ /\ crashes < MaxCrashes /\ crashes' = crashes + 1
        /\ Done(a) /\ CutShort({a}) /\ UNCHANGED <<disk, edited>>
  /\ UNCHANGED <<srv, tip, journal, configs>>

ClearApplyJournal(a) ==
  /\ act[a].at = "written" /\ journal' = NoJournal /\ Done(a)
  /\ UNCHANGED <<srv, tip, disk, edited, behind, configs, crashes>>

\* ConfigService.Set on the copy in hand: the server's is the one it loaded when it
\* started.  Deleting a key sets it to null, which a typed field ignores.
Set(a) ==
  LET k == act[a].root IN
  /\ act[a].at = "in" /\ act[a].op \in {"set", "unset", "delete"}
  /\ \/ /\ a \in Clis /\ To(a, "save") /\ UNCHANGED <<lock, cached>>
     \/ /\ a \in Reqs
        /\ cached' = IF act[a].op = "set" THEN cached \cup {k} ELSE cached \ {k}
        /\ To(a, "save") /\ UNCHANGED lock
  /\ UNCHANGED <<srv, history, config, crashes>>

\* Save writes the whole configuration over the file.
Save(a) ==
  LET k    == act[a].root
      mine == IF a \in Reqs THEN cached
              ELSE CASE act[a].op = "set" -> config \cup {k}
                     [] act[a].op = "unset" -> config \ {k}
                     [] act[a].op = "delete" -> config
  IN
  /\ act[a].at = "save"
  /\ config' = mine
  /\ Done(a)
  /\ UNCHANGED <<srv, history, cached, crashes>>

-----------------------------------------------------------------------------
(* The commands, the REST handlers and the MCP tools. *)

configCmd(c) ==
  \/ \E k \in Keys, op \in {"set", "unset", "delete"} : openAppFromCwd(c, op, Served, k)
  \/ openAppFromCwd(c, "pass", Served, Served)
storeCmd(c) == \E r \in Roots, op \in {"pass", "commit", "rollback", "fork"} : openAppFromCwd(c, op, r, r)

Request(q, op) == lockingMiddleware(q, op, Served)

healthHandler(q)       == Request(q, "pass")
createCommitHandler(q) == Request(q, "commit")
getCommitHandler(q)    == Request(q, "pass")
listCommitsHandler(q)  == Request(q, "pass")
getTaskCommitsHandler(q) == Request(q, "pass")
listBranchesHandler(q) == Request(q, "pass")
createBranchHandler(q) == Request(q, "pass")
squashHandler(q)       == Request(q, "pass")
rollbackHandler(q)     == Request(q, "rollback")
verifyHandler(q)       == Request(q, "pass")

setupRoutes(q) ==
  \/ healthHandler(q) \/ createCommitHandler(q) \/ getCommitHandler(q) \/ listCommitsHandler(q)
  \/ getTaskCommitsHandler(q) \/ listBranchesHandler(q) \/ createBranchHandler(q)
  \/ squashHandler(q) \/ rollbackHandler(q) \/ verifyHandler(q)

\* validateTaskID, validatePath, validateText, validateToken: a tool whose arguments
\* they refuse answers an error and does nothing more.
Valid(q, op) == Request(q, op) \/ Request(q, "pass")

commitTool(q)   == Valid(q, "commit")
rollbackTool(q) == Valid(q, "rollback")
squashTool(q)   == Valid(q, "pass")
statusTool(q)   == Request(q, "pass")
logTool(q)      == Request(q, "pass")
showTool(q)     == Request(q, "pass")
branchTool(q)   == Valid(q, "pass")
verifyTool(q)   == Request(q, "pass")
diffTool(q)     == Request(q, "pass")
exportTool(q)   == Request(q, "pass")
auditTool(q)    == Request(q, "pass")
configTool(q) ==
  \/ \E k \in Keys, op \in {"set", "unset"} : lockingMiddleware(q, op, k)
  \/ Request(q, "pass")
worktreeAddTool(q)    == Valid(q, "fork")
worktreeListTool(q)   == Request(q, "pass")
worktreeRemoveTool(q) == Valid(q, "pass")
sandboxSyncTool(q)    == Valid(q, "pass")
sandboxPolicyTool(q)  == Valid(q, "pass")
sandboxExportTool(q)  == Valid(q, "pass")

registerTools(q) ==
  \/ commitTool(q) \/ rollbackTool(q) \/ squashTool(q) \/ statusTool(q) \/ logTool(q) \/ showTool(q)
  \/ branchTool(q) \/ verifyTool(q) \/ diffTool(q) \/ exportTool(q) \/ auditTool(q) \/ configTool(q)
  \/ worktreeAddTool(q) \/ worktreeListTool(q) \/ worktreeRemoveTool(q)
  \/ sandboxSyncTool(q) \/ sandboxPolicyTool(q) \/ sandboxExportTool(q)

Work(a) ==
  \/ Pass(a) \/ stageAll(a) \/ createCommit(a) \/ RollbackTask(a)
  \/ createFromDiffs(a) \/ MaterializeDiffs(a) \/ ClearApplyJournal(a) \/ Set(a) \/ Save(a)

Next ==
  \/ serveCmd \/ DetachLock \/ runServe
  \/ \E r \in Roots : Edit(r)
  \/ \E c \in Clis : storeCmd(c) \/ configCmd(c) \/ claim(c) \/ Timeout(c) \/ Crash(c)
  \/ \E q \in Reqs : setupRoutes(q) \/ registerTools(q)
  \/ \E a \in Actors : Work(a)

Spec == Init /\ [][Next]_vars

-----------------------------------------------------------------------------
(* Properties. *)

\* A commit of files that nobody edited carries the tip's content.
Absorbs(r) ==
  tip'[r] # tip[r] /\ r \notin edited /\ ~tip'[r].revert /\ tip'[r].tree # tip[r].tree

\* The step is the commit of a at root r.
Commits(a, r) == act[a].at = "staged" /\ act[a].root = r /\ act'[a] = Idle

\* A commit takes up files that an unfinished rollback left behind only when the
\* process that makes it was already open as the rollback was cut short, a server or
\* a command that gave its lock back, and nobody opened the root since: an open finds
\* its root's own journal, whatever was written meanwhile for other roots, and no
\* request and no claim runs between another's steps (apply_journal.go:48-70,
\* lock/guard.go:35-45, worktree.go:123).
StaleStep ==
  \A r \in Roots : Absorbs(r) => \E a \in Actors : Commits(a, r) /\ <<Process(a), r>> \in behind
StaleNeverAbsorbed == [][StaleStep]_vars

\* No commit ever does: "the application is completed, so the auto-resync can never
\* absorb the stale disk state and silently undo a revert" (apply_recovery.go:19-22).
RevertStands == [][\A r \in Roots : ~Absorbs(r)]_vars

\* Changing one key leaves the others as they are in the file.
SetChangesItsKey ==
  [][config # Torn /\ config' # Torn =>
       Cardinality((config \ config') \cup (config' \ config)) <= 1]_vars
=============================================================================
