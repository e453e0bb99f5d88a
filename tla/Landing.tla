------------------------------- MODULE Landing -------------------------------
(***************************************************************************)
(* Landing the commits of a sandboxed task on the host: LandService,       *)
(* LandOrchestrator, the land pipeline of internal/sandboxd/land and the   *)
(* native projection of cmd/mgit-sandboxd, with the native commits and     *)
(* edits of the same worktree going on next to them.                       *)
(*                                                                         *)
(* The guest commits into a private store seeded from the task branch.  A  *)
(* land pulls everything reachable from the guest's head, keeps what the   *)
(* host has not seen, verifies it, imports the objects, appends the ledger *)
(* rows, fast-forwards the branch onto the worktree and records delivery;  *)
(* then it checks the projection once more.  The repository lock is held   *)
(* from the import to the delivery, and again by the check, but not while  *)
(* the batch is derived.                                                   *)
(***************************************************************************)
EXTENDS MicroTree

CONSTANTS Callers,      \* requests to land this task's sandbox
          MaxCommits,   \* bound: commits ever written, the fork base included
          MaxCrashes    \* bound: crashes of the daemon or of a command

ASSUME BoundsAssumption == MaxCommits \in Nat \ {0} /\ MaxCrashes \in Nat

VARIABLES
  commits,   \* every commit written by the host or by a guest
  objects,   \* commits whose commit object the shared store holds
  whole,     \* ... and whose tree and blobs it holds too
  rows,      \* task_commits with the latest admission of each row
  tip,       \* the task branch
  disk,      \* the working copy of the task's worktree
  staged,    \* the staging set of the worktree
  guest,     \* head of the guest's private store, 0 when there is no sandbox
  cli,       \* the mgit command that holds the repository lock
  land,      \* what each caller of Land is doing
  crashes,
  late       \* history: the paths edited since a land found the worktree clean

vars == <<commits, objects, whole, rows, tip, disk, staged, guest, cli, land, crashes, late>>

FlightStages == {"persist", "append", "publish", "write", "read_back"}
LockedStages == {"append", "publish", "write", "read_back", "recheck", "rewrite", "confirm"}
WriteStages  == {"write", "rewrite"}
Stages       == FlightStages \cup LockedStages \cup
                {"idle", "joined", "check", "landed", "failed"}

Call == [stage : Stages, head : 0..MaxCommits, chain : Seq(1..MaxCommits),
         basePos : Nat, target : 0..MaxCommits, cur : 0..MaxCommits]

\* A caller that has no land under way.
Idle == [stage |-> "idle", head |-> 0, chain |-> <<>>, basePos |-> 0, target |-> 0, cur |-> 0]

Row  == [commit : 1..MaxCommits, pos : Nat, origin : {"host", "land"},
         state : {"pending", "delivered"}]

Ids         == 1..Len(commits)
Tree(k)     == commits[k].tree
Line(k)     == commits[k].line
InLedger(k) == \E r \in 1..Len(rows) : rows[r].commit = k

Locked   == cli.stage # "idle" \/ \E c \in Callers : land[c].stage \in LockedStages
InFlight == \E c \in Callers : land[c].stage \in FlightStages

Init ==
  \E t \in Trees :
    /\ commits = <<ForkBase(t)>> /\ objects = {1} /\ whole = {1}
    /\ rows = <<>> /\ tip = 1 /\ disk = t /\ staged = {} /\ guest = 0
    /\ cli = [stage |-> "idle", commit |-> 0]
    /\ land = [c \in Callers |-> Idle]
    /\ crashes = 0 /\ late = {}

------------------------------------------------------------------------------
(* The guest. *)

\* StoreProvisioner.Provision: a fresh private store holding what is reachable
\* from the task branch.  It takes no lock.
Provision ==
  /\ guest = 0
  /\ guest' = tip
  /\ UNCHANGED <<commits, objects, whole, rows, tip, disk, staged, cli, land, crashes, late>>

\* A commit in the guest, on the private store.
GuestCommit ==
  /\ guest # 0 /\ Len(commits) < MaxCommits
  /\ \E t \in Trees \ {Tree(guest)} :
       commits' = Append(commits, Child(commits, guest, t, "guest"))
  /\ guest' = Len(commits) + 1
  /\ UNCHANGED <<objects, whole, rows, tip, disk, staged, cli, land, crashes, late>>

\* The sandbox is removed, and its private store with it.
Teardown ==
  /\ guest # 0
  /\ guest' = 0
  /\ UNCHANGED <<commits, objects, whole, rows, tip, disk, staged, cli, land, crashes, late>>

------------------------------------------------------------------------------
(* The host's own work in the same worktree. *)

\* Someone edits a file; nothing locks the working copy.
Edit ==
  /\ \E p \in Paths :
       /\ \E e \in Entries \ {disk[p]} : disk' = [disk EXCEPT ![p] = e]
       /\ late' = IF \E c \in Callers : land[c].stage \in WriteStages THEN late \cup {p} ELSE late
  /\ UNCHANGED <<commits, objects, whole, rows, tip, staged, guest, cli, land, crashes>>

\* WorktreeStore.Add of one path: it must exist or be tracked.
Add ==
  /\ ~Locked
  /\ \E p \in Paths \ staged : /\ disk[p] # Absent \/ Tree(tip)[p] # Absent
                               /\ staged' = staged \cup {p}
  /\ UNCHANGED <<commits, objects, whole, rows, tip, disk, guest, cli, land, crashes, late>>

\* RestoreService.Unstage.
Unstage ==
  /\ ~Locked
  /\ \E p \in staged : staged' = staged \ {p}
  /\ UNCHANGED <<commits, objects, whole, rows, tip, disk, guest, cli, land, crashes, late>>

\* CommitService.CreateCommit up to the compare-and-set of the branch: stage
\* everything if asked to, refuse a commit that changes nothing, write the
\* commit and advance the branch.
CreateCommit ==
  /\ ~Locked /\ Len(commits) < MaxCommits
  /\ \E all \in BOOLEAN :
       LET set  == IF all THEN staged \cup Differ(disk, Tree(tip)) ELSE staged
           tree == StagedTree(Tree(tip), disk, set)
       IN /\ tree # Tree(tip)
          /\ commits' = Append(commits, Child(commits, tip, tree, "host"))
          /\ staged' = set
  /\ LET k == Len(commits) + 1
     IN /\ objects' = objects \cup {k} /\ whole' = whole \cup {k} /\ tip' = k
        /\ cli' = [stage |-> "clear", commit |-> k]
  /\ UNCHANGED <<rows, disk, guest, land, crashes, late>>

\* ... the staging set is cleared ...
ClearStaging ==
  /\ cli.stage = "clear"
  /\ staged' = {}
  /\ cli' = [cli EXCEPT !.stage = "index"]
  /\ UNCHANGED <<commits, objects, whole, rows, tip, disk, guest, land, crashes, late>>

(* Mutant: the position counts every commit there is, not the rows. *)
AddCommitAfterAll ==
  /\ cli.stage = "index"
  /\ rows' = Append(rows, [commit |-> cli.commit, pos |-> Len(commits),
                           origin |-> "host", state |-> "delivered"])
  /\ cli' = [stage |-> "idle", commit |-> 0]
  /\ UNCHANGED <<commits, objects, whole, tip, disk, staged, guest, land, crashes, late>>

\* ... and the commit gets its ledger row, after the rows there are.
AddCommitToTask ==
  /\ cli.stage = "index"
  /\ rows' = Append(rows, [commit |-> cli.commit, pos |-> Len(rows),
                           origin |-> "host", state |-> "delivered"])
  /\ cli' = [stage |-> "idle", commit |-> 0]
  /\ UNCHANGED <<commits, objects, whole, tip, disk, staged, guest, land, crashes, late>>

------------------------------------------------------------------------------
(* A land. *)

(* Mutant: the callers that joined a flight are not told its result. *)
LeaveAlone(c, s) == land' = [land EXCEPT ![c].stage = s]

\* The call c ends in stage s.  Callers that joined its flight share what the
\* flight returned (singleflight.Group.Do).
Leave(c, s) ==
  land' = [d \in Callers |->
             IF d = c \/ (land[d].stage = "joined" /\ land[c].stage \in FlightStages)
             THEN [land[c] EXCEPT !.stage = s] ELSE land[d]]

\* The call c alone goes on to stage s.
Advance(c, s) == land' = [land EXCEPT ![c].stage = s]

\* newChain: the commits of the pool that are base history are those in the
\* task's ledger and those the shared store holds.
Skipped(k) == InLedger(k) \/ k \in objects

NewCommits(head) == {k \in Line(head) : ~Skipped(k)}

\* orderChain: the new commits must be one chain, with a single root ...
OneChain(new) == Cardinality({k \in new : commits[k].parent \notin new}) = 1

\* ... and are taken parent first.
ParentFirst(new) ==
  {chain \in UNION {[1..n -> new] : n \in 1..MaxCommits} :
     /\ \A k \in new : \E i \in DOMAIN chain : chain[i] = k
     /\ \A i, j \in DOMAIN chain : i < j => chain[i] \in Line(chain[j]) \ {chain[j]}}

\* verifyBatch resolves the parent tree of every new commit.  buildRequest has
\* taken the pool out of the resolver when it returned, so only the shared store
\* answers.
ParentsResolve(new) == \A k \in new : commits[k].parent \in whole

\* LandService.Land joining a flight for the same sandbox.
Join(c) ==
  /\ land[c].stage = "idle" /\ guest # 0 /\ InFlight
  /\ Advance(c, "joined")
  /\ UNCHANGED <<commits, objects, whole, rows, tip, disk, staged, guest, cli, crashes, late>>

\* A land with what it read of the guest's head and of the ledger.
Derived(stage, chain, target) ==
  [stage |-> stage, head |-> guest, chain |-> chain, basePos |-> Len(rows), target |-> target,
   cur |-> 0]

\* landOnce and LandOrchestrator.Land up to the persister: pull, derive the new
\* chain and its base position, verify.  No lock is held.
Derive(c) ==
  /\ land[c].stage = "idle" /\ guest # 0 /\ ~InFlight
  /\ LET new == NewCommits(guest)
         sound == OneChain(new) /\ ParentsResolve(new)
     IN \/ new = {} /\ land' = [land EXCEPT ![c] = Derived("check", <<>>, 0)]
        \/ /\ new # {} /\ sound
           /\ \E chain \in ParentFirst(new) :
                land' = [land EXCEPT ![c] = Derived("persist", chain, chain[Len(chain)])]
        \/ new # {} /\ ~sound /\ land' = [land EXCEPT ![c] = Derived("failed", <<>>, 0)]
  /\ UNCHANGED <<commits, objects, whole, rows, tip, disk, staged, guest, cli, crashes, late>>

\* ImportObjects, under the lock.  The guest streams its head first and a commit
\* before its tree, so an import that fails part way leaves the newest commit
\* objects without their trees.
ImportObjects(c) ==
  /\ land[c].stage = "persist" /\ ~Locked
  /\ \/ /\ objects' = objects \cup Line(land[c].head)
        /\ whole' = whole \cup Line(land[c].head)
        /\ Advance(c, "append")
     \/ /\ \E k \in Line(land[c].head) :
             objects' = objects \cup {j \in Line(land[c].head) : j >= k}
        /\ whole' = whole
        /\ Leave(c, "failed")
  /\ UNCHANGED <<commits, rows, tip, disk, staged, guest, cli, crashes, late>>

\* AppendTaskCommits: every row of the batch in one transaction, or none.
AppendTaskCommits(c) ==
  /\ land[c].stage = "append"
  /\ \/ /\ rows' = rows \o [i \in 1..Len(land[c].chain) |->
                             [commit |-> land[c].chain[i], pos |-> land[c].basePos + i - 1,
                              origin |-> "land", state |-> "pending"]]
        /\ Advance(c, "publish")
     \/ rows' = rows /\ Leave(c, "failed")
  /\ UNCHANGED <<commits, objects, whole, tip, disk, staged, guest, cli, crashes, late>>

(* Mutant: only staged paths count as host work. *)
StagedChanges(target) == staged

\* What FastForwardDelivered refuses to overwrite: a staged path, or a file that
\* is neither what the branch nor what the target has there.
HostChanges(target) ==
  staged \cup {p \in Paths : /\ Tree(tip)[p] # Absent \/ Tree(target)[p] # Absent
                             /\ disk[p] \notin {Tree(tip)[p], Tree(target)[p]}}

\* What FastForwardDelivered, and the binding checks before it, require.
MayPublish(target) ==
  guest # 0 /\ target \in whole /\ tip \in Line(target) /\ HostChanges(target) = {}

\* FastForwardDelivered onto the worktree the registry binds to the sandbox:
\* refuse a target the branch is not an ancestor of, or host changes ...
FastForward(c) ==
  LET target == land[c].target
      free   == MayPublish(target)
  IN /\ land[c].stage \in {"publish", "recheck"}
     /\ \/ /\ free
           /\ land' = [land EXCEPT ![c].cur = tip,
                        ![c].stage = IF land[c].stage = "publish" THEN "write" ELSE "rewrite"]
           /\ late' = {}
        \/ ~free /\ Leave(c, "failed") /\ UNCHANGED late
     /\ UNCHANGED <<commits, objects, whole, rows, tip, disk, staged, guest, cli, crashes>>

\* ... write the target's tree over whatever is there by now, then advance the
\* branch by compare-and-set.  A write that fails has done some of it.
materializeCommit(c) ==
  LET target == land[c].target
      cur    == land[c].cur
      next   == IF land[c].stage = "write" THEN "read_back" ELSE "confirm"
  IN /\ land[c].stage \in WriteStages
     /\ \/ /\ tip = cur
           /\ disk' = Materialized(Tree(cur), Tree(target), disk)
           /\ tip' = target
           /\ Advance(c, next)
        \/ /\ disk' \in PartlyMaterialized(Tree(cur), Tree(target), disk)
           /\ tip' = tip
           /\ Leave(c, "failed")
     /\ late' = {}
     /\ UNCHANGED <<commits, objects, whole, rows, staged, guest, cli, crashes>>

\* VerifyDelivered: every tracked file is as committed.
ReadBackOK(target) ==
  tip = target /\ staged = {} /\ \A p \in Paths : Tree(tip)[p] # Absent => disk[p] = Tree(tip)[p]

(* Mutants: every pending row is delivered, and delivery has a state of its own. *)
DeliveredAll(target) ==
  [r \in 1..Len(rows) |-> [rows[r] EXCEPT !.state = "delivered"]]

\* RecordDelivered for the pending land rows the target contains.
Delivered(target) ==
  [r \in 1..Len(rows) |->
     IF rows[r].origin = "land" /\ rows[r].commit \in Line(target)
     THEN [rows[r] EXCEPT !.state = "delivered"] ELSE rows[r]]

\* VerifyDelivered and RecordDelivered, and the lock is released.  The flight
\* then writes its `landed' event, which may fail with the land durable.
RecordDelivered(c) ==
  /\ land[c].stage \in {"read_back", "confirm"}
  /\ \/ /\ ReadBackOK(land[c].target)
        /\ rows' = Delivered(land[c].target)
        /\ \/ Leave(c, IF land[c].stage = "read_back" THEN "check" ELSE "landed")
           \/ land[c].stage = "read_back" /\ Leave(c, "failed")
     \/ /\ ~ReadBackOK(land[c].target)
        /\ rows' = rows
        /\ Leave(c, "failed")
  /\ UNCHANGED <<commits, objects, whole, tip, disk, staged, guest, cli, crashes, late>>

\* landProjection.Check: the last row by position is the expected tip, unless the
\* branch is ahead of it.  Rows of equal position come in no particular order.
Check(c) ==
  /\ land[c].stage = "check" /\ ~Locked
  /\ \/ guest = 0 /\ Advance(c, "failed")
     \/ guest # 0 /\ rows = <<>> /\ Advance(c, "landed")
     \/ /\ guest # 0
        /\ \E r \in 1..Len(rows) :
             /\ \A s \in 1..Len(rows) : rows[s].pos <= rows[r].pos
             /\ land' = [land EXCEPT ![c].stage = "recheck",
                                     ![c].target = IF rows[r].commit \in Line(tip)
                                                   THEN tip ELSE rows[r].commit]
  /\ UNCHANGED <<commits, objects, whole, rows, tip, disk, staged, guest, cli, crashes, late>>

\* Guarder.Guard gives up waiting for the repository lock.
LockTimeout(c) ==
  /\ land[c].stage \in {"persist", "check"} /\ Locked
  /\ Leave(c, "failed")
  /\ UNCHANGED <<commits, objects, whole, rows, tip, disk, staged, guest, cli, crashes, late>>

\* The caller has its answer.
Answered(c) ==
  /\ land[c].stage \in {"landed", "failed"}
  /\ land' = [land EXCEPT ![c] = Idle]
  /\ UNCHANGED <<commits, objects, whole, rows, tip, disk, staged, guest, cli, crashes, late>>

------------------------------------------------------------------------------
(* Crashes.  The flock of a dead process is gone. *)

\* The daemon dies, its VMs and their private stores with it.
CrashDaemon ==
  /\ crashes < MaxCrashes /\ crashes' = crashes + 1
  /\ guest # 0 \/ \E c \in Callers : land[c].stage # "idle"
  /\ guest' = 0 /\ land' = [c \in Callers |-> Idle] /\ late' = {}
  /\ UNCHANGED <<commits, objects, whole, rows, tip, disk, staged, cli>>

\* A command dies, or one of its writes fails: a commit is not journaled.
CrashCommand ==
  /\ crashes < MaxCrashes /\ crashes' = crashes + 1
  /\ cli.stage # "idle"
  /\ cli' = [stage |-> "idle", commit |-> 0]
  /\ UNCHANGED <<commits, objects, whole, rows, tip, disk, staged, guest, land, late>>

\* What a caller does once its land is under way.
LandStep(c) ==
  \/ ImportObjects(c) \/ AppendTaskCommits(c) \/ FastForward(c) \/ materializeCommit(c)
  \/ RecordDelivered(c) \/ Check(c) \/ LockTimeout(c) \/ Answered(c)

Next ==
  \/ Provision \/ GuestCommit \/ Teardown
  \/ Edit \/ Add \/ Unstage
  \/ CreateCommit \/ ClearStaging \/ AddCommitToTask
  \/ \E c \in Callers : Join(c) \/ Derive(c) \/ LandStep(c)
  \/ CrashDaemon \/ CrashCommand

Spec == Init /\ [][Next]_vars

\* A land runs on goroutines of the daemon, and waits for the repository lock
\* with a timeout.
FairSpec == Spec /\ \A c \in Callers : WF_vars(LandStep(c))

------------------------------------------------------------------------------
(* Properties. *)

\* The variables keep their types.
TypeOK ==
  /\ commits \in Seq([parent : 0..MaxCommits, line : SUBSET (1..MaxCommits),
                      tree : Trees, by : {"base", "host", "guest"}])
  /\ Len(commits) \leq MaxCommits
  /\ objects \subseteq Ids /\ whole \subseteq objects
  /\ rows \in Seq(Row)
  /\ tip \in Ids /\ disk \in Trees /\ staged \subseteq Paths
  /\ guest \in 0..Len(commits)
  /\ cli \in [stage : {"idle", "clear", "index"}, commit : 0..MaxCommits]
  /\ land \in [Callers -> Call]
  /\ crashes \in 0..MaxCrashes /\ late \subseteq Paths

\* What the branch and the ledger name can be read back: every commit they
\* reach is in the shared store with its tree, whatever was interrupted between
\* the import, the append and the fast-forward (Lander.Land's ordering).
LedgerGrounded ==
  /\ Line(tip) \subseteq whole
  /\ \A r \in 1..Len(rows) : Line(rows[r].commit) \subseteq whole

\* A row is marked delivered only when its commit is part of the task branch
\* (publish records the pending rows that are ancestors of the verified tip), and
\* it stays so whatever the host commits afterwards.
DeliveredOnBranch ==
  \A r \in 1..Len(rows) : rows[r].state = "delivered" => rows[r].commit \in Line(tip)

\* The order in which the content services read delivered rows, by position and
\* then by insertion (GetContentSnapshot), is the order of the history: a row
\* never comes before a row of one of its ancestors, even though a land reads its
\* base position before it takes the lock.
LedgerFollowsHistory ==
  \A r, s \in 1..Len(rows) :
    /\ rows[r].state = "delivered" /\ rows[s].state = "delivered"
    /\ rows[r].commit # rows[s].commit /\ rows[r].commit \in Line(rows[s].commit)
    => rows[r].pos < rows[s].pos \/ (rows[r].pos = rows[s].pos /\ r < s)

\* No step of the host, of a land or of a retry after a crash takes a commit off
\* the task branch.
BranchOnlyGrows == Line(tip) \subseteq Line(tip)'

\* A land never destroys work that exists only in the working copy: a file it
\* replaces or removes holds what some commit of the shared store has at that
\* path.  That covers the retries that find a worktree half written; a file
\* edited between the comparison and the write is written over.
Recorded(p) == disk[p] = Absent \/ \E k \in whole : Tree(k)[p] = disk[p]

WorktreeKept == land' # land => \A p \in Differ(disk, disk') \ late : Recorded(p)

\* "It never accepts a third version" (FastForwardDelivered): the same without
\* that exception.
LateEditsKept == [][land' # land => \A p \in Differ(disk, disk') : Recorded(p)]_vars

\* Neither what was committed nor what was not is lost to a land (Lander.Land,
\* publish).
HostWorkStep == BranchOnlyGrows /\ WorktreeKept
HostWorkKept == [][HostWorkStep]_vars

\* Every caller of Land gets an answer: a flight does not wait for the lock it
\* holds itself, and who joined it is not left behind.
Answering(c) == land[c].stage # "idle"
LandsReturn == \A c \in Callers : []<>~Answering(c)

\* A guest's own linear history is never refused: "This lets a multi-commit chain
\* land atomically" (PoolAwareParentResolver).  Here: as long as nothing failed
\* before, a derived batch does not fail verification.
ChainLands ==
  [][\A c \in Callers :
       land[c].stage = "idle" /\ land'[c].stage = "failed" => objects # whole]_vars

\* A land that reports success leaves no commit of the guest without a ledger
\* row: an earlier land that stopped between the import and the append leaves
\* "only harmless orphan objects" (Lander.Land).
OrphansHarmless ==
  [][\A c \in Callers :
       land[c].stage # "landed" /\ land'[c].stage = "landed" =>
         \A k \in Line(land[c].head) : commits[k].by = "guest" => InLedger(k)']_vars

\* A commit's line is its own: the lines of its ancestors, and itself.
LinesClosed ==
  \A k \in Ids : k \in Line(k) /\ Line(k) \subseteq 1..k /\ \A j \in Line(k) : Line(j) \subseteq Line(k)

\* What the store holds with its tree it holds with its history; the branch, the ledger
\* and the commit that a command still has to index are held so.
StoreClosed ==
  /\ tip \in whole /\ \A k \in whole : Line(k) \subseteq whole
  /\ \A r \in 1..Len(rows) : rows[r].commit \in whole
  /\ cli.stage # "idle" => cli.commit \in Line(tip)

\* The repository lock has one holder.
LockAlone ==
  \A c, d \in Callers : land[c].stage \in LockedStages /\ land[d].stage \in LockedStages => c = d

\* A land that is about to write found its target ahead of the branch, and every
\* file of either, but for those edited since, as one of the two has it.
Judged ==
  \A c \in Callers : land[c].stage \in WriteStages =>
    /\ land[c].target \in whole /\ land[c].cur \in Line(land[c].target)
    /\ \A p \in Paths \ late :
         Tree(land[c].cur)[p] # Absent \/ Tree(land[c].target)[p] # Absent
           => disk[p] \in {Tree(land[c].cur)[p], Tree(land[c].target)[p]}

\* A flight is alone, and its batch is a chain that ends at the head it pulled.
FlightAlone ==
  \A c \in Callers : land[c].stage \in FlightStages =>
    /\ \A d \in Callers : land[d].stage \in FlightStages => d = c
    /\ land[c].head \in Ids
    /\ \A i \in 1..Len(land[c].chain) :
         /\ land[c].chain[i] \in Line(land[c].head)
         /\ \A j \in 1..Len(land[c].chain) :
              i < j => land[c].chain[i] \in Line(land[c].chain[j]) \ {land[c].chain[j]}
    /\ land[c].stage = "append" => Line(land[c].head) \subseteq whole /\ cli.stage = "idle"

\* Why rows follow the history: a batch that is not in the ledger yet is in no row's
\* history, and whatever of its own history the ledger gained since its position was
\* read is the one commit whose command was running then.
BatchFresh ==
  /\ \A r \in 1..Len(rows) : rows[r].pos < r /\ (cli.stage # "idle" => rows[r].commit < cli.commit)
  /\ \A c \in Callers : land[c].stage \in {"persist", "append"} =>
       /\ land[c].basePos <= Len(rows)
       /\ (cli.stage # "idle" /\ cli.commit \in Line(land[c].head)) => land[c].basePos = Len(rows)
       /\ \A r \in 1..Len(rows) :
            land[c].basePos < r /\ rows[r].commit \in Line(land[c].head) => rows[r].pos = land[c].basePos
       /\ \A i \in 1..Len(land[c].chain) :
            /\ \A r \in 1..Len(rows) : land[c].chain[i] \notin Line(rows[r].commit)
            /\ land[c].stage = "persist" => land[c].chain[i] \notin objects

\* In the ledger as a whole, delivered or not, a row never comes before an ancestor's.
RowsOrdered ==
  \A r, s \in 1..Len(rows) :
    rows[r].commit # rows[s].commit /\ rows[r].commit \in Line(rows[s].commit)
    => rows[r].pos < rows[s].pos \/ (rows[r].pos = rows[s].pos /\ r < s)

\* The ledger is true: what it and the branch name can be read back, and a row marked
\* delivered is on the branch (Lander.Land, publish).  The rest is why that, and the order
\* of the rows, survive every interleaving.
LedgerHolds ==
  /\ TypeOK /\ LedgerGrounded /\ DeliveredOnBranch
  /\ LinesClosed /\ StoreClosed /\ LockAlone /\ Judged /\ FlightAlone /\ BatchFresh /\ RowsOrdered
=============================================================================
