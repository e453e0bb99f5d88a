------------------------------ MODULE BaseSync ------------------------------
(* Keeping mgit's base coherent with the project's git: the read gate that   *)
(* `status` and `diff` run first, the gate that captures uncommitted work    *)
(* for a new task, and the staging area both of them borrow meanwhile.       *)
(* The developer's editor and git run beside a gate; mgit's own commands     *)
(* are serialised by the store lock. git's HEAD is on a branch throughout:   *)
(* on a detached or unborn one both gates return without doing anything.     *)
EXTENDS Naturals, FiniteSets

CONSTANTS
    Paths,          \* the files of the checkout
    Contents,       \* what a file may hold
    First,          \* what a tracked file holds when the project is set up
    Tracked,        \* the files tracked when the project is set up
    Absent,         \* no file at the path
    Ignored,        \* the paths the ignore rules match
    Large,          \* the contents over the staging size limit
    MaxGitCommits,  \* bound: commits the developer makes with git
    MaxEdits,       \* bound: edits of the checkout
    MaxSelects,     \* bound: `mgit add`, `restore --staged` and `commit` calls
    MaxFaults       \* bound: gates that fail or die part way

VARIABLES
    work,     \* the files on disk
    tree,     \* the tree git's HEAD commits
    ghead,    \* git's HEAD, as the number of its commits
    base,     \* the tree of mgit's HEAD
    staging,  \* staging.json: the staged paths (no content)
    sync,     \* sync_state.json
    gate,     \* the running gate: its step, its kind and what it has read
    wanted,   \* history: the paths the user staged
    edited,   \* history: the paths edited since the gate began, and since it compared them
    torn,     \* history: a gate has ended before it restored the staging area
    spent     \* how much of each bound is used

vars == <<work, tree, ghead, base, staging, sync, gate, wanted, edited, torn, spent>>

user == <<work, tree, ghead>>
ghosts == <<wanted, edited, torn>>

Trees == [Paths -> Contents \cup {Absent}]
NoEdits == [p \in Paths |-> "no"]
NoTree == [p \in Paths |-> Absent]

Idle == [pc |-> "idle", kind |-> "read", head |-> 0, seen |-> NoTree, before |-> {}, next |-> {}]

----------------------------------------------------------------------------
(* What the working-tree store sees.                                         *)

\* The ignore rules hide a path that neither mgit's HEAD nor git tracks.
hides(p) == p \in Ignored /\ base[p] = Absent /\ tree[p] = Absent

listWorkingFiles == {p \in Paths : work[p] # Absent /\ ~hides(p)}

\* `mgit init`: the files already in the directory become the first base.
recordExistingTreeAsBase ==
    [p \in Paths |-> IF p \in Ignored /\ tree[p] = Absent THEN Absent ELSE work[p]]

\* A working file is reported when it is staged, untracked or changed.
classifyWorkingPath(p) == p \in staging \/ base[p] # work[p]

\* The working files to report, and the tracked files that are gone.
Status ==
    {p \in listWorkingFiles : classifyWorkingPath(p)}
        \cup {p \in Paths \ listWorkingFiles : base[p] # Absent}

\* A path that neither exists nor is tracked matches nothing.
assertStageable(p) == work[p] # Absent \/ base[p] # Absent

assertNotOversized(S, allowLarge) == allowLarge \/ \A p \in S : work[p] \notin Large

\* `add .` and `commit -a` stage what Status reports.
addChanged == staging \cup Status

\* An ignored path belongs to the base only while git tracks it.
resyncPath(p) == p \notin Ignored \/ tree[p] # Absent

\* HEAD's tree with every staged path replaced by what the disk holds now.
buildTreeFromStaging(S) == [p \in Paths |-> IF p \in S THEN work[p] ELSE base[p]]

buildResyncTree == [p \in Paths |-> IF resyncPath(p) THEN buildTreeFromStaging(staging)[p] ELSE Absent]

Fingerprint ==
    [p \in Paths |-> IF p \in listWorkingFiles /\ resyncPath(p) THEN work[p] ELSE Absent]

\* Comparing a path git tracks reads the working file: a missing file is an error.
CompareFails == \E p \in staging : tree[p] # Absent /\ work[p] = Absent

PathsMatchingCommitted == {p \in staging : tree[p] # Absent /\ work[p] = tree[p]}

----------------------------------------------------------------------------
Init ==
    /\ work = [p \in Paths |-> IF p \in Tracked THEN First ELSE Absent]
    /\ tree = work
    /\ ghead = 1
    /\ base = recordExistingTreeAsBase
    /\ staging = {}
    /\ sync = [found |-> FALSE, head |-> 0, wt |-> NoTree]
    /\ gate = Idle
    /\ wanted = {}
    /\ edited = NoEdits
    /\ torn = FALSE
    /\ spent = [edit |-> 0, select |-> 0, fault |-> 0]

Spend(what, max) ==
    /\ spent[what] < max
    /\ spent' = [spent EXCEPT ![what] = @ + 1]

----------------------------------------------------------------------------
(* The developer, at any moment.                                             *)

Edit(p, c) ==
    /\ c # work[p]
    /\ Spend("edit", MaxEdits)
    /\ work' = [work EXCEPT ![p] = c]
    /\ edited' = IF gate.pc = "idle" THEN edited ELSE [edited EXCEPT ![p] = "late"]
    /\ UNCHANGED <<tree, ghead, base, staging, sync, gate, wanted, torn>>

\* `git commit` of some of the changed paths.
GitCommit(S) ==
    /\ ghead <= MaxGitCommits
    /\ \E p \in S : work[p] # tree[p]
    /\ tree' = [p \in Paths |-> IF p \in S THEN work[p] ELSE tree[p]]
    /\ ghead' = ghead + 1
    /\ UNCHANGED <<work, base, staging, sync, gate, ghosts, spent>>

----------------------------------------------------------------------------
(* The user's own staging commands, which take the store lock.               *)

Select(S) ==
    /\ gate.pc = "idle"
    /\ Spend("select", MaxSelects)
    /\ staging' = S
    /\ wanted' = S
    /\ UNCHANGED <<user, sync, gate, edited, torn>>

\* `mgit add <file>`, then `mgit add -A`; --allow-large lifts the size limit.
addCmd(allowLarge) ==
    /\ \/ \E p \in Paths \ staging :
            /\ assertStageable(p)
            /\ assertNotOversized({p}, allowLarge)
            /\ Select(staging \cup {p})
       \/ /\ ~(Status \subseteq staging)
          /\ assertNotOversized(Status, allowLarge)
          /\ Select(addChanged)
    /\ UNCHANGED base

\* `mgit restore --staged <path>`.
runUnstage(p) ==
    /\ p \in staging
    /\ Select(staging \ {p})
    /\ UNCHANGED base

\* `mgit commit`: the staged paths' content as it is on disk at this moment. With -a
\* everything is staged first, and stays staged when the commit is then refused.
CreateCommit(all, allowLarge, allowEmpty) ==
    LET S == IF all THEN addChanged ELSE staging IN
    /\ all => assertNotOversized(Status, allowLarge)
    /\ IF allowEmpty \/ buildTreeFromStaging(S) # base
         THEN Select({}) /\ base' = buildTreeFromStaging(S)
         ELSE S # staging /\ Select(S) /\ UNCHANGED base

----------------------------------------------------------------------------
(* A gate, one step for every write another process or a crash can see.      *)

\* subtractPaths(all, exclude) is all \ exclude throughout.
Enter(kind, seen) ==
    gate' = [Idle EXCEPT !.pc = "add", !.kind = kind, !.head = ghead, !.seen = seen, !.before = staging]

\* The read gate starts only when git's HEAD has moved.
EnsureSynced ==
    /\ gate.pc = "idle"
    /\ ~(sync.found /\ sync.head = ghead)
    /\ Enter("read", NoTree)
    /\ UNCHANGED <<user, base, staging, sync, ghosts, spent>>

\* `mgit status` and `mgit diff` pass the read gate and then only read.
statusCmd == EnsureSynced
diffCmd == EnsureSynced

\* The new-task gate starts also when the working tree has changed.
EnsureSyncedForNewWorktree ==
    /\ gate.pc = "idle"
    /\ ~(sync.found /\ sync.head = ghead /\ sync.wt = Fingerprint)
    /\ Enter("fork", Fingerprint)
    /\ UNCHANGED <<user, base, staging, sync, ghosts, spent>>

AddAll ==
    /\ gate.pc = "add"
    /\ staging' = addChanged
    /\ gate' = [gate EXCEPT !.pc = "narrow"]
    /\ UNCHANGED <<user, base, sync, ghosts, spent>>

\* Mutant of NarrowToCommitted: what Status reports is taken as it is.
NarrowToReported ==
    /\ gate.pc = "narrow" /\ gate.kind = "read"
    /\ ~CompareFails
    /\ gate' = [gate EXCEPT !.pc = "stage", !.seen = tree, !.next = staging \ gate.before]
    /\ staging' = {}
    /\ edited' = [p \in Paths |-> IF edited[p] = "no" THEN "no" ELSE "early"]
    /\ UNCHANGED <<user, base, sync, wanted, torn, spent>>

\* absorbableCommitted: only what git has committed, never what the user staged.
NarrowToCommitted ==
    /\ gate.pc = "narrow" /\ gate.kind = "read"
    /\ ~CompareFails
    /\ gate' = [gate EXCEPT !.pc = "stage", !.seen = tree, !.next = PathsMatchingCommitted \ gate.before]
    /\ staging' = {}
    /\ edited' = [p \in Paths |-> IF edited[p] = "no" THEN "no" ELSE "early"]
    /\ UNCHANGED <<user, base, sync, wanted, torn, spent>>

\* A tracked file deleted on disk: the gate returns the error and undoes nothing.
CompareError ==
    /\ gate.pc = "narrow" /\ gate.kind = "read"
    /\ CompareFails
    /\ gate' = Idle
    /\ torn' = TRUE
    /\ edited' = NoEdits
    /\ UNCHANGED <<user, base, staging, sync, wanted, spent>>

\* The new-task gate leaves out what the user staged, and otherwise takes everything.
NarrowToForeign ==
    /\ gate.pc = "narrow" /\ gate.kind = "fork"
    /\ IF gate.before = {}
         THEN /\ gate' = [gate EXCEPT !.pc = "compare"]
              /\ UNCHANGED staging
         ELSE /\ gate' = [gate EXCEPT !.pc = "stage", !.next = staging \ gate.before]
              /\ staging' = {}
    /\ UNCHANGED <<user, base, sync, ghosts, spent>>

\* RestoreStaging removes the file and writes the new one; this is the write.
StageNext ==
    /\ gate.pc = "stage"
    /\ staging' = gate.next
    /\ gate' = [gate EXCEPT !.pc = "compare"]
    /\ UNCHANGED <<user, base, sync, ghosts, spent>>

StagedResyncTreeMatchesHead ==
    /\ gate.pc = "compare"
    /\ gate' = [gate EXCEPT !.pc = IF buildResyncTree = base THEN "clear" ELSE "commit"]
    /\ UNCHANGED <<user, base, staging, sync, ghosts, spent>>

CreateResyncCommit ==
    /\ gate.pc = "commit"
    /\ base' = buildResyncTree
    /\ gate' = [gate EXCEPT !.pc = "clear"]
    /\ UNCHANGED <<user, staging, sync, ghosts, spent>>

ClearStaging ==
    /\ gate.pc = "clear"
    /\ staging' = {}
    /\ gate' = [gate EXCEPT !.pc = "restore"]
    /\ UNCHANGED <<user, base, sync, ghosts, spent>>

RestoreStaging ==
    /\ gate.pc = "restore"
    /\ staging' = gate.before
    /\ gate' = [gate EXCEPT !.pc = "record"]
    /\ UNCHANGED <<user, base, sync, ghosts, spent>>

\* Only now is the drift signal recorded; the read gate carries the old fingerprint.
WriteSyncState ==
    /\ gate.pc = "record"
    /\ sync' = [found |-> TRUE, head |-> gate.head,
                wt |-> IF gate.kind = "fork" THEN gate.seen ELSE sync.wt]
    /\ gate' = Idle
    /\ edited' = NoEdits
    /\ UNCHANGED <<user, base, staging, wanted, torn, spent>>

\* An I/O error or a crash at any step; neither path undoes what was written.
GateEnds ==
    /\ gate.pc # "idle"
    /\ Spend("fault", MaxFaults)
    /\ gate' = Idle
    /\ torn' = (torn \/ staging # gate.before)
    /\ edited' = NoEdits
    /\ UNCHANGED <<user, base, staging, sync, wanted>>

----------------------------------------------------------------------------
Next ==
    \/ \E p \in Paths, c \in Contents \cup {Absent} : Edit(p, c)
    \/ \E S \in SUBSET Paths : GitCommit(S)
    \/ \E p \in Paths : runUnstage(p)
    \/ \E allowLarge \in BOOLEAN : addCmd(allowLarge)
    \/ \E all, allowLarge, allowEmpty \in BOOLEAN : CreateCommit(all, allowLarge, allowEmpty)
    \/ statusCmd \/ diffCmd \/ EnsureSyncedForNewWorktree
    \/ AddAll \/ NarrowToCommitted \/ CompareError \/ NarrowToForeign \/ StageNext
    \/ StagedResyncTreeMatchesHead \/ CreateResyncCommit \/ ClearStaging
    \/ RestoreStaging \/ WriteSyncState \/ GateEnds

Spec == Init /\ [][Next]_vars

----------------------------------------------------------------------------
TypeOK ==
    /\ work \in Trees /\ tree \in Trees /\ base \in Trees
    /\ ghead \in 1..(MaxGitCommits + 1)
    /\ staging \subseteq Paths /\ wanted \subseteq Paths
    /\ edited \in [Paths -> {"no", "early", "late"}] /\ torn \in BOOLEAN
    /\ sync.found \in BOOLEAN /\ sync.head \in 0..ghead /\ sync.wt \in Trees
    /\ gate.pc \in {"idle", "add", "narrow", "stage", "compare", "commit", "clear", "restore", "record"}
    /\ gate.before \subseteq Paths /\ gate.next \subseteq Paths

\* A read never turns uncommitted work into base content: whatever the read gate
\* writes into the base is what git had committed when the gate compared it, unless
\* the developer saved that very file between the comparison and the commit, which
\* reads the disk again. The only paths it drops are ignored ones git does not track.
ReadsAbsorbCommitted ==
    (gate.kind = "read" /\ base' # base /\ gate.pc # "idle") =>
          \A p \in Paths : \/ base'[p] = base[p]
                           \/ base'[p] = gate.seen[p]
                           \/ edited[p] = "late"
                           \/ p \in Ignored /\ base'[p] = Absent

\* What a gate may leave out of the base when it records the drift signal: what the
\* user staged, what differs from git, and what changed while it ran.
Absorbed ==
    \A p \in Paths \ wanted :
        (edited[p] = "no" /\ IF gate.kind = "read" THEN tree[p] # Absent /\ work[p] = tree[p] ELSE resyncPath(p))
            => base[p] = work[p]

\* The drift signal is recorded only over a base that holds what the gate was to
\* absorb, provided no earlier gate was interrupted and git did not move meanwhile.
SyncedMeansAbsorbed ==
    (gate.pc = "record" /\ sync'.head = gate.head /\ sync' # sync /\ ~torn /\ gate.head = ghead)
          => Absorbed

\* What the comment on resync says: "an interrupted resync simply re-runs next time
\* and converges" (and the read gate shares its steps).
ResyncConverges ==
    [][(gate.pc = "record" /\ sync'.head = gate.head /\ sync' # sync /\ gate.head = ghead)
          => Absorbed]_vars

\* Outside a gate the staging area is what the user selected, unless a gate was
\* interrupted: reads are staging-neutral.
StagingKept == (gate.pc = "idle" /\ ~torn) => staging = wanted

\* A gate is honest about what it does: the base takes up committed content only, the
\* drift signal stands for an absorbed base, and the user's staging comes out as it was
\* (runReadGate, resync).
SyncStep == ReadsAbsorbCommitted /\ SyncedMeansAbsorbed /\ StagingKept'
SyncIsHonest == [][SyncStep]_vars
=============================================================================
