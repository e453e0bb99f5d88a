----------------------------- MODULE Workspaces -----------------------------
(* Task worktrees: `mgit work` and `mgit worktree add` claim a path, a task  *)
(* and a branch under the store lock and fill the directory without it;      *)
(* `worktree remove`, `worktree prune`, `branch -d --force`, the agents'     *)
(* commits and the users' own `rm -rf` run beside them. A branch is named    *)
(* by the task it is created for.                                            *)
EXTENDS Naturals, FiniteSets

CONSTANTS
    Tasks,       \* tasks, and their branches
    Dirs,        \* worktree directories
    Procs,       \* concurrent `worktree add` processes
    None,
    MaxCommits,  \* bound: commits of any kind
    MaxAdds,     \* bound: worktree additions
    MaxFaults,   \* bound: failed or killed additions
    MaxDrops     \* bound: removals, prunes, deleted directories and branches

VARIABLES
    n,        \* the commits in the store are 0..n
    head,     \* mgit's HEAD: the base a new task may fork from
    refs,     \* git refs of the task branches
    rows,     \* rows of the worktrees table
    first,    \* per task, the parent of its first content commit
    dir,      \* per directory, whether it exists and its marker
    add,      \* the running additions
    strayed,  \* history: tasks whose branch was deleted or bound to another task, or
              \* whose first commit was made off it or cut short of its row
    spent     \* how much of each bound is used

vars == <<n, head, refs, rows, first, dir, add, strayed, spent>>

Commits == 0..MaxCommits
NoAdd == [pc |-> "idle", path |-> None, task |-> None, branch |-> None, fork |-> 0]
NoDir == [exists |-> FALSE, task |-> None, branch |-> None]
Row(a) == [path |-> a.path, task |-> a.task, branch |-> a.branch, fork |-> a.fork]

Init ==
    /\ n = 0
    /\ head = 0
    /\ refs = [b \in Tasks |-> None]
    /\ rows = {}
    /\ first = [t \in Tasks |-> None]
    /\ dir = [d \in Dirs |-> NoDir]
    /\ add = [q \in Procs |-> NoAdd]
    /\ strayed = {}
    /\ spent = [add |-> 0, fault |-> 0, drop |-> 0]

Spend(what, max) ==
    /\ spent[what] < max
    /\ spent' = [spent EXCEPT ![what] = @ + 1]

----------------------------------------------------------------------------
(* The claim, inside the store lock.                                         *)

CreateBranchAt(t, c) ==
    /\ c \in Commits
    /\ refs[t] = None
    /\ n' = IF c > n THEN c ELSE n
    /\ refs' = [refs EXCEPT ![t] = c]

\* `--base` names a commit of the store.
createBranchAtBase(t, c) == c \in 0..n /\ CreateBranchAt(t, c) /\ UNCHANGED head

branchAtHead(t, c) == c = head /\ CreateBranchAt(t, c) /\ UNCHANGED head

\* `--include-uncommitted` resyncs mgit's base when the checkout has drifted from it.
forkWithUncommitted(t, c) ==
    \/ branchAtHead(t, c)
    \/ c = n + 1 /\ CreateBranchAt(t, c) /\ head' = c

\* A commit on mgit's HEAD that no branch points to yet.
CreateDetachedCommit(c) == c = n + 1

\* git's committed tree as a commit of its own, or mgit's HEAD where git has none.
CommittedForkBase(t, c) ==
    /\ CreateDetachedCommit(c) \/ c = head
    /\ CreateBranchAt(t, c)
    /\ UNCHANGED head

\* Mutant of existingForkBase: a re-added task is pinned at its branch's tip.
existingForkBaseAtTip(t, b) == refs[b]

\* A re-added task keeps the base its first recorded commit grew from; without one
\* the branch has not moved, and its tip is the base.
existingForkBase(t, b) == IF first[t] = None THEN refs[b] ELSE first[t]

\* c is the fork base of the task; a branch that exists keeps its own, whatever --base
\* asks for, and mgit creates no branch but the task's.
resolveForkBase(t, b, opts, c) ==
    IF refs[b] # None
      THEN /\ c = existingForkBase(t, b)
           /\ opts.base \in {None, c}
           /\ UNCHANGED <<n, head, refs>>
      ELSE /\ b = t
           /\ CASE opts.base # None -> c = opts.base /\ createBranchAtBase(t, c)
                [] opts.base = None /\ opts.uncommitted -> forkWithUncommitted(t, c)
                [] OTHER -> CommittedForkBase(t, c)

\* The UNIQUE columns of the worktrees table.
InsertConflicts(l, t, b) == \E r \in rows : r.path = l \/ r.task = t \/ r.branch = b

\* The fork base, then the row: a branch created on the way survives a refused row.
claim(q, t, b, l, opts) ==
    /\ add[q].pc = "idle"
    /\ Spend("add", MaxAdds)
    /\ \E c \in Commits :
         /\ resolveForkBase(t, b, opts, c)
         /\ LET a == [pc |-> "marker", path |-> l, task |-> t, branch |-> b, fork |-> c]
            IN IF InsertConflicts(l, t, b)
                 THEN UNCHANGED <<rows, add>>
                 ELSE rows' = rows \cup {Row(a)} /\ add' = [add EXCEPT ![q] = a]
    /\ strayed' = IF b = t THEN strayed ELSE strayed \cup {t, b}
    /\ UNCHANGED <<first, dir>>

\* `mgit work` adds a worktree as `mgit worktree add` does, and takes --base too, which
\* excludes --include-uncommitted.
workSetup(q, t, b, l) == \E c \in 0..n : claim(q, t, b, l, [base |-> c, uncommitted |-> FALSE])

\* Killed, or failing, between the branch and the row. A failed insert into the
\* branches table takes the ref back; a crash leaves it.
claimInterrupted(q, t) ==
    /\ add[q].pc = "idle"
    /\ Spend("fault", MaxFaults)
    /\ \E c \in Commits : CommittedForkBase(t, c)
    /\ UNCHANGED <<rows, first, dir, add, strayed>>

----------------------------------------------------------------------------
(* Filling the directory, outside the lock.                                  *)

\* The marker first: it binds every mgit command run in the directory.
WriteWorktreeMarker(q) ==
    LET a == add[q] IN
    /\ a.pc = "marker"
    /\ dir' = [dir EXCEPT ![a.path] = [exists |-> TRUE, task |-> a.task, branch |-> a.branch]]
    /\ add' = [add EXCEPT ![q].pc = "fill"]
    /\ UNCHANGED <<n, head, refs, rows, first, strayed, spent>>

\* The branch's tree and the seed files; the addition then returns the worktree.
MaterializeBranchTo(q) ==
    LET a == add[q] IN
    /\ a.pc = "fill"
    /\ refs[a.branch] # None
    /\ dir' = [dir EXCEPT ![a.path].exists = TRUE]
    /\ add' = [add EXCEPT ![q] = NoAdd]
    /\ UNCHANGED <<n, head, refs, rows, first, strayed, spent>>

\* The branch has been deleted meanwhile, or a write failed.
MaterializeFails(q) ==
    /\ add[q].pc \in {"marker", "fill"}
    /\ IF add[q].pc = "fill" /\ refs[add[q].branch] = None
         THEN UNCHANGED spent
         ELSE Spend("fault", MaxFaults)
    /\ add' = [add EXCEPT ![q].pc = "undo"]
    /\ UNCHANGED <<n, head, refs, rows, first, dir, strayed>>

\* The failed addition gives its claim back: the row of its path.
ReleaseClaim(q) ==
    /\ add[q].pc = "undo"
    /\ rows' = {r \in rows : r.path # add[q].path}
    /\ add' = [add EXCEPT ![q] = NoAdd]
    /\ UNCHANGED <<n, head, refs, first, dir, strayed, spent>>

Killed(q) ==
    /\ add[q].pc # "idle"
    /\ Spend("fault", MaxFaults)
    /\ add' = [add EXCEPT ![q] = NoAdd]
    /\ UNCHANGED <<n, head, refs, rows, first, dir, strayed>>

----------------------------------------------------------------------------
(* Everyone else.                                                            *)

\* The row only: the directory and its marker stay.
Remove(l) ==
    /\ \E r \in rows : r.path = l
    /\ Spend("drop", MaxDrops)
    /\ rows' = {r \in rows : r.path # l}
    /\ UNCHANGED <<n, head, refs, first, dir, add, strayed>>

\* Rows whose directory does not exist.
Prune ==
    LET stale == {r \in rows : ~dir[r.path].exists} IN
    /\ stale # {}
    /\ Spend("drop", MaxDrops)
    /\ rows' = rows \ stale
    /\ UNCHANGED <<n, head, refs, first, dir, add, strayed>>

\* `mgit branch --task-id t`.
CreateBranch(t) ==
    /\ branchAtHead(t, head)
    /\ UNCHANGED <<rows, first, dir, add, strayed, spent>>

\* The reference and its row; without --force every branch counts as unmerged.
DeleteBranch(b, force) ==
    /\ force
    /\ refs[b] # None
    /\ Spend("drop", MaxDrops)
    /\ refs' = [refs EXCEPT ![b] = None]
    /\ strayed' = strayed \cup {b}
    /\ UNCHANGED <<n, head, rows, first, dir, add>>

\* `mgit branch`, but for switching, which the Merging module has. --rename asks for a
\* branch of the empty task and changes nothing.
branchCmd(b) ==
    \/ CreateBranch(b)
    \/ \E force \in BOOLEAN : DeleteBranch(b, force)

\* The user deletes the directory.
DirectoryGone(l) ==
    /\ dir[l].exists
    /\ Spend("drop", MaxDrops)
    /\ dir' = [dir EXCEPT ![l] = NoDir]
    /\ UNCHANGED <<n, head, refs, rows, first, add, strayed>>

\* A command run in a worktree works on the branch and for the task its marker names;
\* no command reads the worktrees table to bind it.
OpenLinked(l) == dir[l].branch # None /\ refs[dir[l].branch] # None

\* A bound worktree commits for its own task, named or not; elsewhere it must be named.
resolveCommitTaskID(bound, asked) == IF bound # None THEN asked \in {None, bound} ELSE asked # None

\* CommitService.CreateCommit for task t on top of commit at, under the store lock: the
\* branch has advanced; the ledger row follows, or the process dies before it.
CreateCommit(t, at, got) ==
    /\ n < MaxCommits /\ n' = n + 1
    /\ first' = IF got = "indexed" /\ first[t] = None THEN [first EXCEPT ![t] = at] ELSE first
    /\ IF got = "indexed" THEN UNCHANGED spent ELSE Spend("fault", MaxFaults)

\* An agent's `mgit commit` from a worktree.  A first commit that gets no row leaves the
\* branch beyond the base its row pins.
commitInWorktree(l, asked, got) ==
    LET b == dir[l].branch
        t == dir[l].task IN
    /\ OpenLinked(l) /\ resolveCommitTaskID(t, asked)
    /\ CreateCommit(t, refs[b], got)
    /\ refs' = [refs EXCEPT ![b] = n + 1]
    /\ strayed' = IF got # "indexed" /\ first[t] = None /\ \E r \in rows : r.task = t
                    THEN strayed \cup {t} ELSE strayed
    /\ UNCHANGED <<head, rows, dir, add>>

\* ... and from the main directory, for any task, on mgit's base.
commitInMain(t, got) ==
    /\ resolveCommitTaskID(None, t)
    /\ CreateCommit(t, head, got)
    /\ head' = n + 1
    /\ strayed' = IF got = "indexed" /\ first[t] = None THEN strayed \cup {t} ELSE strayed
    /\ UNCHANGED <<refs, rows, dir, add>>

commitCmd ==
    \E got \in {"advanced", "indexed"} :
        \/ \E l \in Dirs, asked \in Tasks \cup {None} : commitInWorktree(l, asked, got)
        \/ \E t \in Tasks : commitInMain(t, got)

\* A resync appends a base commit.
AdvanceBase ==
    /\ n < MaxCommits
    /\ n' = n + 1
    /\ head' = n + 1
    /\ UNCHANGED <<refs, rows, first, dir, add, strayed, spent>>

\* `mgit worktree add`, `remove` and `prune`.
worktreeCmd ==
    \/ \E q \in Procs, t \in Tasks, b \in Tasks, l \in Dirs, uncommitted \in BOOLEAN :
          claim(q, t, b, l, [base |-> None, uncommitted |-> uncommitted])
    \/ \E l \in Dirs : Remove(l)
    \/ Prune

----------------------------------------------------------------------------
Next ==
    \/ worktreeCmd
    \/ \E q \in Procs, t \in Tasks, b \in Tasks, l \in Dirs : workSetup(q, t, b, l)
    \/ \E q \in Procs, t \in Tasks : claimInterrupted(q, t)
    \/ \E q \in Procs : \/ WriteWorktreeMarker(q) \/ MaterializeBranchTo(q)
                        \/ MaterializeFails(q) \/ ReleaseClaim(q) \/ Killed(q)
    \/ \E l \in Dirs : DirectoryGone(l)
    \/ commitCmd
    \/ \E b \in Tasks : branchCmd(b)
    \/ AdvanceBase

Spec == Init /\ [][Next]_vars

----------------------------------------------------------------------------
TypeOK ==
    /\ n \in Commits /\ head \in 0..n
    /\ refs \in [Tasks -> 0..n \cup {None}]
    /\ strayed \subseteq Tasks
    /\ \A r \in rows : r.path \in Dirs /\ r.task \in Tasks /\ r.branch \in Tasks /\ r.fork \in 0..n
    /\ first \in [Tasks -> 0..n \cup {None}]
    /\ dir \in [Dirs -> [exists : BOOLEAN, task : Tasks \cup {None}, branch : Tasks \cup {None}]]
    /\ add \in [Procs -> [pc : {"idle", "marker", "fill", "undo"}, path : Dirs \cup {None},
                          task : Tasks \cup {None}, branch : Tasks \cup {None}, fork : Commits]]

\* A squash measures a task from the parent of its first commit, and fails when that
\* is not the base pinned in the worktree's row.
assertPinnedForkBase(t) ==
    \A r \in rows : (r.task = t /\ first[t] # None) => r.fork = first[t]

\* While the task's own branch is the one bound and was never deleted, and its first
\* commit was made on it and got its row, a squash never fails that way: across
\* re-adds, explicit bases, interrupted additions, base resyncs, later commits from the
\* main directory or cut short, and commits from directories whose row is gone.
PinHolds == \A t \in Tasks \ strayed : assertPinnedForkBase(t)

\* Why it holds: of a task that has not strayed, the branch exists once it has a commit, is
\* at the pinned base until then, and is bound in no directory but its own.
BoundToOwn(b) == b.branch # None => b.task \in Tasks /\ (b.task = b.branch \/ {b.task, b.branch} \subseteq strayed)
Pinned ==
    /\ \A t \in Tasks \ strayed :
          IF first[t] = None THEN \A r \in rows : r.task = t => r.fork = refs[t]
                             ELSE refs[t] # None
    /\ \A l \in Dirs : BoundToOwn(dir[l])
    /\ \A q \in Procs : BoundToOwn(add[q]) /\ (add[q].pc # "idle" => add[q].branch # None /\ add[q].path \in Dirs)

WellFormed == None \notin Tasks \cup Dirs \cup Nat /\ {MaxCommits, MaxAdds, MaxFaults, MaxDrops} \subseteq Nat

\* What the comment on Add says of the unlocked phase: "the claim already made this
\* process the exclusive owner of the path, task and branch (the registry's UNIQUE
\* constraints refuse any second claimant)".
ClaimStaysExclusive ==
    \A p, q \in Procs :
        (p # q /\ add[p].pc \in {"marker", "fill"} /\ add[q].pc \in {"marker", "fill"})
            => /\ add[p].path # add[q].path
               /\ add[p].task # add[q].task
               /\ add[p].branch # add[q].branch
=============================================================================
