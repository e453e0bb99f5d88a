----------------------------- MODULE StoreProofs ----------------------------
(***************************************************************************)
(* Theorems about what a repository stores, for every number of processes, *)
(* images, tasks and worktrees: the images registered under the trust      *)
(* root, and the fork point pinned for a task.  Each rests on an inductive *)
(* invariant that stands next to the property in the component's module.   *)
(***************************************************************************)
EXTENDS Naturals, TLAPS

CONSTANTS Procs, MaxBundles, MaxKeys, MaxCommands, MaxRestarts,
          Tasks, Dirs, None, MaxCommits, MaxAdds, MaxFaults, MaxDrops
VARIABLES key, pub, keys, disk, lock, proc, store, resolve, admitted, registered, commands, restarts,
          n, head, refs, rows, first, dir, add, strayed, spent

T == INSTANCE ImageTrust
W == INSTANCE Workspaces

-----------------------------------------------------------------------------
(* The trust root and the images registered under it (Store.Resolve). *)

TrustInvariant == T!TypeOK /\ T!AdmittedWasRegistered /\ T!LockedWasRegistered

\* A host where nothing was registered.
LEMMA TrustInit ==
  ASSUME T!WellFormed, T!Init PROVE TrustInvariant
<1>1. T!Idle \in T!Jobs
  BY DEF T!WellFormed, T!Idle, T!Job, T!Jobs, T!Contents, T!Own, T!Absent
<1>2. proc \in [Procs -> T!Jobs]
  BY <1>1 DEF T!Init
<1>3. {key, pub, keys} \subseteq 0..MaxKeys /\ store \in 0..T!Unopened
  BY DEF T!Init, T!WellFormed, T!Unopened
<1>4. disk \in [kernel : T!Contents, rootfs : T!Contents]
  BY DEF T!Init, T!WellFormed, T!Contents, T!Own, T!Absent
<1>5. T!TypeOK
  BY <1>2, <1>3, <1>4 DEF T!TypeOK, T!Init
<1>6. T!Idle.at = "idle" /\ T!Idle.after = "done"
  BY DEF T!Idle, T!Job
<1> QED
  BY <1>5, <1>6 DEF T!Init, TrustInvariant, T!AdmittedWasRegistered, T!LockedWasRegistered

\* A job that moves on is a job.
LEMMA JobMoves ==
  ASSUME NEW j \in T!Jobs,
         NEW at \in {"idle", "generate", "publish", "sign", "build", "register",
                     "kernel", "kernelCheck", "rootfs", "rootfsCheck"}
  PROVE  /\ [j EXCEPT !.at = at] \in T!Jobs
         /\ \A k \in 0..MaxKeys : [j EXCEPT !.at = at, !.priv = k] \in T!Jobs
         /\ \A c \in T!Contents : [j EXCEPT !.at = at, !.rootfs = c] \in T!Jobs
BY Zenon DEF T!Jobs

\* An entry whose files hold what it pins is carried on as it stands.
LEMMA EntrySame ==
  ASSUME NEW e \in T!Entries
  PROVE  [e EXCEPT !.rootfs = e.rootfs] = e /\ [e EXCEPT !.kernel = e.kernel] = e
BY Zenon DEF T!Entries

Command(p) ==
  \/ T!sandboxImageInitCmd(p) \/ T!sandboxImageAddCmd(p) \/ T!setRepoGuestBase(p)
  \/ T!Install(p) \/ T!GenerateTrustRoot(p) \/ T!BuildEntry(p) \/ T!Register(p)
  \/ T!Crash(p)

\* What a step of a command does to its job.
Moves(p, j) == proc' = [proc EXCEPT ![p] = j] /\ j \in T!Jobs
               /\ (j.where = "none" => j.at \in {"idle", "generate", "publish"} /\ j.after = "done")

\* Every step of a command leaves a job, and only a job about an image goes beyond the
\* trust root.
LEMMA CommandMoves ==
  ASSUME T!WellFormed, T!TypeOK, T!LockedWasRegistered, NEW p \in Procs, Command(p)
  PROVE  \E j : Moves(p, j)
<1> USE DEF T!WellFormed, T!TypeOK
<1> DEFINE j == proc[p]
<1>1. j \in T!Jobs /\ (j.where = "none" => j.at \in {"idle", "generate", "publish"} /\ j.after = "done")
  BY DEF T!LockedWasRegistered
<1>2. T!Done(p) => Moves(p, T!Idle)
  BY DEF T!Done, T!Idle, T!Job, T!Jobs, T!Contents, T!Own, T!Absent, Moves
<1>3. ASSUME NEW at \in {"generate", "build", "kernelCheck", "rootfsCheck", "rootfs", "sign"}, T!Goto(p, at),
             at = "generate" \/ j.where # "none"
      PROVE  Moves(p, [j EXCEPT !.at = at])
  <2>1. proc' = [proc EXCEPT ![p] = [j EXCEPT !.at = at]]
    BY <1>3 DEF T!Goto
  <2>2. [j EXCEPT !.at = at] \in T!Jobs
    BY Zenon, <1>1, JobMoves
  <2> QED
    BY <1>1, <1>3, <2>1, <2>2 DEF Moves, T!Jobs
<1>4. ASSUME NEW at, NEW where, NEW b, NEW after, T!Begin(p, T!Job(at, where, b, after)),
             T!Job(at, where, b, after) \in T!Jobs, (at = "generate" /\ after = "done") \/ where # "none"
      PROVE  Moves(p, T!Job(at, where, b, after))
  BY <1>4 DEF T!Begin, Moves, T!Job
<1>5. CASE T!LoadSigningKey(p)
  <2>1. CASE key # 0
    <3>1. proc' = [proc EXCEPT ![p] = [j EXCEPT !.at = "build", !.priv = key]]
      BY Zenon, <1>5, <2>1 DEF T!LoadSigningKey
    <3>2. [j EXCEPT !.at = "build", !.priv = key] \in T!Jobs
      BY Zenon, <1>1, JobMoves
    <3>3. Moves(p, [j EXCEPT !.at = "build", !.priv = key])
      BY <1>1, <1>5, <3>1, <3>2 DEF Moves, T!Jobs, T!LoadSigningKey
    <3> QED
      BY <3>3
  <2>2. CASE key = 0
    BY <1>1, <1>2, <1>3, <1>5, <2>2 DEF T!LoadSigningKey
  <2> QED
    BY <2>1, <2>2
<1>6. CASE T!sandboxImageInitCmd(p)
  BY <1>4, <1>6 DEF T!sandboxImageInitCmd, T!Job, T!Jobs, T!Contents, T!Own, T!Absent
<1>7. CASE T!sandboxImageAddCmd(p)
  BY <1>4, <1>5, <1>7 DEF T!sandboxImageAddCmd, T!Job, T!Jobs, T!Contents, T!Own, T!Absent
<1>8. CASE T!setRepoGuestBase(p)
  BY <1>4, <1>5, <1>8 DEF T!setRepoGuestBase, T!EnsureSigningKey, T!Job, T!Jobs,
     T!Contents, T!Own, T!Absent
<1>9. CASE T!installImage(p)
  BY <1>4, <1>9 DEF T!installImage, T!Bundles, T!Job, T!Jobs, T!Contents, T!Own, T!Absent
<1>10. ASSUME NEW file \in {"kernel", "rootfs"}, T!fetchTo(p, file) \/ T!fetchVerified(p, file)
       PROVE  \E k : Moves(p, k)
  BY <1>1, <1>2, <1>3, <1>10 DEF T!fetchTo, T!fetchVerified, T!Checking
<1>11. CASE T!Install(p)
  BY <1>5, <1>9, <1>10, <1>11 DEF T!Install
<1>12. CASE T!GenerateTrustRoot(p)
  <2>1. CASE j.at = "generate"
    <3> DEFINE k == [j EXCEPT !.at = "publish", !.priv = keys + 1]
    <3>1. proc' = [proc EXCEPT ![p].at = "publish", ![p].priv = keys + 1]
      BY <1>12, <2>1 DEF T!GenerateTrustRoot
    <3>2. keys + 1 \in 0..MaxKeys
      BY <1>12, <2>1 DEF T!GenerateTrustRoot
    <3>3. proc' = [proc EXCEPT ![p] = k]
      BY Zenon, <3>1
    <3>4. k \in T!Jobs
      BY Zenon, <1>1, <3>2, JobMoves
    <3>5. Moves(p, k)
      BY <1>1, <2>1, <3>3, <3>4 DEF Moves, T!Jobs
    <3> QED
      BY <3>5
  <2>2. CASE j.at # "generate"
    <3>1. IF j.after = "done" THEN T!Done(p) ELSE T!Goto(p, j.after)
      BY <1>12, <2>2 DEF T!GenerateTrustRoot
    <3>2. j.after \in {"done", "build"}
      BY <1>1 DEF T!Jobs
    <3> QED
      BY <1>1, <1>2, <1>3, <3>1, <3>2
  <2> QED
    BY <2>1, <2>2
<1>13. CASE T!BuildEntry(p)
  <2> DEFINE r == T!Rootfs(j.where)
  <2>1. CASE r = T!Absent
    BY <1>2, <1>13, <2>1 DEF T!BuildEntry
  <2>2. CASE r # T!Absent
    <3>1. proc' = [proc EXCEPT ![p] = [j EXCEPT !.at = "register", !.rootfs = r]]
      BY Zenon, <1>13, <2>2 DEF T!BuildEntry
    <3>2. r \in T!Contents
      BY DEF T!Rootfs, T!Contents, T!Own
    <3>3. [j EXCEPT !.at = "register", !.rootfs = r] \in T!Jobs
      BY Zenon, <1>1, <3>2, JobMoves
    <3>4. Moves(p, [j EXCEPT !.at = "register", !.rootfs = r])
      BY <1>1, <1>13, <3>1, <3>3 DEF Moves, T!Jobs, T!BuildEntry
    <3> QED
      BY <3>4
  <2> QED
    BY <2>1, <2>2
<1>14. CASE T!Register(p) \/ T!Crash(p)
  BY <1>2, <1>14 DEF T!Register, T!Crash
<1> QED
  BY <1>6, <1>7, <1>8, <1>11, <1>12, <1>13, <1>14 DEF Command

\* A command registers nothing but an entry about an image, and the lock names it.
LEMMA CommandRegisters ==
  ASSUME T!WellFormed, TrustInvariant, NEW p \in Procs, Command(p)
  PROVE  /\ T!LockedWasRegistered' /\ registered \subseteq registered'
         /\ UNCHANGED <<store, resolve, admitted>> /\ (lock' = T!None \/ lock' \in T!Entries)
<1> USE DEF T!WellFormed, TrustInvariant
<1> USE DEF T!trust, T!images, T!daemon
<1>1. PICK j : Moves(p, j)
  BY CommandMoves
<1>2. \A q \in Procs : proc'[q].where = "none" =>
          proc'[q].at \in {"idle", "generate", "publish"} /\ proc'[q].after = "done"
  BY <1>1 DEF Moves, T!TypeOK, T!LockedWasRegistered
<1>3. CASE T!Register(p)
  <2> DEFINE where == proc[p].where
             entry == [where |-> where, rootfs |-> proc[p].rootfs, kernel |-> T!Kernel(where),
                       signer |-> proc[p].priv]
  <2>1. proc[p] \in T!Jobs /\ proc[p].at = "register"
    BY <1>3 DEF T!TypeOK, T!Register
  <2>2. where \in {"images", "own", "tree"}
    BY <2>1 DEF T!LockedWasRegistered, T!Jobs
  <2>3. T!Kernel(where) \in T!Contents
    BY <2>2 DEF T!Kernel, T!TypeOK, T!Contents, T!Own, T!Absent
  <2>4. entry \in T!Entries
    BY <2>1, <2>2, <2>3 DEF T!Entries, T!Jobs
  <2>5. \/ lock' = entry /\ registered' = registered \cup {entry}
        \/ lock' = lock /\ registered' = registered
    BY <1>3 DEF T!Register
  <2>6. store' = store /\ resolve' = resolve /\ admitted' = admitted
    BY <1>3 DEF T!Register
  <2> QED
    BY <1>2, <2>4, <2>5, <2>6 DEF T!LockedWasRegistered
<1>4. CASE ~T!Register(p)
  <2>1. UNCHANGED <<lock, registered, store, resolve, admitted>>
    BY <1>4 DEF Command, T!sandboxImageInitCmd, T!sandboxImageAddCmd, T!setRepoGuestBase,
       T!EnsureSigningKey,
       T!LoadSigningKey, T!Install, T!installImage, T!fetchTo, T!fetchVerified, T!GenerateTrustRoot, T!BuildEntry,
       T!Crash
  <2> QED
    BY Zenon, <1>2, <2>1 DEF T!LockedWasRegistered
<1> QED
  BY <1>3, <1>4

Resolving ==
  \/ \E ref \in T!Contents \ {T!Absent} : T!Resolve(ref)
  \/ T!ResolveRootfs \/ T!ResolveKernel

\* Resolve carries on the entry it read from the lock, and admits it as it stands.
LEMMA ResolveAdmits ==
  ASSUME T!WellFormed, TrustInvariant, Resolving
  PROVE  TrustInvariant'
<1> USE DEF T!trust, T!images, T!WellFormed
<1>1. UNCHANGED <<key, pub, keys, disk, lock, registered, proc>>
  BY DEF Resolving, T!Resolve, T!ResolveRootfs, T!ResolveKernel
<1> DEFINE Goal ==
      /\ store' \in 0..T!Unopened
      /\ resolve' = T!None \/ resolve' \in [next : {"rootfs", "kernel"}, entry : T!Entries]
      /\ resolve' # T!None => resolve'.entry \in registered /\ resolve'.entry.signer = store'
      /\ admitted' # T!None => admitted' \in registered /\ admitted'.signer = store'
<1>2. SUFFICES Goal
  BY <1>1 DEF TrustInvariant, T!TypeOK, T!LockedWasRegistered, T!AdmittedWasRegistered
<1>3. ASSUME NEW ref \in T!Contents \ {T!Absent}, T!Resolve(ref)
      PROVE  Goal
  <2>1. store' \in 0..T!Unopened /\ admitted' = T!None
    BY <1>3 DEF T!Resolve, TrustInvariant, T!TypeOK, T!newImageResolver, T!NewStore, T!Failed, T!Unopened
  <2>2. \/ resolve' = T!None
        \/ /\ lock # T!None /\ lock.signer = store'
           /\ resolve' = [next |-> "rootfs", entry |-> lock]
    BY <1>3 DEF T!Resolve
  <2>3. lock # T!None => lock \in registered /\ lock \in T!Entries
    BY DEF TrustInvariant, T!LockedWasRegistered
  <2> QED
    BY <2>1, <2>2, <2>3
<1>4. resolve # T!None => /\ resolve.entry \in T!Entries /\ resolve.entry \in registered
                         /\ resolve.entry.signer = store
  BY DEF TrustInvariant, T!LockedWasRegistered
<1>5. store \in 0..T!Unopened
  BY DEF TrustInvariant, T!TypeOK
<1>6. CASE T!ResolveRootfs
  <2>1. resolve # T!None /\ store' = store /\ admitted' = admitted
    BY <1>6 DEF T!ResolveRootfs
  <2>2. \/ resolve' = T!None
        \/ resolve' = [next |-> "kernel", entry |-> [resolve.entry EXCEPT !.rootfs = resolve.entry.rootfs]]
    BY <1>6 DEF T!ResolveRootfs, T!verifyContentDigest
  <2>3. resolve' = T!None \/ resolve' = [next |-> "kernel", entry |-> resolve.entry]
    BY <1>4, <2>1, <2>2, EntrySame
  <2> QED
    BY <1>4, <1>5, <2>1, <2>3 DEF TrustInvariant, T!AdmittedWasRegistered
<1>7. CASE T!ResolveKernel
  <2>1. resolve # T!None /\ resolve' = T!None /\ store' = store
    BY <1>7 DEF T!ResolveKernel
  <2>2. admitted' = T!None \/ admitted' = [resolve.entry EXCEPT !.kernel = resolve.entry.kernel]
    BY <1>7 DEF T!ResolveKernel, T!verifyContentDigest
  <2>3. admitted' = T!None \/ admitted' = resolve.entry
    BY <1>4, <2>1, <2>2, EntrySame
  <2> QED
    BY <1>4, <1>5, <2>1, <2>3
<1> QED
  BY <1>3, <1>6, <1>7 DEF Resolving

\* Commands and the daemon keep the types.
LEMMA TrustTypes ==
  ASSUME T!WellFormed, TrustInvariant, [T!Next]_(T!vars) PROVE T!TypeOK'
<1> USE DEF T!WellFormed, TrustInvariant, T!TypeOK
<1> USE DEF T!trust, T!images, T!daemon
<1>1. ASSUME NEW p \in Procs, Command(p) PROVE proc' \in [Procs -> T!Jobs]
  BY <1>1, CommandMoves DEF Moves
<1>2. ASSUME NEW p \in Procs, Command(p) PROVE {key', pub', keys'} \subseteq 0..MaxKeys /\ store' = store
  <2>1. proc[p] \in T!Jobs
    OBVIOUS
  <2>2. CASE T!GenerateTrustRoot(p)
    BY <2>1, <2>2 DEF T!GenerateTrustRoot, T!Jobs
  <2>3. CASE ~T!GenerateTrustRoot(p)
    BY Zenon, <1>2, <2>3 DEF Command, T!sandboxImageInitCmd, T!sandboxImageAddCmd,
       T!setRepoGuestBase, T!EnsureSigningKey,
       T!LoadSigningKey, T!Install, T!installImage, T!fetchTo, T!fetchVerified, T!BuildEntry, T!Register, T!Crash
  <2> QED
    BY <2>2, <2>3
<1>3. ASSUME NEW p \in Procs, Command(p) PROVE disk' \in [kernel : T!Contents, rootfs : T!Contents]
  <2>1. ASSUME NEW file \in {"kernel", "rootfs"}, NEW c \in T!Contents
        PROVE  [disk EXCEPT ![file] = c] \in [kernel : T!Contents, rootfs : T!Contents]
    OBVIOUS
  <2>2. proc[p].bundle \in T!Contents /\ T!Wrong \in T!Contents /\ T!Absent \in T!Contents
    BY DEF T!Jobs, T!Contents, T!Wrong, T!Own, T!Absent
  <2>3. ASSUME NEW file \in {"kernel", "rootfs"}, T!fetchTo(p, file) \/ T!fetchVerified(p, file)
        PROVE  disk' \in [kernel : T!Contents, rootfs : T!Contents]
    BY <2>1, <2>2, <2>3 DEF T!fetchTo, T!fetchVerified
  <2> QED
    BY <1>3, <2>3 DEF Command, T!sandboxImageInitCmd, T!sandboxImageAddCmd,
       T!setRepoGuestBase, T!EnsureSigningKey,
       T!LoadSigningKey, T!Install, T!installImage, T!GenerateTrustRoot, T!BuildEntry, T!Register, T!Crash
<1>4. ASSUME Resolving PROVE T!TypeOK'
  BY <1>4, ResolveAdmits
<1>5. CASE T!Restart
  BY <1>5 DEF T!Restart, T!Unopened
<1>6. CASE UNCHANGED T!vars
  BY <1>6 DEF T!vars
<1>7. ASSUME NEW p \in Procs, Command(p) PROVE T!TypeOK'
  BY <1>1, <1>2, <1>3, <1>7, CommandRegisters
<1> QED
  BY <1>4, <1>5, <1>6, <1>7 DEF T!Next, Command, Resolving

\* What the daemon admits to boot is a kernel and a rootfs that one Register pinned
\* together and signed with the key the daemon trusts, for any number of commands that
\* install, rotate and die at once, also between the entry's read and the hash of each
\* file (Store.Resolve, Register, Install).
THEOREM AdmittedAlwaysRegistered ==
  ASSUME T!WellFormed
  PROVE  T!Spec => [](T!TypeOK /\ T!AdmittedWasRegistered)
<1>1. T!Init => TrustInvariant
  BY TrustInit
<1>2. TrustInvariant /\ [T!Next]_(T!vars) => TrustInvariant'
  <2> SUFFICES ASSUME TrustInvariant, [T!Next]_(T!vars) PROVE T!AdmittedWasRegistered' /\ T!LockedWasRegistered'
    BY TrustTypes DEF TrustInvariant
  <2>1. ASSUME NEW p \in Procs, Command(p) PROVE T!AdmittedWasRegistered' /\ T!LockedWasRegistered'
    BY <2>1, CommandRegisters DEF TrustInvariant, T!AdmittedWasRegistered
  <2>2. CASE T!Restart
    BY <2>2 DEF T!Restart, T!images, TrustInvariant, T!AdmittedWasRegistered,
       T!LockedWasRegistered
  <2>3. CASE UNCHANGED T!vars
    BY <2>3 DEF T!vars, TrustInvariant, T!AdmittedWasRegistered, T!LockedWasRegistered
  <2>4. CASE Resolving
    BY <2>4, ResolveAdmits DEF TrustInvariant
  <2> QED
    BY <2>1, <2>2, <2>3, <2>4 DEF T!Next, Command, Resolving
<1>3. TrustInvariant => T!TypeOK /\ T!AdmittedWasRegistered
  BY DEF TrustInvariant
<1> QED
  BY <1>1, <1>2, <1>3, PTL DEF T!Spec

-----------------------------------------------------------------------------
(* Task worktrees and the pinned fork point (WorktreeService.Add, assertPinnedForkBase). *)

WorkInvariant == W!TypeOK /\ W!PinHolds /\ W!Pinned

\* The values of the functions that W!TypeOK types.
Places == [exists : BOOLEAN, task : Tasks \cup {None}, branch : Tasks \cup {None}]
Additions == [pc : {"idle", "marker", "fill", "undo"}, path : Dirs \cup {None},
              task : Tasks \cup {None}, branch : Tasks \cup {None}, fork : W!Commits]
Rowed(r, k) == r.path \in Dirs /\ r.task \in Tasks /\ r.branch \in Tasks /\ r.fork \in 0..k

\* A store that holds only its first commit.
LEMMA WorkInit ==
  ASSUME W!WellFormed, W!Init PROVE WorkInvariant
<1>1. W!NoDir \in Places
  BY DEF W!NoDir, Places
<1>2. W!NoAdd \in Additions
  BY DEF W!WellFormed, W!NoAdd, Additions, W!Commits
<1>3. dir \in [Dirs -> Places] /\ add \in [Procs -> Additions]
  BY <1>1, <1>2 DEF W!Init
<1>4. n \in W!Commits /\ head \in 0..n /\ rows = {} /\ strayed \subseteq Tasks
  BY DEF W!WellFormed, W!Init, W!Commits
<1>5. refs \in [Tasks -> 0..n \cup {None}] /\ first \in [Tasks -> 0..n \cup {None}]
  BY DEF W!Init
<1>6. W!TypeOK
  BY <1>3, <1>4, <1>5 DEF W!TypeOK, Places, Additions
<1>7. (\A l \in Dirs : dir[l].branch = None) /\ \A q \in Procs : add[q].branch = None /\ add[q].pc = "idle"
  BY DEF W!Init, W!NoDir, W!NoAdd
<1>8. \A t \in Tasks : first[t] = None
  BY DEF W!Init
<1> QED
  BY <1>4, <1>6, <1>7, <1>8 DEF WorkInvariant, W!PinHolds, W!assertPinnedForkBase,
     W!Pinned, W!BoundToOwn

\* What resolveForkBase and the creation of a branch do to the store: the branch is
\* there already and only its pinned base is read, or the task's branch is new and at c.
Forks(t, b, c) ==
  /\ n' \in W!Commits /\ n \leq n' /\ head' \in 0..n' /\ c \in 0..n'
  /\ \/ refs[b] # None /\ c = W!existingForkBase(t, b) /\ refs' = refs
     \/ b = t /\ refs[t] = None /\ refs' = [refs EXCEPT ![t] = c]

\* A claim finds its fork point so, whichever base it asks for (resolveForkBase).
LEMMA ResolvedForks ==
  ASSUME W!WellFormed, W!TypeOK, NEW t \in Tasks, NEW b \in Tasks, NEW opts, NEW c \in W!Commits,
         W!resolveForkBase(t, b, opts, c)
  PROVE  Forks(t, b, c)
<1> USE DEF W!WellFormed, W!TypeOK, W!Commits
<1>1. CASE refs[b] # None
  <2>1. c = W!existingForkBase(t, b) /\ UNCHANGED <<n, head, refs>>
    BY <1>1 DEF W!resolveForkBase
  <2>2. c \in 0..n
    BY <1>1, <2>1 DEF W!existingForkBase
  <2> QED
    BY <1>1, <2>1, <2>2 DEF Forks
<1>2. CASE refs[b] = None
  <2>1. b = t /\ W!CreateBranchAt(t, c) /\ (head' = head \/ head' = c)
    BY <1>2 DEF W!resolveForkBase, W!createBranchAtBase, W!forkWithUncommitted,
       W!branchAtHead, W!CommittedForkBase
  <2> QED
    BY <2>1 DEF W!CreateBranchAt, Forks
<1> QED
  BY <1>1, <1>2

\* `mgit branch` and an addition that dies before its row fork in the same way.
LEMMA CreatedForks ==
  ASSUME W!WellFormed, W!TypeOK, NEW t \in Tasks, NEW c,
         W!branchAtHead(t, c) \/ W!CommittedForkBase(t, c)
  PROVE  Forks(t, t, c)
BY DEF W!WellFormed, W!TypeOK, W!Commits, W!branchAtHead, W!CommittedForkBase,
   W!CreateBranchAt, Forks

\* A row that names the fork point keeps the pin, and so does no row at all.
LEMMA ForksPin ==
  ASSUME W!WellFormed, WorkInvariant, NEW t \in Tasks, NEW b \in Tasks, NEW c, Forks(t, b, c),
         first' = first, strayed \subseteq strayed', b # t => {t, b} \subseteq strayed',
         \A r \in rows' : r \in rows \/ (r.task = t /\ r.fork = c)
  PROVE  /\ W!PinHolds'
         /\ \A u \in Tasks \ strayed' :
               IF first'[u] = None THEN \A r \in rows' : r.task = u => r.fork = refs'[u]
                                   ELSE refs'[u] # None
<1> USE DEF W!WellFormed, WorkInvariant, W!TypeOK
<1> SUFFICES ASSUME NEW u \in Tasks \ strayed'
             PROVE  /\ W!assertPinnedForkBase(u)'
                    /\ IF first[u] = None THEN \A r \in rows' : r.task = u => r.fork = refs'[u]
                                          ELSE refs'[u] # None
  BY DEF W!PinHolds
<1>1. u \in Tasks \ strayed
  BY Zenon
<1>2. W!assertPinnedForkBase(u) /\ IF first[u] = None THEN \A r \in rows : r.task = u => r.fork = refs[u]
                                                      ELSE refs[u] # None
  BY Zenon, <1>1 DEF W!PinHolds, W!Pinned
<1>3. CASE u # t
  <2>1. refs'[u] = refs[u]
    BY Zenon, <1>3 DEF Forks
  <2> QED
    BY <1>2, <1>3, <2>1 DEF W!assertPinnedForkBase
<1>4. CASE u = t
  <2>1. b = t
    BY Zenon, <1>4
  <2>2. CASE refs[t] # None
    <3>1. refs' = refs /\ c = IF first[t] = None THEN refs[t] ELSE first[t]
      BY <2>1, <2>2 DEF Forks, W!existingForkBase
    <3> QED
      BY <1>2, <1>4, <3>1 DEF W!assertPinnedForkBase
  <2>3. CASE refs[t] = None
    <3>1. first[t] = None
      BY Zenon, <1>2, <1>4, <2>3
    <3>2. \A r \in rows : r.task # t
      BY <1>2, <1>4, <2>3, <3>1
    <3>3. refs'[t] = c
      BY <2>1, <2>3 DEF Forks
    <3> QED
      BY Zenon, <1>4, <3>1, <3>2, <3>3 DEF W!assertPinnedForkBase
  <2> QED
    BY Zenon, <2>2, <2>3
<1> QED
  BY Zenon, <1>3, <1>4

\* What is kept where only the bindings of directories and additions, and the store, move.
Kept ==
  /\ n' \in W!Commits /\ n \leq n' /\ head' \in 0..n'
  /\ refs' \in [Tasks -> 0..n' \cup {None}] /\ first' \in [Tasks -> 0..n' \cup {None}]
  /\ strayed \subseteq strayed' /\ strayed' \subseteq Tasks
  /\ \A r \in rows' : r \in rows \/ Rowed(r, n')
  /\ dir' \in [Dirs -> Places] /\ add' \in [Procs -> Additions]

\* Such a step keeps the types.
LEMMA KeptTypes ==
  ASSUME W!WellFormed, W!TypeOK, Kept PROVE W!TypeOK'
<1>1. \A r \in rows' : Rowed(r, n')
  BY DEF W!WellFormed, W!TypeOK, Kept, Rowed, W!Commits
<1> QED
  BY <1>1 DEF Kept, W!TypeOK, Places, Additions, Rowed, W!Commits

\* A claim: the fork point, the row and the addition.
LEMMA ClaimStep ==
  ASSUME W!WellFormed, WorkInvariant, NEW q \in Procs, NEW t \in Tasks, NEW b \in Tasks, NEW l \in Dirs,
         NEW opts, W!claim(q, t, b, l, opts)
  PROVE  WorkInvariant'
<1> USE DEF W!WellFormed, WorkInvariant
<1>1. PICK c \in W!Commits :
        /\ W!resolveForkBase(t, b, opts, c)
        /\ LET a == [pc |-> "marker", path |-> l, task |-> t, branch |-> b, fork |-> c]
           IN IF W!InsertConflicts(l, t, b)
                THEN UNCHANGED <<rows, add>>
                ELSE rows' = rows \cup {W!Row(a)} /\ add' = [add EXCEPT ![q] = a]
  BY Zenon DEF W!claim
<1> DEFINE a == [pc |-> "marker", path |-> l, task |-> t, branch |-> b, fork |-> c]
<1>2. Forks(t, b, c)
  BY Zenon, <1>1, ResolvedForks
<1>3. UNCHANGED <<first, dir>> /\ strayed' = IF b = t THEN strayed ELSE strayed \cup {t, b}
  BY DEF W!claim
<1>4. W!Row(a) = [path |-> l, task |-> t, branch |-> b, fork |-> c]
  BY DEF W!Row
<1>5. a \in Additions
  BY Zenon DEF Additions
<1>6. \/ rows' = rows /\ add' = add
      \/ rows' = rows \cup {W!Row(a)} /\ add' = [add EXCEPT ![q] = a]
  BY Zenon, <1>1
<1>7. \A r \in rows' : r \in rows \/ r = W!Row(a)
  BY Zenon, <1>6
<1>8. add \in [Procs -> Additions] /\ dir \in [Dirs -> Places]
  BY DEF W!TypeOK, Additions, Places
<1>9. Kept
  <2>1. add' \in [Procs -> Additions] /\ dir' \in [Dirs -> Places]
    BY ZenonT(60), <1>3, <1>5, <1>6, <1>8
  <2>2. Rowed(W!Row(a), n')
    BY <1>2, <1>4 DEF Rowed, Forks
  <2>3. refs' \in [Tasks -> 0..n' \cup {None}]
    BY <1>2 DEF Forks, W!TypeOK, W!Commits
  <2>4. first' \in [Tasks -> 0..n' \cup {None}]
    BY <1>2, <1>3 DEF Forks, W!TypeOK, W!Commits
  <2> QED
    BY ZenonT(60), <1>2, <1>3, <1>7, <2>1, <2>2, <2>3, <2>4 DEF Kept, Forks, W!TypeOK
<1>10. /\ W!PinHolds'
       /\ \A u \in Tasks \ strayed' :
             IF first'[u] = None THEN \A r \in rows' : r.task = u => r.fork = refs'[u]
                                 ELSE refs'[u] # None
  <2>1. strayed \subseteq strayed' /\ (b # t => {t, b} \subseteq strayed')
    BY <1>3
  <2>2. \A r \in rows' : r \in rows \/ (r.task = t /\ r.fork = c)
    BY <1>4, <1>7
  <2> QED
    BY Zenon, <1>2, <1>3, <2>1, <2>2, ForksPin
<1>11. \A m \in Dirs : W!BoundToOwn(dir[m])'
  BY <1>3 DEF W!Pinned, W!BoundToOwn
<1>12. \A p \in Procs : W!BoundToOwn(add[p])' /\ (add'[p].pc # "idle" => add'[p].branch # None /\ add'[p].path \in Dirs)
  <2>1. CASE add' = add
    BY ZenonT(60), <1>3, <2>1 DEF W!Pinned, W!BoundToOwn
  <2>2. CASE add' = [add EXCEPT ![q] = a]
    <3> SUFFICES ASSUME NEW p \in Procs
                 PROVE  W!BoundToOwn(add[p])' /\ (add'[p].pc # "idle" => add'[p].branch # None /\ add'[p].path \in Dirs)
      BY Zenon
    <3>1. CASE p = q
      <4>1. add'[p] = a
        BY Zenon, <1>8, <2>2, <3>1
      <4> QED
        BY <1>3, <4>1 DEF W!BoundToOwn
    <3>2. CASE p # q
      <4>1. add'[p] = add[p]
        BY Zenon, <1>8, <2>2, <3>2
      <4> QED
        BY Zenon, <1>3, <4>1 DEF W!Pinned, W!BoundToOwn
    <3> QED
      BY <3>1, <3>2
  <2> QED
    BY ZenonT(60), <1>6, <2>1, <2>2
<1> QED
  BY <1>9, <1>10, <1>11, <1>12, KeptTypes DEF W!Pinned

\* A directory's binding or an addition that keeps to its own branch.
OwnDir(x) == x \in Places /\ W!BoundToOwn(x)
OwnAdd(x) == x \in Additions /\ W!BoundToOwn(x) /\ (x.pc # "idle" => x.branch # None /\ x.path \in Dirs)

\* Every directory and every addition does, in a state of the invariant.
LEMMA AllOwn ==
  ASSUME WorkInvariant
  PROVE  /\ dir \in [Dirs -> Places] /\ \A l \in Dirs : OwnDir(dir[l])
         /\ add \in [Procs -> Additions] /\ \A q \in Procs : OwnAdd(add[q])
BY Zenon DEF WorkInvariant, W!TypeOK, Places, Additions, W!Pinned, OwnDir, OwnAdd

\* So do the directory that is not there and the addition that is not running.
LEMMA IdleOwn ==
  ASSUME W!WellFormed PROVE OwnDir(W!NoDir) /\ OwnAdd(W!NoAdd)
BY DEF W!WellFormed, W!NoDir, W!NoAdd, OwnDir, OwnAdd, Places, Additions, W!BoundToOwn, W!Commits

\* Filling, giving up and removing touch no branch.
LEMMA AsideStep ==
  ASSUME W!WellFormed, WorkInvariant, UNCHANGED <<n, head, refs, first, strayed>>, rows' \subseteq rows,
         dir' = dir \/ \E l \in Dirs : \E x : OwnDir(x) /\ dir' = [dir EXCEPT ![l] = x],
         add' = add \/ \E q \in Procs : \E x : OwnAdd(x) /\ add' = [add EXCEPT ![q] = x]
  PROVE  WorkInvariant'
<1>1. dir' \in [Dirs -> Places] /\ \A l \in Dirs : OwnDir(dir'[l])
  BY Zenon, AllOwn DEF OwnDir
<1>2. add' \in [Procs -> Additions] /\ \A q \in Procs : OwnAdd(add'[q])
  BY SMT, Z3, AllOwn DEF OwnAdd
<1>3. Kept
  BY <1>1, <1>2 DEF WorkInvariant, W!TypeOK, Kept, W!Commits
<1>4. W!TypeOK'
  BY Zenon, <1>3, KeptTypes DEF WorkInvariant
<1>5. W!PinHolds' /\ \A u \in Tasks \ strayed' :
             IF first'[u] = None THEN \A r \in rows' : r.task = u => r.fork = refs'[u]
                                 ELSE refs'[u] # None
  BY DEF WorkInvariant, W!PinHolds, W!assertPinnedForkBase, W!Pinned
<1>6. \A l \in Dirs : W!BoundToOwn(dir[l])'
  BY Zenon, <1>1 DEF OwnDir, W!BoundToOwn
<1>7. \A q \in Procs : W!BoundToOwn(add[q])' /\ (add'[q].pc # "idle" => add'[q].branch # None /\ add'[q].path \in Dirs)
  BY <1>2 DEF OwnAdd, W!BoundToOwn
<1> QED
  BY Zenon, <1>4, <1>5, <1>6, <1>7 DEF WorkInvariant, W!Pinned

\* The marker, the files, and an addition that fails or dies after its claim.
LEMMA FillingSteps ==
  ASSUME W!WellFormed, WorkInvariant, NEW q \in Procs,
         W!WriteWorktreeMarker(q) \/ W!MaterializeBranchTo(q) \/ W!MaterializeFails(q)
           \/ W!ReleaseClaim(q) \/ W!Killed(q)
  PROVE  WorkInvariant'
<1>1. OwnAdd(add[q]) /\ add[q] \in Additions
  BY AllOwn
<1>2. ASSUME NEW to \in {"fill", "undo"}, add[q].pc # "idle", add' = [add EXCEPT ![q].pc = to]
      PROVE  \E x : OwnAdd(x) /\ add' = [add EXCEPT ![q] = x]
  <2>1. add' = [add EXCEPT ![q] = [add[q] EXCEPT !.pc = to]]
    BY <1>2
  <2>2. OwnAdd([add[q] EXCEPT !.pc = to])
    BY <1>1, <1>2 DEF OwnAdd, Additions, W!BoundToOwn
  <2> QED
    BY Zenon, <2>1, <2>2
<1>3. CASE W!WriteWorktreeMarker(q)
  <2> DEFINE x == [exists |-> TRUE, task |-> add[q].task, branch |-> add[q].branch]
  <2>1. OwnDir(x) /\ add[q].path \in Dirs
    BY <1>1, <1>3 DEF W!WriteWorktreeMarker, OwnAdd, OwnDir, Additions, Places, W!BoundToOwn
  <2>2. dir' = [dir EXCEPT ![add[q].path] = x]
    BY <1>3 DEF W!WriteWorktreeMarker
  <2>3. \E y : OwnAdd(y) /\ add' = [add EXCEPT ![q] = y]
    BY Zenon, <1>2, <1>3 DEF W!WriteWorktreeMarker
  <2> QED
    BY Zenon, <1>3, <2>1, <2>2, <2>3, AsideStep DEF W!WriteWorktreeMarker
<1>4. CASE W!MaterializeBranchTo(q)
  <2> DEFINE l == add[q].path
             x == [dir[l] EXCEPT !.exists = TRUE]
  <2>1. l \in Dirs
    BY Zenon, <1>1, <1>4 DEF W!MaterializeBranchTo, OwnAdd
  <2>2. OwnDir(dir[l])
    BY <2>1, AllOwn
  <2>3. OwnDir(x)
    BY Zenon, <2>2 DEF OwnDir, Places, W!BoundToOwn
  <2>4. dir' = [dir EXCEPT ![l] = x]
    BY <1>4 DEF W!MaterializeBranchTo
  <2> QED
    BY Zenon, <1>4, <2>1, <2>3, <2>4, IdleOwn, AsideStep DEF W!MaterializeBranchTo
<1>5. CASE W!MaterializeFails(q)
  <2>1. \E y : OwnAdd(y) /\ add' = [add EXCEPT ![q] = y]
    BY Zenon, <1>2, <1>5 DEF W!MaterializeFails
  <2> QED
    BY Zenon, <1>5, <2>1, AsideStep DEF W!MaterializeFails
<1>6. CASE W!ReleaseClaim(q) \/ W!Killed(q)
  BY <1>6, IdleOwn, AsideStep DEF W!ReleaseClaim, W!Killed
<1> QED
  BY <1>3, <1>4, <1>5, <1>6

\* `worktree remove`, `worktree prune`, and a directory deleted by hand.
LEMMA RemovalSteps ==
  ASSUME W!WellFormed, WorkInvariant,
         W!Prune \/ \E l \in Dirs : W!Remove(l) \/ W!DirectoryGone(l)
  PROVE  WorkInvariant'
<1>1. CASE W!Prune
  BY <1>1, AsideStep DEF W!Prune
<1>2. ASSUME NEW l \in Dirs, W!Remove(l) PROVE WorkInvariant'
  BY <1>2, AsideStep DEF W!Remove
<1>3. ASSUME NEW l \in Dirs, W!DirectoryGone(l) PROVE WorkInvariant'
  BY ZenonT(60), <1>3, IdleOwn, AsideStep DEF W!DirectoryGone
<1> QED
  BY <1>1, <1>2, <1>3

\* A step that moves branches and leaves directories and additions alone.
LEMMA BranchMoves ==
  ASSUME W!WellFormed, WorkInvariant, UNCHANGED <<rows, dir, add>>,
         strayed \subseteq strayed', strayed' \subseteq Tasks,
         n' \in W!Commits, n \leq n', head' \in 0..n',
         refs' \in [Tasks -> 0..n' \cup {None}], first' \in [Tasks -> 0..n' \cup {None}],
         W!PinHolds',
         \A u \in Tasks \ strayed' :
             IF first'[u] = None THEN \A r \in rows' : r.task = u => r.fork = refs'[u]
                                 ELSE refs'[u] # None
  PROVE  WorkInvariant'
<1>1. Kept
  BY AllOwn DEF Kept
<1>2. W!TypeOK'
  BY Zenon, <1>1, KeptTypes DEF WorkInvariant
<1>3. /\ \A l \in Dirs : W!BoundToOwn(dir[l])'
      /\ \A q \in Procs : W!BoundToOwn(add[q])'
            /\ (add'[q].pc # "idle" => add'[q].branch # None /\ add'[q].path \in Dirs)
  BY DEF WorkInvariant, W!Pinned, W!BoundToOwn
<1> QED
  BY <1>2, <1>3 DEF WorkInvariant, W!Pinned

\* A branch made with no row.
LEMMA BranchStep ==
  ASSUME W!WellFormed, WorkInvariant, NEW t \in Tasks, NEW c,
         W!branchAtHead(t, c) \/ W!CommittedForkBase(t, c), UNCHANGED <<rows, first, dir, add, strayed>>
  PROVE  WorkInvariant'
<1>1. Forks(t, t, c)
  BY CreatedForks DEF WorkInvariant
<1>2. refs' \in [Tasks -> 0..n' \cup {None}] /\ first' \in [Tasks -> 0..n' \cup {None}]
  BY <1>1 DEF WorkInvariant, W!TypeOK, Forks, W!Commits
<1>3. /\ W!PinHolds'
      /\ \A u \in Tasks \ strayed' :
             IF first'[u] = None THEN \A r \in rows' : r.task = u => r.fork = refs'[u]
                                 ELSE refs'[u] # None
  BY Zenon, <1>1, ForksPin
<1> QED
  BY Zenon, <1>1, <1>2, <1>3, BranchMoves DEF Forks, WorkInvariant, W!TypeOK

\* A deleted branch strays; the base moves under nobody.
LEMMA DeleteAndResync ==
  ASSUME W!WellFormed, WorkInvariant,
         W!AdvanceBase \/ \E b \in Tasks, force \in BOOLEAN : W!DeleteBranch(b, force)
  PROVE  WorkInvariant'
<1> USE DEF W!WellFormed
<1>1. CASE W!AdvanceBase
  <2>1. W!PinHolds' /\ \A u \in Tasks \ strayed' :
             IF first'[u] = None THEN \A r \in rows' : r.task = u => r.fork = refs'[u]
                                 ELSE refs'[u] # None
    BY Zenon, <1>1 DEF W!AdvanceBase, WorkInvariant, W!PinHolds, W!assertPinnedForkBase, W!Pinned
  <2>2. /\ n' \in W!Commits /\ n \leq n' /\ head' \in 0..n'
        /\ refs' \in [Tasks -> 0..n' \cup {None}] /\ first' \in [Tasks -> 0..n' \cup {None}]
    BY <1>1 DEF W!AdvanceBase, WorkInvariant, W!TypeOK, W!Commits
  <2> QED
    BY ZenonT(60), <1>1, <2>1, <2>2, BranchMoves DEF W!AdvanceBase, WorkInvariant, W!TypeOK
<1>2. ASSUME NEW b \in Tasks, NEW force \in BOOLEAN, W!DeleteBranch(b, force) PROVE WorkInvariant'
  <2>1. W!PinHolds' /\ \A u \in Tasks \ strayed' :
             IF first'[u] = None THEN \A r \in rows' : r.task = u => r.fork = refs'[u]
                                 ELSE refs'[u] # None
    BY ZenonT(60), <1>2 DEF W!DeleteBranch, WorkInvariant, W!PinHolds,
       W!assertPinnedForkBase, W!Pinned, W!TypeOK
  <2>2. /\ n' \in W!Commits /\ n \leq n' /\ head' \in 0..n'
        /\ refs' \in [Tasks -> 0..n' \cup {None}] /\ first' \in [Tasks -> 0..n' \cup {None}]
    BY <1>2 DEF W!DeleteBranch, WorkInvariant, W!TypeOK, W!Commits
  <2> QED
    BY ZenonT(60), <1>2, <2>1, <2>2, BranchMoves DEF W!DeleteBranch, WorkInvariant, W!TypeOK
<1> QED
  BY <1>1, <1>2

\* A commit from a worktree pins the task where its branch was, if it gets its row.
LEMMA WorktreeCommitStep ==
  ASSUME W!WellFormed, WorkInvariant, NEW l \in Dirs, NEW asked, NEW got,
         W!commitInWorktree(l, asked, got)
  PROVE  WorkInvariant'
<1> USE DEF W!WellFormed
<1> DEFINE b == dir[l].branch
           t == dir[l].task
<1>1. b \in Tasks /\ t \in Tasks /\ (t = b \/ {t, b} \subseteq strayed) /\ refs[b] # None
  BY Zenon, AllOwn DEF W!commitInWorktree, W!OpenLinked, OwnDir, Places, W!BoundToOwn
<1>2. /\ n < MaxCommits /\ n' = n + 1 /\ refs' = [refs EXCEPT ![b] = n + 1]
      /\ first' = IF got = "indexed" /\ first[t] = None THEN [first EXCEPT ![t] = refs[b]] ELSE first
      /\ strayed' = IF got # "indexed" /\ first[t] = None /\ \E r \in rows : r.task = t
                     THEN strayed \cup {t} ELSE strayed
      /\ UNCHANGED <<head, rows, dir, add>>
  BY Zenon DEF W!commitInWorktree, W!CreateCommit
<1>3. /\ n' \in W!Commits /\ n \leq n' /\ head' \in 0..n'
      /\ refs' \in [Tasks -> 0..n' \cup {None}] /\ first' \in [Tasks -> 0..n' \cup {None}]
  BY <1>1, <1>2 DEF WorkInvariant, W!TypeOK, W!Commits
<1>4. strayed \subseteq strayed' /\ strayed' \subseteq Tasks
  BY Zenon, <1>1, <1>2 DEF WorkInvariant, W!TypeOK
<1>5. ASSUME NEW u \in Tasks \ strayed'
      PROVE  /\ W!assertPinnedForkBase(u)'
             /\ IF first'[u] = None THEN \A r \in rows' : r.task = u => r.fork = refs'[u] ELSE refs'[u] # None
  <2>1. /\ u \in Tasks \ strayed
        /\ W!assertPinnedForkBase(u) /\ IF first[u] = None THEN \A r \in rows : r.task = u => r.fork = refs[u]
                                                          ELSE refs[u] # None
    BY Zenon, <1>4 DEF WorkInvariant, W!PinHolds, W!Pinned
  <2>2. CASE u # t
    <3>1. u # b /\ refs'[u] = refs[u] /\ first'[u] = first[u]
      BY ZenonT(60), <1>1, <1>2, <2>1, <2>2 DEF WorkInvariant, W!TypeOK
    <3> QED
      BY <1>2, <2>1, <3>1 DEF W!assertPinnedForkBase
  <2>3. CASE u = t
    <3>1. b = t /\ refs'[u] = n + 1
      BY ZenonT(60), <1>1, <1>2, <2>1, <2>3 DEF WorkInvariant, W!TypeOK
    <3>2. refs'[u] # None
      BY <3>1 DEF WorkInvariant, W!TypeOK, W!Commits
    <3>3. CASE got = "indexed" /\ first[t] = None
      <4>1. first'[u] = refs[u] /\ first'[u] # None
        BY ZenonT(60), <1>1, <1>2, <2>3, <3>1, <3>3 DEF WorkInvariant, W!TypeOK
      <4> QED
        BY <1>2, <2>1, <2>3, <3>2, <3>3, <4>1 DEF W!assertPinnedForkBase
    <3>4. CASE ~(got = "indexed" /\ first[t] = None)
      <4>1. first' = first
        BY Zenon, <1>2, <3>4
      <4>2. first[u] = None => \A r \in rows : r.task # u
        BY Zenon, <1>2, <2>3, <3>4
      <4> QED
        BY Zenon, <1>2, <2>1, <3>2, <4>1, <4>2 DEF W!assertPinnedForkBase
    <3> QED
      BY Zenon, <3>3, <3>4
  <2> QED
    BY <2>2, <2>3
<1> QED
  BY ZenonT(60), <1>2, <1>3, <1>4, <1>5, BranchMoves DEF W!PinHolds, WorkInvariant, W!TypeOK

\* One from the main directory makes its task stray if it is the first.
LEMMA MainCommitStep ==
  ASSUME W!WellFormed, WorkInvariant, NEW t \in Tasks, NEW got, W!commitInMain(t, got)
  PROVE  WorkInvariant'
<1> USE DEF W!WellFormed
<1>1. /\ n < MaxCommits /\ n' = n + 1 /\ head' = n + 1
      /\ first' = IF got = "indexed" /\ first[t] = None THEN [first EXCEPT ![t] = head] ELSE first
      /\ strayed' = IF got = "indexed" /\ first[t] = None THEN strayed \cup {t} ELSE strayed
      /\ UNCHANGED <<refs, rows, dir, add>>
  BY Zenon DEF W!commitInMain, W!CreateCommit
<1>2. /\ n' \in W!Commits /\ n \leq n' /\ head' \in 0..n'
      /\ refs' \in [Tasks -> 0..n' \cup {None}] /\ first' \in [Tasks -> 0..n' \cup {None}]
  BY <1>1 DEF WorkInvariant, W!TypeOK, W!Commits
<1>3. strayed \subseteq strayed' /\ strayed' \subseteq Tasks
  BY Zenon, <1>1 DEF WorkInvariant, W!TypeOK
<1>4. ASSUME NEW u \in Tasks \ strayed'
      PROVE  /\ W!assertPinnedForkBase(u)'
             /\ IF first'[u] = None THEN \A r \in rows' : r.task = u => r.fork = refs'[u] ELSE refs'[u] # None
  <2>1. /\ u \in Tasks \ strayed
        /\ W!assertPinnedForkBase(u) /\ IF first[u] = None THEN \A r \in rows : r.task = u => r.fork = refs[u]
                                                          ELSE refs[u] # None
    BY Zenon, <1>3 DEF WorkInvariant, W!PinHolds, W!Pinned
  <2>2. first'[u] = first[u]
    BY ZenonT(60), <1>1, <2>1 DEF WorkInvariant, W!TypeOK
  <2> QED
    BY <1>1, <2>1, <2>2 DEF W!assertPinnedForkBase
<1> QED
  BY ZenonT(60), <1>1, <1>2, <1>3, <1>4, BranchMoves DEF W!PinHolds, WorkInvariant, W!TypeOK

\* While a task's own branch is the one bound and was never deleted, and its first commit
\* was made on it and got its row, a squash never finds another fork point than the one
\* the worktree's row pins, for any number of worktrees, additions and commits, cut short
\* or from the main directory (WorktreeService.Add, existingForkBase,
\* assertPinnedForkBase).
THEOREM PinAlwaysHolds ==
  ASSUME W!WellFormed
  PROVE  W!Spec => [](W!TypeOK /\ W!PinHolds)
<1>1. W!Init => WorkInvariant
  BY WorkInit
<1>2. WorkInvariant /\ [W!Next]_(W!vars) => WorkInvariant'
  <2> SUFFICES ASSUME WorkInvariant, [W!Next]_(W!vars) PROVE WorkInvariant'
    OBVIOUS
  <2>1. CASE W!worktreeCmd
    BY Zenon, <2>1, ClaimStep, RemovalSteps DEF W!worktreeCmd
  <2>2. CASE \E q \in Procs, t \in Tasks, b \in Tasks, l \in Dirs : W!workSetup(q, t, b, l)
    BY <2>2, ClaimStep DEF W!workSetup
  <2>3. CASE \E q \in Procs, t \in Tasks : W!claimInterrupted(q, t)
    BY Zenon, <2>3, BranchStep DEF W!claimInterrupted
  <2>4. CASE \E b \in Tasks : W!branchCmd(b)
    BY <2>4, BranchStep, DeleteAndResync DEF W!branchCmd, W!CreateBranch
  <2>5. CASE UNCHANGED W!vars
    BY <2>5, AsideStep DEF W!vars
  <2>6. CASE W!commitCmd
    BY Zenon, <2>6, WorktreeCommitStep, MainCommitStep DEF W!commitCmd
  <2> QED
    BY <2>1, <2>2, <2>3, <2>4, <2>5, <2>6, FillingSteps, RemovalSteps, DeleteAndResync
       DEF W!Next
<1>3. WorkInvariant => W!TypeOK /\ W!PinHolds
  BY DEF WorkInvariant
<1> QED
  BY <1>1, <1>2, <1>3, PTL DEF W!Spec
=============================================================================
