------------------------------ MODULE BaseCache ------------------------------
(***************************************************************************)
(* The machine-wide cache of guest bases (internal/sandboxd/basecache), the *)
(* images.lock of each repository that pins one (internal/sandboxd/images), *)
(* and the three commands that meet in it: `base from` (compose), the move  *)
(* of an in-tree base into the cache, and `base prune`.                     *)
(*                                                                         *)
(* A repository is its sandbox config root. A base is its digest: the cache *)
(* never rewrites an entry, so the bytes are not modelled. A lock entry is  *)
(* absent, a cached digest, an in-tree path (Tree) or an operator's own     *)
(* directory (Own). Composes hold the cache shared from publishing to       *)
(* signing; prune holds it exclusively from asking the daemons to removing. *)
(***************************************************************************)
EXTENDS FiniteSets, Naturals

CONSTANTS Roots, Names, Digests, Procs, \* repositories, image names, bases, CLI processes
          Absent, Tree, Own,            \* the other values of a lock entry
          Default,                      \* the image name a launch boots
          OldPins,                      \* <<root, digest>>: pins older than the records
          InTree,                       \* [root -> digest of its in-tree base, or Absent]
          MaxRuns, MaxFaults            \* bounds: commands started, faults

VARIABLES
    entries,   \* the published digests, sha256/<hex>
    full,      \* the digests marked .fully-recorded
    pinners,   \* [digest -> roots recorded against it]
    lock,      \* [root -> [name -> lock entry]], each root's images.lock
    legacy,    \* [root -> digest of the base inside the repository, or Absent]
    here,      \* the roots whose path exists (not renamed, moved or deleted)
    vm,        \* [root -> its sandbox: the base it boots from, or Absent, and whether it is listed]
    rewritten, \* the entries whose bytes no longer hash to their name
    litter,    \* whether the staging area holds a tree no process owns
    proc,      \* [process -> its command]
    prune,     \* the one prune command
    lost,      \* history: pins <<root, digest>> whose record failed or was cut short
    runs, faults

cache == <<entries, full, pinners, rewritten, litter>>
vars == <<cache, lock, legacy, here, vm, proc, prune, lost, runs, faults>>
repos == <<lock, legacy, here, vm>>

NoLock == [n \in Names |-> Absent]
Idle == [pc |-> "idle", root |-> Absent, name |-> Absent, digest |-> Absent, dup |-> FALSE, lock |-> NoLock]
NoBox == [base |-> Absent, listed |-> FALSE]
NoPrune == [pc |-> "idle", todo |-> {}, named |-> {}, released |-> {}, live |-> {}, roots |-> {}, err |-> FALSE]

Init ==
    /\ entries = {x[2] : x \in OldPins}
    /\ full = {}
    /\ pinners = [d \in Digests |-> {}]
    /\ legacy = InTree
    /\ lock = [r \in Roots |-> [n \in Names |->
                 IF n # Default THEN Absent
                 ELSE IF InTree[r] # Absent THEN Tree
                 ELSE IF \E x \in OldPins : x[1] = r THEN (CHOOSE x \in OldPins : x[1] = r)[2]
                 ELSE Absent]]
    /\ here = Roots
    /\ vm = [r \in Roots |-> NoBox]
    /\ rewritten = {} /\ litter = FALSE
    /\ proc = [p \in Procs |-> Idle]
    /\ prune = NoPrune
    /\ lost = {}
    /\ runs = 0 /\ faults = 0

\* HoldShared and HoldExclusive, a flock on .hold that dies with its process.
Holding == {"adopt", "drop", "repoint", "pin", "commit", "record", "mark", "lookup", "sign"}
HeldShared == \E p \in Procs : proc[p].pc \in Holding
HeldExclusive == prune.pc \in {"ask", "remove"}

At(p, s) == proc[p].pc = s
Become(p, s) == proc' = [proc EXCEPT ![p].pc = s]
Leave(p) == proc' = [proc EXCEPT ![p] = Idle]
Fault == faults < MaxFaults /\ faults' = faults + 1

Has(d) == d \in entries
LegacyInTreeBase(r) == legacy[r]
CachedPins(r) == {lock[r][n] : n \in Names} \cap Digests

\* Only the owning repository configures its images, and only where its path exists.
ownerSetupHostRoot(r) == r \in here

\* PruneStaging takes an abandoned tree once it is a day old; no pull lasts that long.
openBaseCache == litter' \in {litter, FALSE}

----------------------------------------------------------------------------
(* `base from`: composeBaseFromImage and the functions it calls.             *)

\* Pull the image and finish it in a private staging tree; the digest that tree will
\* hash to is any digest. An in-tree base has been moved out first.
Compose(p, r, n, d) ==
    /\ At(p, "idle") /\ runs < MaxRuns
    /\ ownerSetupHostRoot(r) /\ LegacyInTreeBase(r) = Absent
    /\ openBaseCache
    /\ proc' = [proc EXCEPT ![p] = [Idle EXCEPT !.pc = "staged", !.root = r, !.name = n, !.digest = d]]
    /\ runs' = runs + 1
    /\ UNCHANGED <<entries, full, pinners, rewritten, repos, prune, lost, faults>>

HoldShared(p) ==
    /\ At(p, "staged") /\ ~HeldExclusive
    /\ Become(p, "commit")
    /\ UNCHANGED <<cache, repos, prune, lost, runs, faults>>

\* Rename the staging tree to its digest; bytes already cached are deduplicated.
Commit(p) ==
    /\ At(p, "commit")
    /\ entries' = entries \cup {proc[p].digest}
    /\ proc' = [proc EXCEPT ![p].dup = Has(proc[p].digest), ![p].pc = "record"]
    /\ UNCHANGED <<full, pinners, rewritten, litter, repos, prune, lost, runs, faults>>

RecordPinner(d, r) == pinners' = [pinners EXCEPT ![d] = @ \cup {r}]

\* Before anything is signed: a failed record refuses the compose.
recordComposedPin(p) ==
    /\ At(p, "record")
    /\ \/ /\ RecordPinner(proc[p].digest, proc[p].root)
          /\ Become(p, IF proc[p].dup THEN "lookup" ELSE "mark")
          /\ UNCHANGED faults
       \/ /\ Fault
          /\ proc[p].root \notin pinners[proc[p].digest]
          /\ Leave(p)
          /\ UNCHANGED pinners
    /\ UNCHANGED <<entries, full, rewritten, litter, repos, prune, lost, runs>>

MarkFullyRecorded(d) == full' = full \cup {d}
ForgetFullyRecorded(d) == full' = full \ {d}

\* A failed mark is a warning: prune then keeps the entry unless it is named. A
\* migration (no name to register) is done after it.
markFullyRecorded(p) ==
    /\ At(p, "mark")
    /\ \/ MarkFullyRecorded(proc[p].digest) /\ UNCHANGED faults
       \/ Fault /\ UNCHANGED full
    /\ IF proc[p].name = Absent THEN Leave(p) ELSE Become(p, "lookup")
    /\ UNCHANGED <<entries, pinners, rewritten, litter, repos, prune, lost, runs>>

\* registerComposedBase looks up what it replaces (warnStaleBaseUsers reports its users);
\* Register reads the whole lock, sets one entry of what it read, and writes it back.
\* RecordCompose then appends to the provenance log; the pin stands if that fails.
registerComposedBase(p) ==
    /\ At(p, "lookup")
    /\ proc' = [proc EXCEPT ![p].lock = lock[proc[p].root], ![p].pc = "sign"]
    /\ UNCHANGED <<cache, repos, prune, lost, runs, faults>>

Register(p) ==
    /\ At(p, "sign")
    /\ lock' = [lock EXCEPT ![proc[p].root] = [proc[p].lock EXCEPT ![proc[p].name] = proc[p].digest]]
    /\ Leave(p)
    /\ UNCHANGED <<cache, legacy, here, vm, prune, lost, runs, faults>>

composeBaseFromImage(p) ==
    \/ \E r \in Roots, n \in Names, d \in Digests : Compose(p, r, n, d)
    \/ HoldShared(p) \/ Commit(p) \/ recordComposedPin(p) \/ markFullyRecorded(p)
    \/ registerComposedBase(p) \/ Register(p)

----------------------------------------------------------------------------
(* `base set`: pins a directory by its path. It holds nothing.               *)

\* Where the operator's directory lies: inside the repository, inside a cache entry
\* (Owner climbs to the cache's marker, an entry's name, or a known root), or outside.
Places == {"outside", "repository"} \cup Digests
refuseInRepoBaseTree(place) == place # "repository"
refuseCachedBaseTree(place) == place \notin Digests

\* injectGuestBinaries writes mgit and mgit-guest into the tree it is given.
injectGuestBinaries(place) == rewritten' = rewritten \cup ({place} \cap Digests)

setRepoGuestBase(r, place) ==
    /\ runs < MaxRuns /\ ownerSetupHostRoot(r)
    /\ place \in Digests => Has(place)
    /\ refuseInRepoBaseTree(place) /\ refuseCachedBaseTree(place)
    /\ injectGuestBinaries(place)
    /\ lock[r][Default] # Own
    /\ lock' = [lock EXCEPT ![r][Default] = Own]
    /\ runs' = runs + 1
    /\ UNCHANGED <<entries, full, pinners, litter, legacy, here, vm, proc, prune, lost, faults>>

----------------------------------------------------------------------------
(* migrateInTreeBase, run by `base from` and by a launch.                    *)

migrateInTreeBase(p, r) ==
    /\ At(p, "idle") /\ r \in here /\ LegacyInTreeBase(r) # Absent
    /\ \A q \in Procs : proc[q].root # r
    /\ ~HeldExclusive
    /\ proc' = [proc EXCEPT ![p] = [Idle EXCEPT !.pc = "adopt", !.root = r, !.digest = legacy[r]]]
    /\ UNCHANGED <<cache, repos, prune, lost, runs, faults>>

\* Drop the tree when its bytes are cached, else rename it into the cache; a rename
\* that fails (another filesystem) leaves it to be copied.
Adopt(p) ==
    LET r == proc[p].root  d == proc[p].digest IN
    /\ At(p, "adopt")
    /\ \/ /\ entries' = entries \cup {d}
          /\ legacy' = [legacy EXCEPT ![r] = Absent]
          /\ proc' = [proc EXCEPT ![p].dup = Has(d), ![p].pc = "repoint"]
       \/ ~Has(d) /\ Become(p, "drop") /\ UNCHANGED <<entries, legacy>>
    /\ UNCHANGED <<full, pinners, rewritten, litter, lock, here, vm, prune, lost, runs, faults>>

\* adoptByCopy: copy, publish under the digest already taken, drop the original. The
\* entry counts as this process's own even if another published it meanwhile.
adoptByCopy(p) ==
    /\ At(p, "drop")
    /\ entries' = entries \cup {proc[p].digest}
    /\ legacy' = [legacy EXCEPT ![proc[p].root] = Absent]
    /\ proc' = [proc EXCEPT ![p].dup = FALSE, ![p].pc = "repoint"]
    /\ UNCHANGED <<full, pinners, rewritten, litter, lock, here, vm, prune, lost, runs, faults>>

\* RepointToCache: every entry with the in-tree path is now located by its digest.
RepointToCache(p) ==
    LET r == proc[p].root
        repointed == {n \in Names : lock[r][n] = Tree} IN
    /\ At(p, "repoint")
    /\ lock' = [lock EXCEPT ![r] = [n \in Names |-> IF n \in repointed THEN proc[p].digest ELSE @[n]]]
    /\ CASE repointed # {} -> Become(p, "pin")
         [] repointed = {} /\ ~proc[p].dup -> Become(p, "mark")
         [] OTHER -> Leave(p)
    /\ UNCHANGED <<cache, legacy, here, vm, prune, lost, runs, faults>>

\* A pin that exists: a failed record withdraws the mark, if it can.
recordCachedPin(r, d) ==
    \/ RecordPinner(d, r) /\ UNCHANGED <<full, lost, faults>>
    \/ /\ Fault
       /\ r \notin pinners[d]
       /\ ForgetFullyRecorded(d) \/ UNCHANGED full
       /\ lost' = lost \cup {<<r, d>>}
       /\ UNCHANGED pinners

MigrationRecords(p) ==
    LET r == proc[p].root  d == proc[p].digest IN
    /\ At(p, "pin")
    /\ recordCachedPin(r, d)
    /\ IF r \in pinners'[d] /\ ~proc[p].dup THEN Become(p, "mark") ELSE Leave(p)
    /\ UNCHANGED <<entries, rewritten, litter, repos, prune, runs>>

----------------------------------------------------------------------------
(* Launch and boot; crashes; repositories that move.                         *)

\* The launch of a repository whose pin is cached records it; a failure is a warning.
repoGuestBaseRef(r) ==
    /\ r \in here /\ LegacyInTreeBase(r) = Absent
    /\ lock[r][Default] \in Digests
    /\ r \notin pinners[lock[r][Default]]
    /\ recordCachedPin(r, lock[r][Default])
    /\ UNCHANGED <<entries, rewritten, litter, repos, proc, prune, runs>>

\* locateBase in the daemon: the bytes of the lock's digest, which must be here and
\* still hash to it. A base outside the cache is nobody else's and is not followed.
locateBase(r) ==
    /\ r \in here /\ vm[r] = NoBox
    /\ Has(lock[r][Default]) /\ lock[r][Default] \notin rewritten
    /\ vm' = [vm EXCEPT ![r].base = lock[r][Default]]
    /\ UNCHANGED <<cache, lock, legacy, here, proc, prune, lost, runs, faults>>

\* The service records the sandbox once the backend has launched it.
SandboxListed(r) ==
    /\ vm[r].base # Absent /\ ~vm[r].listed
    /\ vm' = [vm EXCEPT ![r].listed = TRUE]
    /\ UNCHANGED <<cache, lock, legacy, here, proc, prune, lost, runs, faults>>

SandboxEnds(r) ==
    /\ vm[r].base # Absent
    /\ vm' = [vm EXCEPT ![r] = NoBox]
    /\ UNCHANGED <<cache, lock, legacy, here, proc, prune, lost, runs, faults>>

\* A command dies. A migration that had repointed its lock leaves the pin unrecorded.
Crash(p) ==
    /\ ~At(p, "idle") /\ Fault
    /\ Leave(p)
    /\ lost' = IF At(p, "pin") THEN lost \cup {<<proc[p].root, proc[p].digest>>} ELSE lost
    /\ litter' = (litter \/ proc[p].pc \in {"staged", "commit", "drop"})
    /\ UNCHANGED <<entries, full, pinners, rewritten, repos, prune, runs>>

MoveRoot(r) ==
    /\ Fault
    /\ vm[r] = NoBox /\ \A p \in Procs : proc[p].root # r
    /\ here' = here \ {r}
    /\ r \in here
    /\ UNCHANGED <<cache, lock, legacy, vm, proc, prune, lost, runs>>

MoveBack(r) ==
    /\ r \notin here
    /\ here' = here \cup {r}
    /\ UNCHANGED <<cache, lock, legacy, vm, proc, prune, lost, runs, faults>>

----------------------------------------------------------------------------
(* `base prune`: Plan, then removeIfStill for each removable entry.          *)

\* liveSandboxes: what the live daemons answer, the repositories they serve and the
\* bases their sandboxes occupy. One that is silent fails the whole answer.
occupiesBase(r) == vm[r].base # Absent /\ vm[r].listed
liveDigests == {vm[r].base : r \in {q \in Roots : occupiesBase(q)}}
liveRoots == {r \in Roots : vm[r].base # Absent}
liveSandboxes(err) == [prune EXCEPT !.pc = "remove", !.err = err,
                                    !.live = IF err THEN {} ELSE liveDigests,
                                    !.roots = IF err THEN {} ELSE liveRoots]

\* The repositories a daemon serves, and every root recorded against any entry.
look(roots) == roots \cup UNION {pinners[d] : d \in entries}

pinnerState(r, d, unread) ==
    CASE r \notin here -> "gone"
      [] r \in here /\ r \in unread -> "unreadable"
      [] OTHER -> IF d \in CachedPins(r) THEN "pins" ELSE "re-pinned"

\* The roots in each state: recorded ones, and known ones nobody recorded against d. A
\* recorded root that is gone counts until the operator releases it.
readPinners(d, known, released, unread) ==
    LET In(state, roots) == {r \in roots : pinnerState(r, d, unread) = state} IN
    [live |-> In("pins", pinners[d] \cup known), unread |-> In("unreadable", pinners[d] \cup known),
     gone |-> In("gone", pinners[d]) \ released]

\* The mutant trusts every record, marked or not.
judgeTrusting(d, v) ==
    LET r == readPinners(d, look(v.roots), v.released, v.unread) IN
    CASE r.live # {} -> "pinned"
      [] r.live = {} /\ (r.unread # {} \/ r.gone # {} \/ v.err) -> "cannot tell"
      [] r.live = {} /\ r.unread = {} /\ r.gone = {} /\ ~v.err /\ d \in v.live -> "in use"
      [] OTHER -> "prunable"

\* In the code's order: a live pin, an unreadable or missing pinner, a silent daemon, a
\* sandbox, the fully-recorded mark.
judge(d, v) ==
    LET r == readPinners(d, look(v.roots), v.released, v.unread) IN
    CASE r.live # {} -> "pinned"
      [] r.live = {} /\ (r.unread # {} \/ r.gone # {} \/ v.err) -> "cannot tell"
      [] r.live = {} /\ r.unread = {} /\ r.gone = {} /\ ~v.err /\ d \in v.live -> "in use"
      [] r.live = {} /\ r.unread = {} /\ r.gone = {} /\ ~v.err /\ d \notin v.live /\ d \notin full -> "pinner unknown"
      [] OTHER -> "prunable"

removable(verdict, isNamed) == verdict = "prunable" \/ (verdict = "pinner unknown" /\ isNamed)

\* Only an entry in the cache and not fully recorded may be named.
checkNamed(named) == named \subseteq entries \ full

Plan(named, released) ==
    /\ prune.pc = "idle" /\ runs < MaxRuns
    /\ checkNamed(named)
    /\ LET v == [roots |-> liveRoots, live |-> liveDigests, released |-> released, unread |-> {}, err |-> FALSE]
           todo == {d \in entries : removable(judge(d, v), d \in named)} IN
         /\ todo # {}
         /\ prune' = [NoPrune EXCEPT !.pc = "next", !.todo = todo, !.named = named, !.released = released]
    /\ runs' = runs + 1
    /\ UNCHANGED <<cache, repos, proc, lost, faults>>

HoldExclusive ==
    /\ prune.pc = "next" /\ ~HeldShared
    /\ prune' = [prune EXCEPT !.pc = "ask"]
    /\ UNCHANGED <<cache, repos, proc, lost, runs, faults>>

InUse ==
    /\ prune.pc = "ask"
    /\ \E err \in BOOLEAN : prune' = liveSandboxes(err)
    /\ UNCHANGED <<cache, repos, proc, lost, runs, faults>>

\* The verdict again, under the exclusive hold, and the removal. The records and the
\* mark stay. Whoever pins a removed entry unrecorded was removed by name.
removeIfStill ==
    /\ prune.pc = "remove"
    /\ \E d \in prune.todo, unread \in SUBSET Roots :
         LET v == [roots |-> prune.roots, live |-> prune.live, released |-> prune.released,
                   unread |-> unread, err |-> prune.err]
             gone == Has(d) /\ removable(judge(d, v), d \in prune.named)
             rest == prune.todo \ {d} IN
         /\ entries' = IF gone THEN entries \ {d} ELSE entries
         /\ rewritten' = IF gone THEN rewritten \ {d} ELSE rewritten
         /\ lost' = IF gone THEN lost \cup {<<r, d>> : r \in {q \in Roots : d \in CachedPins(q)}} ELSE lost
         /\ prune' = IF rest = {} THEN NoPrune
                     ELSE [prune EXCEPT !.pc = "next", !.todo = rest, !.live = {}, !.roots = {}, !.err = FALSE]
    /\ UNCHANGED <<full, pinners, litter, repos, proc, runs, faults>>

Apply ==
    \/ \E named \in SUBSET Digests, released \in SUBSET Roots : Plan(named, released)
    \/ HoldExclusive \/ InUse \/ removeIfStill

Next ==
    \/ \E p \in Procs : \/ composeBaseFromImage(p)
                        \/ \E r \in Roots : migrateInTreeBase(p, r)
                        \/ Adopt(p) \/ adoptByCopy(p) \/ RepointToCache(p) \/ MigrationRecords(p)
                        \/ Crash(p)
    \/ \E r \in Roots : \/ \E place \in Places : setRepoGuestBase(r, place)
                        \/ repoGuestBaseRef(r) \/ locateBase(r) \/ SandboxListed(r) \/ SandboxEnds(r)
                        \/ MoveRoot(r) \/ MoveBack(r)
    \/ Apply

Spec == Init /\ [][Next]_vars

----------------------------------------------------------------------------
TypeOK ==
    /\ entries \subseteq Digests /\ full \subseteq Digests /\ here \subseteq Roots
    /\ rewritten \subseteq entries /\ litter \in BOOLEAN
    /\ pinners \in [Digests -> SUBSET Roots]
    /\ lock \in [Roots -> [Names -> Digests \cup {Absent, Tree, Own}]]
    /\ legacy \in [Roots -> Digests \cup {Absent}]
    /\ vm \in [Roots -> [base : Digests \cup {Absent}, listed : BOOLEAN]]
    /\ \A p \in Procs : proc[p].pc \in Holding \cup {"idle", "staged"}
    /\ HeldExclusive => ~HeldShared

\* Nobody's base goes or changes under them. An entry a repository's lock pins is removed
\* only if that pin's record was lost to a fault, or the repository is gone and the
\* operator released it, or the pin is unrecorded and the operator named the entry. One a
\* sandbox occupied when the daemons were asked is never removed. And nothing ever writes
\* into an entry.
PinnedStep ==
    /\ rewritten' = {}
    /\ \A d \in entries \ entries', r \in Roots :
         /\ d \notin prune.live
         /\ (d \in CachedPins(r)) =>
               \/ <<r, d>> \in lost
               \/ r \notin here /\ r \in prune.released
               \/ r \notin pinners[d] /\ d \in prune.named
PinnedBasesKept == [][PinnedStep]_vars

\* What the comment on FullyRecorded says: it "reports whether every repository that
\* pins digest is known to have recorded itself". Between the repoint and the record of a
\* migration the pin exists unrecorded, under the shared hold.
FullyRecordedHolds ==
    ~HeldShared => \A d \in full, r \in Roots : d \in CachedPins(r) /\ Has(d) => r \in pinners[d]

\* What the comment on Register says: it writes the entry into images.lock "preserving
\* any other entries".
RegisterKeepsOthers ==
    [][\A r \in Roots, n \in Names :
          (lock[r][n] \in Digests /\ lock'[r][n] # lock[r][n] /\ lock'[r] # lock[r])
             => \E p \in Procs : proc[p].name = n \/ lock'[r][n] = Own]_vars
=============================================================================
