------------------------------ MODULE Snapshots ------------------------------
(***************************************************************************)
(* Passive worktree snapshots: the daemon's housekeeping pass fingerprints *)
(* the worktree of every sandbox, captures one that has settled as an      *)
(* orphan commit under refs/mgit-snapshots/<task>/, and prunes the oldest; *)
(* `mgit snapshot restore` writes a snapshot into a new directory.         *)
(*                                                                         *)
(* Nothing stops the worktree being edited while a pass walks it: each     *)
(* file is read in a step of its own.  One task and its worktree; a        *)
(* content is a version number, 0 a file that is absent.                   *)
(***************************************************************************)
EXTENDS Naturals, Sequences, FiniteSets, SequencesExt, FiniteSetsExt

CONSTANTS
    MaxVersion,     \* the editor writes versions 1 .. MaxVersion
    MaxEdits,       \* the edits of a behaviour
    MaxFaults,      \* failed calls, daemon restarts and steps back of the clock
    Keep,           \* DefaultSnapshotRetention (20)
    Reverts,        \* whether an edit may bring back an earlier content
    ClockSteps      \* whether the wall clock may step back

VARIABLES
    wt,         \* the worktree: the version each file holds
    past,       \* the contents the worktree has had
    edits,
    listed,     \* the task's sandbox is in the lister's answer
    watch,      \* snapshotWatcher.perTask: the task's taskWatch
    pass,       \* the pass in flight and what it has read
    refs,       \* refs/mgit-snapshots/<task>/<id>
    now,        \* the wall clock the ids are made from
    dest,       \* the directory a restore writes
    faults
vars == <<wt, past, edits, listed, watch, pass, refs, now, dest, faults>>

Files == {1, 2}
NoFiles == <<>>
Absent == 0
Trees == [Files -> 0 .. MaxVersion]
Empty == [f \in Files |-> Absent]
Unseen == [f \in Files |-> MaxVersion + 1]      \* no fingerprint: the zero string
NoWatch == [started |-> FALSE, seen |-> Unseen, captured |-> Unseen]
Idle == [at |-> "idle", paths |-> NoFiles, read |-> Empty, print |-> Unseen]
MaxClock == MaxEdits + MaxFaults + 3

Fault == faults < MaxFaults /\ faults' = faults + 1

Init ==
    /\ wt \in {Empty, [Empty EXCEPT ![1] = 1]} /\ past = {wt} /\ edits = 0
    /\ listed = FALSE /\ watch = NoWatch /\ pass = Idle
    /\ refs = {} /\ now = 1 /\ dest = Empty /\ faults = 0

-----------------------------------------------------------------------------
(* The agent, the sandbox's life, the clock.                               *)

Edit(f) ==
    /\ edits < MaxEdits /\ edits' = edits + 1
    /\ \E v \in 0 .. MaxVersion :
         /\ v # wt[f] /\ wt' = [wt EXCEPT ![f] = v]
         /\ Reverts \/ wt' \notin past
    /\ past' = past \cup {wt'}
    /\ UNCHANGED <<listed, watch, pass, refs, now, dest, faults>>

Launch == /\ ~listed /\ listed' = TRUE
          /\ UNCHANGED <<wt, past, edits, watch, pass, refs, now, dest, faults>>

\* Ids are ULIDs of the wall clock: later is greater until the clock is set back.
Free(id) == \A s \in refs : s.id # id
ClockStep == /\ ClockSteps /\ Fault /\ now' \in {t \in 1 .. now - 1 : Free(t)}
             /\ UNCHANGED <<wt, past, edits, listed, watch, pass, refs, dest>>

-----------------------------------------------------------------------------
(* The store.                                                              *)

listWorkingFiles == SetToSortSeq({f \in Files : wt[f] # Absent}, <)

collect == refs

\* Newest first.
List == SetToSortSeq(collect, LAMBDA s, t : s.id > t.id)

find(id) == {s \in collect : s.id = id}

newSnapshotID == now

writeSnapshotCommit(tree) == [id |-> newSnapshotID, tree |-> tree]

Prune(kept) == ToSet(SubSeq(List, kept + 1, Len(List)))

-----------------------------------------------------------------------------
(* One pass.  startSnapshotPass is single-flight: a tick that finds a pass *)
(* running is skipped.  Observe re-opens the worktree and rebinds the      *)
(* task's service, which keeps its watch.                                  *)

startSnapshotPass ==
    /\ pass = Idle /\ listed
    /\ pass' = [Idle EXCEPT !.at = "print", !.paths = listWorkingFiles]
    /\ UNCHANGED <<wt, past, edits, listed, watch, refs, now, dest, faults>>

Abandon == pass' = Idle

\* fingerprintPaths: one read a step; a listed file that is gone fails the pass.
fingerprintPaths(next) ==
    /\ pass.paths # NoFiles
    /\ LET f == Head(pass.paths) IN
         IF wt[f] = Absent
         THEN Abandon
         ELSE pass' = [pass EXCEPT !.at = next, !.paths = Tail(@), !.read[f] = wt[f]]
    /\ UNCHANGED <<wt, past, edits, listed, watch, refs, now, dest, faults>>

Fingerprint == pass.at = "print" /\ fingerprintPaths("print")

\* The watch's decision, and captureLocked's call to Capture, whose own
\* fingerprint is read next.
Observe ==
    /\ pass.at = "print" /\ pass.paths = NoFiles
    /\ IF watch.started /\ pass.read # watch.captured /\ pass.read = watch.seen
       THEN /\ pass' = [Idle EXCEPT !.at = "capture", !.paths = listWorkingFiles, !.print = pass.read]
            /\ UNCHANGED watch
       ELSE /\ watch' = [watch EXCEPT !.started = TRUE, !.seen = pass.read]
            /\ Abandon
    /\ UNCHANGED <<wt, past, edits, listed, refs, now, dest, faults>>

Capture ==
    \/ pass.at = "capture" /\ fingerprintPaths("capture")
    \/ /\ pass.at = "capture" /\ pass.paths = NoFiles
       /\ pass' = [pass EXCEPT !.at = "tree", !.paths = listWorkingFiles, !.read = Empty]
       /\ UNCHANGED <<wt, past, edits, listed, watch, refs, now, dest, faults>>

\* A file that vanished since the listing is left out of the tree.
writeWorkingTree ==
    /\ pass.at = "tree" /\ pass.paths # NoFiles
    /\ pass' = [pass EXCEPT !.paths = Tail(@), !.read[Head(pass.paths)] = wt[Head(pass.paths)]]
    /\ UNCHANGED <<wt, past, edits, listed, watch, refs, now, dest, faults>>

\* The ref is set last, then the watch is advanced to the fingerprint Observe read.
captureLockedAnyway ==
    /\ pass.at = "tree" /\ pass.paths = NoFiles
    /\ \/ /\ refs' = refs \cup {writeSnapshotCommit(pass.read)}
          /\ now' = now + 1 /\ UNCHANGED faults
       \/ Fault /\ UNCHANGED <<refs, now>>
    /\ watch' = [watch EXCEPT !.captured = pass.print]
    /\ pass' = [pass EXCEPT !.at = "prune"]
    /\ UNCHANGED <<wt, past, edits, listed, dest>>

captureLocked ==
    /\ pass.at = "tree" /\ pass.paths = NoFiles
    /\ \/ /\ now < MaxClock
          /\ refs' = refs \cup {writeSnapshotCommit(pass.read)}
          /\ now' = Min({t \in now + 1 .. MaxClock : Free(t)})
          /\ watch' = [watch EXCEPT !.captured = pass.print]
          /\ pass' = [pass EXCEPT !.at = "prune"]
          /\ UNCHANGED faults
       \/ Fault /\ Abandon /\ UNCHANGED <<refs, now, watch>>
    /\ UNCHANGED <<wt, past, edits, listed, dest>>

\* Retention; a failure is reported and the next capture prunes again.
Retain ==
    /\ pass.at = "prune" /\ Abandon
    /\ \/ refs' = refs \ Prune(Keep) /\ UNCHANGED faults
       \/ Fault /\ UNCHANGED refs
    /\ UNCHANGED <<wt, past, edits, listed, watch, now, dest>>

\* The daemon exits with the pass in flight and another starts: the watches
\* were in memory.
Restart ==
    /\ Fault /\ Abandon /\ watch' = NoWatch
    /\ UNCHANGED <<wt, past, edits, listed, refs, now, dest>>

-----------------------------------------------------------------------------
(* mgit snapshot restore                                                   *)

requireEmptyDir == dest = Empty

writeSnapshotFile(f, tree) == tree[f]

Materialize(id) ==
    /\ requireEmptyDir
    /\ \E s \in find(id) : dest' = [f \in Files |-> writeSnapshotFile(f, s.tree)]
    /\ UNCHANGED <<wt, past, edits, listed, watch, pass, refs, now, faults>>

snapshotRestoreCmd == \E s \in collect : Materialize(s.id)

observeTask == Fingerprint \/ Observe \/ Capture \/ writeWorkingTree \/ captureLocked \/ Retain

Next ==
    \/ \E f \in Files : Edit(f)
    \/ Launch \/ ClockStep \/ Restart
    \/ startSnapshotPass \/ observeTask
    \/ snapshotRestoreCmd

Spec == Init /\ [][Next]_vars

\* The housekeeping ticker keeps firing and a pass that runs keeps running.
FairSpec == Spec /\ WF_vars(startSnapshotPass) /\ WF_vars(observeTask) /\ WF_vars(Launch)

-----------------------------------------------------------------------------
TypeOK ==
    /\ wt \in Trees /\ dest \in Trees /\ past \subseteq Trees /\ now \in 1 .. MaxClock
    /\ watch.started \in BOOLEAN /\ (pass = Idle \/ pass.at \in {"print", "capture", "tree", "prune"})
    /\ \A s \in refs : s.tree \in Trees

(* Work that stays as it is ends up recoverable: from some point on, some   *)
(* snapshot holds exactly what the worktree holds.  Holds however the       *)
(* edits fall between the reads of a pass, and across failed captures,      *)
(* failed prunes and daemon restarts, as long as no edit brings back an     *)
(* earlier content and the clock only advances.                             *)
WorkIsSaved == \E s \in refs : s.tree = wt
QuietWorkIsSaved == <>[]WorkIsSaved
=============================================================================
