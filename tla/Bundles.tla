------------------------------ MODULE Bundles -------------------------------
(***************************************************************************)
(* `mgit import`: the task-commit records of one repository carried to     *)
(* another in a bundle (internal/service/bundle.go).  A bundle is exported *)
(* from the source's index, travels as a file that may be damaged, and is  *)
(* imported one row per transaction, under the repository's lock, by a     *)
(* command that may be killed between two rows and run again.  Imported    *)
(* rows have no origin of their own here: the content reads refuse them.   *)
(***************************************************************************)
EXTENDS Naturals, FiniteSets, SequencesExt

CONSTANTS Tasks,
          MaxCommits,   \* bound on the commits made in both repositories
          MaxExports,   \* bound on the exports
          MaxImports    \* bound on the imports started

VARIABLES there, here,  \* the rows of task_commits of the source and of this repository
          file,         \* the bundle last exported, as the file holds it
          pc,           \* the import: idle | insert
          mode, read, left, imported, skipped,  \* its mode, the bundle it read, the rows to insert, its counts
          result,       \* what the last import reported
          committed,    \* history: the commits made here
          exports, imports

vars == <<there, here, file, pc, mode, read, left, imported, skipped, result, committed, exports, imports>>

RowOf(t, h, n, sb, origin) == [task |-> t, hash |-> h, position |-> n, sandbox |-> sb, origin |-> origin]

\* GetTaskCommits: a task's rows by position.
GetTaskCommits(rows, t) ==
  SortSeq(SelectSeq(rows, LAMBDA r : r.task = t), LAMBDA a, b : a.position < b.position)

\* The records as the bundle carries them: without the local admissions.
Record(r) == [r EXCEPT !.origin = ""]

\* The checksum covers every field of every record, in order.
canonicalChecksum(records) == records

Bundle(format, sum, count, records) ==
  [format |-> format, sum |-> sum, count |-> count, records |-> records]
NoFile == Bundle("none", <<>>, 0, <<>>)

\* Import's checks: format and version, checksum, count.
Verified(b) ==
  /\ b.format = "mgit-bundle"
  /\ canonicalChecksum(b.records) = b.sum
  /\ b.count = Len(b.records)

-----------------------------------------------------------------------------
(* Commits on either side.  A hash is fresh; the position is the number of *)
(* the task's rows.                                                         *)

\* The end of an import, and what is remembered of it.
Finish(why) ==
  /\ result' = why /\ pc' = "idle" /\ left' = <<>>
  /\ IF why = "imported" THEN UNCHANGED <<mode, read, imported, skipped>>
     ELSE mode' = "merge" /\ read' = NoFile /\ imported' = 0 /\ skipped' = 0

Fresh == Len(there) + Cardinality(committed) + 1

CommitThere(t, sb) ==
  /\ Fresh <= MaxCommits
  /\ there' = Append(there, RowOf(t, Fresh, Len(GetTaskCommits(there, t)), sb, "host"))
  /\ UNCHANGED <<here, file, pc, mode, read, left, imported, skipped, result, committed, exports, imports>>

\* AddCommitToTask, under the lock the import holds.
CommitHere(t) ==
  /\ pc = "idle" /\ Fresh <= MaxCommits
  /\ here' = Append(here, RowOf(t, Fresh, Len(GetTaskCommits(here, t)), "", "host"))
  /\ committed' = committed \cup {Fresh}
  /\ Finish("none")
  /\ UNCHANGED <<there, file, exports, imports>>

Export(tasks) ==
  /\ exports < MaxExports /\ exports' = exports + 1
  /\ LET records == FlattenSeq([i \in DOMAIN tasks |->
                      [j \in DOMAIN GetTaskCommits(there, tasks[i]) |-> Record(GetTaskCommits(there, tasks[i])[j])]])
     IN file' = Bundle("mgit-bundle", canonicalChecksum(records), Len(records), records)
  /\ UNCHANGED <<there, here, pc, mode, read, left, imported, skipped, result, committed, imports>>

\* The file is cut short or altered on its way.
Damage(d) ==
  /\ Verified(file) /\ file.records # <<>>
  /\ file' = CASE d = "torn"    -> NoFile
               [] d = "record"  -> [file EXCEPT !.records[1].sandbox = "altered"]
               [] d = "dropped" -> [file EXCEPT !.records = Tail(@)]
               [] d = "count"   -> [file EXCEPT !.count = @ + 1]
  /\ UNCHANGED <<there, here, pc, mode, read, left, imported, skipped, result, committed, exports, imports>>

-----------------------------------------------------------------------------
(* Import.                                                                  *)

\* Replace only goes ahead when no task of the bundle has a row here.
Probe(m, b) ==
  m = "replace" => \A i \in DOMAIN b.records : GetTaskCommits(here, b.records[i].task) = <<>>

importCmd(m) ==
  /\ pc = "idle" /\ imports < MaxImports /\ imports' = imports + 1
  /\ IF Verified(file) /\ Probe(m, file)
     THEN /\ pc' = "insert" /\ mode' = m /\ read' = file /\ left' = file.records
          /\ imported' = 0 /\ skipped' = 0 /\ result' = "none"
     ELSE /\ result' = IF Verified(file) THEN "refused" ELSE "damaged"
          /\ UNCHANGED <<pc, mode, read, left, imported, skipped>>
  /\ UNCHANGED <<there, here, file, committed, exports>>

\* The UNIQUE(task_id, commit_hash) constraint.
Duplicate(r) == \E i \in DOMAIN here : here[i].task = r.task /\ here[i].hash = r.hash

isDuplicateInsert(r) == Duplicate(r)

\* An Imported row that claims to have been committed here.
ImportedAsHost(r) == [r EXCEPT !.origin = "host"]

\* The record with its sandbox and its position, and no origin.
Imported(r) == r

\* One row, in a transaction of its own.
Insert ==
  /\ pc = "insert"
  /\ IF left = <<>> THEN Finish("imported") /\ UNCHANGED here
     ELSE LET r == Head(left) IN
       \/ /\ ~Duplicate(r) /\ here' = Append(here, Imported(r))
          /\ imported' = imported + 1 /\ left' = Tail(left)
          /\ UNCHANGED <<pc, mode, read, result, skipped>>
       \/ /\ Duplicate(r) /\ mode = "merge" /\ isDuplicateInsert(r)
          /\ skipped' = skipped + 1 /\ left' = Tail(left)
          /\ UNCHANGED <<here, pc, mode, read, result, imported>>
       \/ /\ Duplicate(r) /\ ~(mode = "merge" /\ isDuplicateInsert(r))
          /\ Finish("failed") /\ UNCHANGED here
  /\ UNCHANGED <<there, file, committed, exports, imports>>

\* The command is killed between two rows.
Kill ==
  /\ pc = "insert" /\ Finish("none")
  /\ UNCHANGED <<there, here, file, committed, exports, imports>>

-----------------------------------------------------------------------------
\* GetContentCommits: a task with a row of unknown origin is refused as a
\* whole, otherwise its delivered rows are read.
GetContentCommits(t) ==
  LET rows == GetTaskCommits(here, t)
  IN IF \E i \in DOMAIN rows : rows[i].origin = "" THEN <<>> ELSE rows

Init ==
  /\ there = <<>> /\ here = <<>> /\ file = NoFile
  /\ pc = "idle" /\ mode = "merge" /\ read = NoFile /\ left = <<>> /\ imported = 0 /\ skipped = 0
  /\ result = "none" /\ committed = {} /\ exports = 0 /\ imports = 0

Next ==
  \/ \E t \in Tasks : CommitHere(t) \/ \E sb \in {"", "sb"} : CommitThere(t, sb)
  \/ \E tasks \in {<<t>> : t \in Tasks} \cup {SetToSeq(Tasks)} : Export(tasks)
  \/ \E d \in {"torn", "record", "dropped", "count"} : Damage(d)
  \/ \E m \in {"merge", "replace"} : importCmd(m)
  \/ Insert \/ Kill

Spec == Init /\ [][Next]_vars

-----------------------------------------------------------------------------
\* No commit has two rows under one task.
TypeOK ==
  /\ pc \in {"idle", "insert"} /\ mode \in {"merge", "replace"}
  /\ result \in {"none", "imported", "refused", "damaged", "failed"}
  /\ \A i, j \in DOMAIN here : here[i].task = here[j].task /\ here[i].hash = here[j].hash => i = j
  /\ exports \in 0..MaxExports /\ imports \in 0..MaxImports

\* An import that went past its checks does not fail, and one that reports
\* success has every record of the bundle in the index, with its sandbox and its
\* position, counted once, whatever an import killed half way left behind
\* (Import inserts row by row and skips duplicates); a replace leaves nothing
\* else under the bundle's tasks.
ImportConverges ==
  /\ result # "failed"
  /\ result = "imported" =>
       /\ \A i \in DOMAIN read.records :
            \E j \in DOMAIN here : Record(here[j]) = read.records[i]
       /\ imported + skipped = read.count
       /\ mode = "replace" => \A i \in DOMAIN read.records : LET t == read.records[i].task IN
            GetTaskCommits(here, t) = SelectSeq(read.records, LAMBDA r : r.task = t)

\* What a content read returns was committed in this repository: imported rows
\* are in the audit and are never content (AppendTaskCommit records no origin
\* for them, GetContentCommits refuses the task).
ContentIsLocal ==
  \A t \in Tasks : \A i \in DOMAIN GetContentCommits(t) : GetContentCommits(t)[i].hash \in committed

\* An import can be trusted: it converges over interruptions, and what it brings
\* is on record without becoming content (BundleService.Import).
ImportIsSound == ImportConverges /\ ContentIsLocal
=============================================================================
