----------------------------- MODULE IndexStore -----------------------------
(***************************************************************************)
(* Opening and appending to the SQLite index (internal/store/index).       *)
(* Several processes open one database at the same instant: each puts it   *)
(* in write-ahead mode, creates the tables, adds the columns an older      *)
(* database lacks and records the schema version.  The daemon then appends *)
(* lifecycle events whose ids (ULIDs: milliseconds, then a counter) give    *)
(* the order in which they are read back.                                  *)
(*                                                                         *)
(* SQLite is external: one writer at a time, a writer that finds the lock  *)
(* held waits (busy_timeout), except for the switch to write-ahead mode,   *)
(* which is refused at once.                                               *)
(***************************************************************************)
EXTENDS Naturals, FiniteSets

CONSTANTS Procs,        \* the processes that open the database
          Daemons,      \* those of them that append events, one at a time
          Sandboxes,
          None,
          MaxEvents,    \* bound on the events
          MaxTime,      \* bound on the clock
          MaxFaults     \* bound on kills and exhausted waits

VARIABLES mode,      \* the journal mode: "delete" | "wal"
          tables,    \* what made the tables: "none", an "old" version or "this" one
          cols,      \* the added columns that exist
          versions,  \* how many rows of schema_version are at the current version
          writer,    \* the process that holds SQLite's write lock
          pc,        \* where a process is in New
          clock, ulid,  \* the clock; ulidLastMs and the entropy's counter
          taken,     \* the id and the event a caller is about to insert, by sandbox
          derived,   \* the state-bearing event with the greatest id, by sandbox, and
                     \* whether the present daemon wrote it
          latest,    \* history: the event appended last, by sandbox
          behind,    \* history: the sandboxes whose latest event has a millisecond no
                     \* greater than one of an event of an earlier daemon
          events, faults

opening == <<mode, tables, cols, versions, writer>>
appending == <<clock, ulid, taken, derived, latest, behind, events>>
vars == <<opening, pc, appending, faults>>

Columns == {"sandbox_id", "fork_base"}
\* An id: milliseconds, then entropy, random at first in each process and millisecond.
Low == 0
High == MaxEvents
Id(u) == u.ms * (2 * MaxEvents + 1) + u.entropy
Ms(id) == id \div (2 * MaxEvents + 1)
Start == [ms |-> 0, entropy |-> Low]
Nothing == [id |-> 0, event |-> None]
EventTypes == {"launched", "destroyed"}

Goto(p, s) == pc' = [pc EXCEPT ![p] = s]

-----------------------------------------------------------------------------
(* New: pools, pragmas, migration.                                          *)

\* A daemon opens only once the one before it is gone.
New(p) ==
  /\ pc[p] = "out"
  /\ p \in Daemons => \A q \in Daemons : pc[q] \in {"out", "failed"}
  /\ Goto(p, "pragmas")
  /\ IF p \in Daemons
       THEN ulid' = Start /\ derived' = [b \in Sandboxes |-> [derived[b] EXCEPT !.own = FALSE]]
       ELSE UNCHANGED <<ulid, derived>>
  /\ UNCHANGED <<opening, clock, taken, latest, behind, events, faults>>

\* The mode is read first, whoever set it; a refused switch is tried again.
setJournalModeWAL(p) ==
  /\ pc[p] = "pragmas"
  /\ \/ mode = "wal" /\ Goto(p, "tables") /\ UNCHANGED writer
     \/ mode # "wal" /\ writer = None /\ Goto(p, "convert") /\ writer' = p
  /\ UNCHANGED <<mode, tables, cols, versions, appending, faults>>

\* The wait for the lock, in the switch or in a write, outlasts its budget.
walRetryBudget(p) ==
  /\ pc[p] \in {"pragmas", "tables", "add sandbox_id", "add fork_base", "indexes", "stamp"}
  /\ writer \notin {None, p} /\ faults < MaxFaults
  /\ faults' = faults + 1
  /\ Goto(p, "failed")
  /\ UNCHANGED <<opening, appending>>

Converted(p) ==
  /\ pc[p] = "convert" /\ mode' = "wal" /\ writer' = None
  /\ Goto(p, "tables")
  /\ UNCHANGED <<tables, cols, versions, appending, faults>>

\* Every connection runs the pragmas, busy_timeout first, before a pool hands
\* it out.
Connect(p) == setJournalModeWAL(p) \/ Converted(p) \/ walRetryBudget(p)

\* A write statement of the migration: waits for the lock, then takes effect.
BusyTimeout(p) ==
  /\ pc[p] \in {"tables", "add sandbox_id", "add fork_base", "indexes", "stamp"}
  /\ writer = None /\ writer' = p
  /\ UNCHANGED <<mode, tables, cols, versions, pc, appending, faults>>

createTables(p) ==
  /\ pc[p] = "tables" /\ writer = p /\ writer' = None
  /\ tables' = IF tables = "none" THEN "this" ELSE tables
  /\ cols' = IF tables = "none" THEN Columns ELSE cols
  /\ Goto(p, "see sandbox_id")
  /\ UNCHANGED <<mode, versions, appending, faults>>

\* The column is looked up on the read pool and added on the write pool; a
\* column that is there by then is an error.
ensureColumn(p, col, see, add, after) ==
  \/ /\ pc[p] = see
     /\ Goto(p, IF col \in cols THEN after ELSE add)
     /\ UNCHANGED <<opening, appending, faults>>
  \/ /\ pc[p] = add /\ writer = p /\ writer' = None
     /\ IF col \in cols THEN Goto(p, "failed") /\ UNCHANGED cols
                        ELSE Goto(p, after) /\ cols' = cols \cup {col}
     /\ UNCHANGED <<mode, tables, versions, appending, faults>>

\* Indexes, then a version row when the recorded version is behind.
stampVersion(p) ==
  \/ /\ pc[p] = "indexes" /\ writer = p /\ writer' = None
     /\ Goto(p, "see version")
     /\ UNCHANGED <<mode, tables, cols, versions, appending, faults>>
  \/ /\ pc[p] = "see version"
     /\ Goto(p, IF versions = 0 THEN "stamp" ELSE "open")
     /\ UNCHANGED <<opening, appending, faults>>
  \/ /\ pc[p] = "stamp" /\ writer = p /\ writer' = None
     /\ versions' = versions + 1 /\ Goto(p, "open")
     /\ UNCHANGED <<mode, tables, cols, appending, faults>>

migrate(p) ==
  \/ BusyTimeout(p) \/ createTables(p)
  \/ ensureColumn(p, "sandbox_id", "see sandbox_id", "add sandbox_id", "see fork_base")
  \/ ensureColumn(p, "fork_base", "see fork_base", "add fork_base", "indexes")
  \/ stampVersion(p)

\* Close, or the command that reported the failure ends.
Close(p) ==
  /\ pc[p] \in {"open", "failed"}
  /\ p \in Daemons => \A b \in Sandboxes : taken[b] = Nothing
  /\ Goto(p, "out")
  /\ UNCHANGED <<opening, appending, faults>>

\* A killed process leaves its lock to SQLite, which drops it.
Kill(p) ==
  /\ pc[p] \notin {"out", "failed"} /\ faults < MaxFaults
  /\ faults' = faults + 1
  /\ Goto(p, "out")
  /\ writer' = IF writer = p THEN None ELSE writer
  /\ taken' = IF p \in Daemons THEN [b \in Sandboxes |-> Nothing] ELSE taken
  /\ UNCHANGED <<mode, tables, cols, versions, clock, ulid, derived, latest, behind, events>>

-----------------------------------------------------------------------------
(* AppendSandboxEvent.                                                      *)

\* The clock steps either way, while a daemon runs and while none does.
Tick ==
  /\ clock' \in 1..MaxTime /\ clock' # clock
  /\ UNCHANGED <<opening, pc, ulid, taken, derived, latest, behind, events, faults>>

Drawn(ms) ==
  IF ms = ulid.ms THEN ulid' = [ulid EXCEPT !.entropy = @ + 1]
  ELSE \E e \in {Low, High} : ulid' = [ms |-> ms, entropy |-> e]

\* Mutant of newULID: it takes the clock as it is.
newULIDUnclamped(ms) == Drawn(ms)

\* The milliseconds never go back; within one the entropy goes up.
newULID(ms) == Drawn(IF ms < ulid.ms THEN ulid.ms ELSE ms)

\* The id is drawn before the transaction; the callers of two sandboxes may
\* insert in the other order, those of one take turns (the service's control).
AppendSandboxEvent(b, ev) ==
  /\ \E d \in Daemons : pc[d] = "open"
  /\ taken[b] = Nothing /\ events < MaxEvents
  /\ newULID(clock)
  /\ taken' = [taken EXCEPT ![b] = [id |-> Id(ulid'), event |-> ev]]
  /\ events' = events + 1
  /\ UNCHANGED <<opening, pc, clock, derived, latest, behind, faults>>

\* An egress record draws from the same ids; its row is in another table.
AppendEgressRecord ==
  /\ \E d \in Daemons : pc[d] = "open"
  /\ events < MaxEvents /\ events' = events + 1
  /\ newULID(clock)
  /\ UNCHANGED <<opening, pc, clock, taken, derived, latest, behind, faults>>

\* The insert; ListSandboxEvents and DeriveState read ORDER BY id.
WriteTx(b) ==
  /\ taken[b] # Nothing
  /\ taken' = [taken EXCEPT ![b] = Nothing]
  /\ IF taken[b].id > derived[b].id
       THEN derived' = [derived EXCEPT ![b] = [id |-> taken[b].id, event |-> taken[b].event, own |-> TRUE]]
       ELSE UNCHANGED derived
  /\ latest' = [latest EXCEPT ![b] = taken[b].event]
  /\ behind' = IF ~derived[b].own /\ Ms(taken[b].id) <= Ms(derived[b].id)
                 THEN behind \cup {b} ELSE behind \ {b}
  /\ UNCHANGED <<opening, pc, clock, ulid, events, faults>>

-----------------------------------------------------------------------------
Init ==
  /\ mode \in {"delete", "wal"}
  /\ \/ tables = "none" /\ cols = {} /\ versions = 0
     \/ tables = "this" /\ cols = Columns /\ versions = 1 /\ mode = "wal"
     \/ tables = "old" /\ cols \in {{}, {"sandbox_id"}} /\ versions = 0
  /\ writer = None
  /\ pc = [p \in Procs |-> "out"]
  /\ clock = 1 /\ ulid = Start
  /\ taken = [b \in Sandboxes |-> Nothing]
  /\ derived = [b \in Sandboxes |-> [id |-> 0, event |-> None, own |-> FALSE]]
  /\ latest = [b \in Sandboxes |-> None] /\ behind = {}
  /\ events = 0 /\ faults = 0

Next ==
  \/ \E p \in Procs : New(p) \/ Connect(p) \/ migrate(p) \/ Close(p) \/ Kill(p)
  \/ Tick \/ AppendEgressRecord
  \/ \E b \in Sandboxes : WriteTx(b) \/ \E ev \in EventTypes : AppendSandboxEvent(b, ev)

Spec == Init /\ [][Next]_vars

-----------------------------------------------------------------------------
\* The schema only has the columns the migration adds, and ids are ULIDs.
TypeOK ==
  /\ mode \in {"delete", "wal"} /\ tables \in {"none", "old", "this"} /\ cols \subseteq Columns
  /\ versions \in 0..Cardinality(Procs) /\ writer \in Procs \cup {None}
  /\ clock \in 1..MaxTime /\ ulid \in [ms : 0..MaxTime, entropy : 0..2 * MaxEvents]
  /\ events \in 0..MaxEvents /\ faults \in 0..MaxFaults /\ behind \subseteq Sandboxes
  /\ \A b \in Sandboxes : latest[b] \in EventTypes \cup {None}

\* Concurrent opens of one index come up (setJournalModeWAL waits out a concurrent
\* converter, the migration a concurrent writer): an open fails only when a wait outlasted
\* its budget, or when it meets another on a database of an older version and that one
\* adds the column first (ensureColumn). One that comes up finds the whole schema, however
\* many migrate at once or die half way.
OpensSucceed ==
  \A p \in Procs :
    /\ pc[p] = "failed" => faults > 0 \/ (tables = "old" /\ cols # {})
    /\ pc[p] = "open" => mode = "wal" /\ cols = Columns /\ versions > 0

\* DeriveState reads a sandbox's latest event: the one with the greatest id is the one
\* appended last, though the clock goes back while the daemon runs (newULID) and though
\* callers insert in another order than they draw. A new daemon starts a clamp of its own:
\* only an event it writes at a millisecond no greater than one an earlier daemon wrote
\* may be read as the older.
DerivedIsLatest == \A b \in Sandboxes \ behind : derived[b].event = latest[b]

\* What the comment on ulidMu says of more than one process: "Cross-process ordering is
\* serialized by the single-writer pool plus the process-level file lock".
OrderedAcrossProcesses == \A b \in Sandboxes : derived[b].event = latest[b]

\* Opens come up with the whole schema, and reading by id is reading in the order of
\* appends (New, newULID).
OpensAndOrders == OpensSucceed /\ DerivedIsLatest
=============================================================================
