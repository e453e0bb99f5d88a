---------------------------- MODULE SandboxRoster ----------------------------
(***************************************************************************)
(* What the sandbox service promises its clients, whatever daemon serves   *)
(* them: a roster of sandboxes that survives daemons, at most one per task *)
(* and one per worktree; an ID is used once; only a sandbox of the roster  *)
(* runs; a sandbox that leaves the roster never runs and never returns.    *)
(* SandboxService implements it, with the durable registry as the roster.  *)
(***************************************************************************)
CONSTANTS Tasks, Worktrees, Ids, None

VARIABLES
  task, worktree,  \* the binding of a sandbox, given once with its ID
  held,            \* the roster
  running          \* the sandboxes with a VM that serves them

vars == <<task, worktree, held, running>>

Init ==
  /\ task = [i \in Ids |-> None]
  /\ worktree = [i \in Ids |-> None]
  /\ held = {} /\ running = {}

Bind(i, t, w) ==
  /\ task[i] = None
  /\ task' = [task EXCEPT ![i] = t]
  /\ worktree' = [worktree EXCEPT ![i] = w]

(* A registration that succeeds, and one that only uses up its ID. *)
Register(i, t, w) ==
  /\ \A j \in held : task[j] # t /\ worktree[j] # w
  /\ Bind(i, t, w)
  /\ held' = held \cup {i}
  /\ UNCHANGED running

FailRegister(i, t, w) == Bind(i, t, w) /\ UNCHANGED <<held, running>>

Boot(i) ==
  /\ i \in held \ running
  /\ running' = running \cup {i}
  /\ UNCHANGED <<task, worktree, held>>

(* VMs stop: a suspend, a crash of the daemon, a teardown that fails late. *)
Halt(S) ==
  /\ running' = running \ S
  /\ UNCHANGED <<task, worktree, held>>

(* Sandboxes leave the roster, and others may stop in the same sweep. *)
End(S, H) ==
  /\ held' = held \ S
  /\ running' = running \ (S \cup H)
  /\ UNCHANGED <<task, worktree>>

Next ==
  \/ \E i \in Ids, t \in Tasks, w \in Worktrees : Register(i, t, w)
  \/ \E i \in Ids, t \in Tasks, w \in Worktrees : FailRegister(i, t, w)
  \/ \E i \in Ids : Boot(i)
  \/ \E S \in SUBSET running : Halt(S)
  \/ \E S \in SUBSET held, H \in SUBSET running : End(S, H)

Spec == Init /\ [][Next]_vars
==============================================================================
