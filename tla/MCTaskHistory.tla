---------------------------- MODULE MCTaskHistory ----------------------------
(* Instances of TaskHistory for TLC. *)
EXTENDS TaskHistory, TLC

CONSTANTS t1, t2, p, q, a, b, x

MCTasks     == {t1, t2}
MCPaths1    == {p}
MCPaths2    == {p, q}
MCContents2 == {a, b}
MCBytes2    == [e \in {a, b} |-> e]

Symmetry    == Permutations({t1, t2}) \cup Permutations({a, b})
==============================================================================
