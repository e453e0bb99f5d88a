-------------------------- MODULE MCSandboxService --------------------------
(* SandboxService instantiated for TLC. *)
EXTENDS SandboxService, TLC

Symmetry == Permutations(Tasks) \cup Permutations(Worktrees)
              \cup Permutations(Ids) \cup Permutations(Handlers)
=============================================================================
