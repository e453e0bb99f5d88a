------------------------------ MODULE MCLanding ------------------------------
(* Instances of Landing for TLC. *)
EXTENDS Landing, TLC

CONSTANTS c1, c2, p, q, a, b

MCCallers1  == {c1}
MCCallers2  == {c1, c2}
Symmetry    == Permutations({c1, c2})
MCPaths1    == {p}
MCPaths2    == {p, q}
MCContents1 == {a}
MCContents2 == {a, b}
==============================================================================
