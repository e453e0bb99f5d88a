--------------------------- MODULE MCEgressControl ---------------------------
(* An instance of EgressControl for TLC: one name that resolves to every     *)
(* destination, and allow lists that name nothing or the name.               *)
EXTENDS EgressControl, TLC

CONSTANTS d1, n

MCLookup   == [m \in Names |-> Dests]
MCPolicies == {{}, {n}}
Symmetry   == Permutations(Setters)
==============================================================================
