-------------------------- MODULE MCConnectionFlow --------------------------
(* ConnectionFlow on small instances. *)
EXTENDS ConnectionFlow, TLC

Symmetry == Permutations(Entries) \cup Permutations(Flows) \cup Permutations(Gateways)

=============================================================================
