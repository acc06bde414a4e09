--------------------------- MODULE MCModuleConfig ---------------------------
(* ModuleConfig on small instances. *)
EXTENDS ModuleConfig, TLC

Symmetry == Permutations(Subs) \cup Permutations(Letters) \cup Permutations(Dialogs)

=============================================================================
