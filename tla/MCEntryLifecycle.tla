-------------------------- MODULE MCEntryLifecycle --------------------------
(* EntryLifecycle for TLC: two modules, one with two outputs.              *)
EXTENDS EntryLifecycle, TLC

CONSTANTS m1, m2, o1, o2, o3

ModuleOfValue == (o1 :> m1) @@ (o2 :> m1) @@ (o3 :> m2)
Symmetry == Permutations(Tasks)

=============================================================================
