--------------------------- MODULE MCBusLifecycle ---------------------------
(* BusLifecycle on small instances. *)
EXTENDS BusLifecycle, TLC

\* Handles are interchangeable.
Symmetry == Permutations(Handles)

=============================================================================
