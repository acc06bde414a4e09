---------------------------- MODULE MCStateCache ----------------------------
(* StateCache on small instances. *)
EXTENDS StateCache, TLC

\* A single output that is switched on and off.
Switching == {[k \in {"light"} |-> v] : v \in {0, 1}}

\* A shutter: async_open_shutter, async_close_shutter and async_stop_shutter.
Moving == {[k \in {"up", "down"} |-> IF k = "up" THEN m[1] ELSE m[2]]
              : m \in {<<1, 0>>, <<0, 1>>, <<0, 0>>}}

Symmetry == Permutations(Writers) \cup Permutations(Refreshers)

=============================================================================
