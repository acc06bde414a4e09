--------------------------- MODULE MCLightEntity ----------------------------
(* LightEntity and beside it the conversions it rests on, for TLC.  They   *)
(* share no state: one of them moves.  The tasks that write are            *)
(* interchangeable.                                                        *)
EXTENDS LightEntity, ProtocolCheck, TLC

Symmetry == Permutations(Writers)

LightAndWalkInit == Init /\ WalkInit

LightOrWalk ==
    /\ LightAndWalkInit
    /\ [][\/ WalkInit /\ Next /\ UNCHANGED input
          \/ Init /\ Walk /\ UNCHANGED vars]_<<vars, input>>

=============================================================================
