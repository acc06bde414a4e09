---------------------------- MODULE MCClockSync -----------------------------
(* Coordinator and the client it has the clock set by, SerialLink, for TLC: *)
(* a clock command and a download.  What the two share is one outcome of a  *)
(* command, which is any at the one and shown by the other: one of them     *)
(* moves.                                                                   *)
EXTENDS Coordinator, SerialLink, TLC

CONSTANTS setter, import

CommandOfThread == (setter :> "clock") @@ (import :> "names")

\* One of them stands where it begins, the coordinator with one of its values.
CoordinatorRests == CoordinatorInit /\ states = CHOOSE value \in Values : TRUE
LinkRests == Init

CoordinatorAndLinkInit == CoordinatorInit /\ Init

CoordinatorOrLink ==
    /\ CoordinatorAndLinkInit
    /\ [][\/ LinkRests /\ CoordinatorNext /\ UNCHANGED vars
          \/ CoordinatorRests /\ Next /\ UNCHANGED coordinatorVars]_<<coordinatorVars, vars>>

\* The fairness of each, while it is the one that moves.
FairCoordinatorOrLink ==
    /\ CoordinatorOrLink
    /\ WF_coordinatorVars(LinkRests /\ FlushState /\ UNCHANGED vars)
    /\ \A t \in Threads : WF_vars(CoordinatorRests /\ Working(t) /\ UNCHANGED coordinatorVars)

=============================================================================
