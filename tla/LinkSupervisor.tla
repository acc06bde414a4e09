--------------------------- MODULE LinkSupervisor ---------------------------
(***************************************************************************)
(* What DobissController promises about its connection, without executor   *)
(* jobs, handles or notifiers: it listens, waits after a loss, retries     *)
(* once per wait, waits longer after each failed retry up to a ceiling,    *)
(* and raises the alarm (the repair issue) exactly at that ceiling.        *)
(* BusLifecycle implements it (controller.py, _read_loop).                 *)
(***************************************************************************)
EXTENDS Naturals

CONSTANTS DelayInitial, DelayMax

VARIABLES
    phase,      \* what the controller is doing
    delay,      \* how long the next wait is
    alarm       \* the repair issue is raised

svars == <<phase, delay, alarm>>

Phase == {"starting", "listening", "waiting", "retrying", "stopping", "stopped"}

Doubled == IF delay * 2 < DelayMax THEN delay * 2 ELSE DelayMax

SInit == phase = "starting" /\ delay = DelayInitial /\ alarm = FALSE

Listen ==
    /\ phase = "starting" /\ phase' = "listening"
    /\ delay' = DelayInitial
    /\ UNCHANGED alarm

Lose ==
    /\ phase = "listening" /\ phase' = "waiting"
    /\ UNCHANGED <<delay, alarm>>

Retry ==
    /\ phase = "waiting" /\ phase' = "retrying"
    /\ UNCHANGED <<delay, alarm>>

Regain ==
    /\ phase = "retrying" /\ phase' = "listening"
    /\ delay' = DelayInitial
    /\ alarm' = FALSE

\* A retry that fails after the bus was opened goes back to listening on it.
Fail ==
    /\ phase = "retrying" /\ phase' \in {"waiting", "listening"}
    /\ delay' = Doubled
    /\ alarm' = (Doubled = DelayMax)

Stop ==
    /\ \/ phase # "stopped" /\ phase' = "stopped"
       \/ phase \notin {"stopping", "stopped"} /\ phase' = "stopping"
    /\ UNCHANGED <<delay, alarm>>

Restart ==
    /\ phase = "stopped" /\ phase' = "starting"
    /\ delay' = DelayInitial
    /\ alarm' = FALSE

SNext == Listen \/ Lose \/ Retry \/ Regain \/ Fail \/ Stop \/ Restart

\* A wait ends, a retry comes to a result, a start and a stop finish.
SFairness == /\ WF_svars((phase = "waiting") /\ (Retry \/ Stop))
             /\ WF_svars((phase = "retrying") /\ (Regain \/ Fail \/ Stop))
             /\ WF_svars((phase = "starting") /\ (Listen \/ Stop))
             /\ WF_svars((phase = "stopping") /\ Stop)

SSafe == SInit /\ [][SNext]_svars

SSpec == SSafe /\ SFairness

=============================================================================
