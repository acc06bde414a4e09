---------------------------- MODULE ReloadService -----------------------------
(***************************************************************************)
(* What a config entry promises about its modules, without tasks, locks,   *)
(* snapshots, platforms or outputs.  However many changes and reloads are  *)
(* asked for, they are served in turn: the integration is stopped, then    *)
(* started anew for the modules the entry has at that moment, and those it *)
(* runs with never change otherwise.  A change of the modules is due until *)
(* such a start, unless it is made during one.                             *)
(* EntryLifecycle implements it (__init__.py).                             *)
(***************************************************************************)

CONSTANT Modules

VARIABLES
    wanted,     \* the modules of the entry
    running,    \* the modules the integration was last started for
    stage,      \* what the integration is doing
    due,        \* a reload has been asked for and is not served yet
    missed      \* the entry was changed during the start

svars == <<wanted, running, stage, due, missed>>

\* "down": waiting for the next attempt to start; "stuck": it cannot be stopped,
\* so that only a restart of Home Assistant helps.
Stages == {"down", "starting", "loaded", "stopping", "stuck"}

SInit ==
    /\ wanted \in SUBSET Modules
    /\ running = {} /\ stage = "down"
    /\ due = FALSE /\ missed = FALSE

ChangeModules ==
    /\ wanted' \in SUBSET Modules
    /\ \/ /\ stage \in {"loaded", "stopping", "stuck"}
          /\ due' \in BOOLEAN /\ (due \/ wanted' # wanted => due')
          /\ UNCHANGED missed
       \/ /\ stage = "starting"
          /\ missed' = TRUE
          /\ UNCHANGED due
       \/ /\ stage = "down"
          /\ UNCHANGED <<due, missed>>
    /\ UNCHANGED <<running, stage>>

AskReload == due' = TRUE /\ UNCHANGED <<wanted, running, stage, missed>>

\* A reload is served; another one may be due.
Served == due /\ due' \in BOOLEAN

Stop ==
    /\ stage = "loaded" /\ stage' \in {"stopping", "stuck"}
    /\ Served
    /\ UNCHANGED <<wanted, running, missed>>

Refuse == stage = "stuck" /\ Served /\ UNCHANGED <<wanted, running, stage, missed>>

Start ==
    /\ \/ stage = "stopping" /\ UNCHANGED due
       \/ stage = "down" /\ (Served \/ UNCHANGED due)
    /\ stage' = "starting"
    /\ running' = wanted /\ missed' = FALSE
    /\ UNCHANGED wanted

StartEnds ==
    /\ stage = "starting" /\ stage' \in {"loaded", "down"}
    /\ UNCHANGED <<wanted, running, due, missed>>

SNext == ChangeModules \/ AskReload \/ Stop \/ Refuse \/ Start \/ StartEnds

SSpec == SInit /\ [][SNext]_svars

STypeOK ==
    /\ wanted \in SUBSET Modules /\ running \in SUBSET Modules
    /\ stage \in Stages
    /\ due \in BOOLEAN /\ missed \in BOOLEAN

\* What runs is what is wanted, unless a reload is due or a change was missed.
RunsWhatIsWanted == stage = "loaded" /\ ~due /\ ~missed => running = wanted

=============================================================================
