--------------------------- MODULE EntryLifecycle ---------------------------
(***************************************************************************)
(* How changes of the configuration reach the running integration          *)
(* (__init__.py): setup, the update listener with its two kinds of reload, *)
(* unload.                                                                 *)
(*                                                                         *)
(* Home Assistant starts the listener as a task of its own for every       *)
(* change, so that several run at once; setup and reload of an entry are   *)
(* serialised by its setup_lock, unloading and forwarding its platforms by *)
(* the listener are not.  The five platforms are one unit here.            *)
(***************************************************************************)
EXTENDS Naturals, FiniteSets

CONSTANTS
    Modules,        \* modules, each with its dimmable flag
    Outputs,        \* outputs with a type: what has an entity of its own
    ModuleOf,       \* the module of each output
    Tasks,          \* tasks: listeners, reloads and setup retries
    None,
    MaxRequests     \* bound: changes and reloads that are asked for

ASSUME ModuleOfAssumption == ModuleOf \in [Outputs -> Modules]
ASSUME NoneUnused == None \notin Tasks
ASSUME RequestsAssumption == MaxRequests \in Nat

VARIABLES
    config,         \* the entry: its modules and their outputs
    prev,           \* prev_modules of the registered listener
    listening,      \* that listener is registered
    state,          \* the entry's state
    lock,           \* the holder of the entry's setup_lock
    task,           \* task[t]: where task t is suspended
    built,          \* modules the coordinator was made for
    ctrl,           \* the outputs in the controller's lists
    heard,          \* modules whose states the controller holds
    up,             \* the platforms' coordinator: "none", "current" or "gone"
    entities,       \* outputs with an entity
    registry,       \* outputs in the entity registry
    blind,          \* outputs whose entity was last rendered without a state
    requests,       \* how much has been asked for
    missed,         \* history: a change came without a listener and was not
                    \* pruned for, or came too late for the coordinator too
    clash           \* history: a full and a platform reload ran at once

entryVars == <<config, prev, listening, requests, clash>>
ctrlVars == <<built, ctrl, heard>>
entityVars == <<up, entities, registry, blind>>
vars == <<config, prev, listening, state, lock, task, built, ctrl, heard, up,
          entities, registry, blind, requests, missed, clash>>

Configs == {c \in [mods : SUBSET Modules, outs : SUBSET Outputs] :
                \A o \in c.outs : ModuleOf[o] \in c.mods}
States == {"setup", "forwarding", "loaded", "unloading", "retry", "failed_unload"}
FullSteps == {"want", "unload", "open", "forward", "finish"}
PlatformSteps == {"unloaded", "locked", "unlocked", "refresh"}
Steps == {"idle"} \cup FullSteps \cup PlatformSteps

Running(S) == \E t \in Tasks : task[t] \in S
Goto(t, step) == task' = [task EXCEPT ![t] = step]
ModulesOf(outs) == {ModuleOf[o] : o \in outs}
Unheard(outs) == {o \in outs : ModuleOf[o] \notin heard'}

-----------------------------------------------------------------------------
(* Platforms.                                                              *)

\* async_unload_platforms, whose result the listener does not look at.
UnloadPlatforms == up' = "none" /\ entities' = {} /\ blind' = {}

\* _prune_stale_entities.
Prune ==
    /\ registry' = registry \cap config'.outs
    /\ missed' = IF missed = "unpruned" THEN "none" ELSE missed

\* Setting up platforms that are up is refused, with a log entry.  Without the
\* entry's runtime_data their setup fails and they stay up without entities.
Forward ==
    IF up # "none" THEN UNCHANGED entityVars ELSE
    /\ up' = IF state = "setup" THEN "gone" ELSE "current"
    /\ entities' = IF state = "setup" THEN {} ELSE config.outs
    /\ registry' = registry \cup entities'
    /\ blind' = {o \in entities' : ModuleOf[o] \notin heard}

-----------------------------------------------------------------------------
(* Requests.                                                               *)

\* One change: a module or an output added or removed, or a name or a mood.
Successors == {c \in Configs :
                 /\ \/ Cardinality(c.mods \ config.mods) + Cardinality(config.mods \ c.mods) = 1
                       /\ c.outs = {o \in config.outs : ModuleOf[o] \in c.mods}
                    \/ c.mods = config.mods
                       /\ Cardinality(c.outs \ config.outs) + Cardinality(config.outs \ c.outs) <= 1}

\* The listener's first lines, up to the await of async_reload.
BeginFullReload(t) ==
    /\ prev' = config'.mods
    /\ Goto(t, "want")
    /\ Prune
    /\ clash' = (clash \/ Running(PlatformSteps))
    /\ UNCHANGED <<ctrlVars, up, entities, blind>>

RebuildLists == ctrl' = config'.outs

\* Mutant of BeginPlatformReload: nothing is pruned.
BeginWithoutPrune(t) ==
    /\ RebuildLists
    /\ UnloadPlatforms
    /\ Goto(t, "unloaded")
    /\ clash' = (clash \/ Running(FullSteps))
    /\ UNCHANGED <<prev, built, heard, registry, missed>>

\* ... or, for the other branch, up to the await of async_unload_platforms.
BeginPlatformReload(t) ==
    /\ RebuildLists
    /\ UnloadPlatforms
    /\ Goto(t, "unloaded")
    /\ Prune
    /\ clash' = (clash \/ Running(FullSteps))
    /\ UNCHANGED <<prev, built, heard>>

\* Mutant of NeedsFullReload: a removed module is not noticed.
NeedsFullReloadIfAdded == ~(config'.mods \subseteq prev)
NeedsFullReload == config'.mods # prev

Change(t) ==
    /\ requests < MaxRequests /\ requests' = requests + 1
    /\ task[t] = "idle"
    /\ config' \in Successors
    /\ \/ /\ listening /\ NeedsFullReload
          /\ BeginFullReload(t)
       \/ /\ listening /\ ~NeedsFullReload
          /\ BeginPlatformReload(t)
       \/ /\ ~listening
          /\ missed' = IF state # "retry" \/ missed = "unbuilt" THEN "unbuilt" ELSE "unpruned"
          /\ UNCHANGED <<prev, task, ctrlVars, entityVars, clash>>
    /\ UNCHANGED <<listening, state, lock>>

\* The connection is changed, which a listener compares with prev_conn.  One that
\* nobody hears is left out: what an open connects to is no state of this module.
Reconfigure(t) ==
    /\ requests < MaxRequests /\ requests' = requests + 1
    /\ task[t] = "idle" /\ listening
    /\ UNCHANGED <<config, listening, state, lock>>
    /\ BeginFullReload(t)

\* The user reloads the entry.
UserReloads(t) ==
    /\ requests < MaxRequests /\ requests' = requests + 1
    /\ task[t] = "idle"
    /\ Goto(t, "want")
    /\ clash' = (clash \/ Running(PlatformSteps))
    /\ UNCHANGED <<config, prev, listening, state, lock, ctrlVars, entityVars, missed>>

-----------------------------------------------------------------------------
(* The full reload: unload and setup under the entry's lock.               *)

\* The constructor of the coordinator.
MakeCoordinator ==
    /\ state' = "setup"
    /\ built' = config.mods /\ ctrl' = config.outs /\ heard' = {}
    /\ missed' = IF missed = "unbuilt" THEN "unpruned" ELSE missed

Lock(t) ==
    /\ task[t] = "want" /\ lock = None
    /\ \/ /\ state = "loaded" /\ up # "none"
          /\ lock' = t /\ Goto(t, "unload") /\ state' = "unloading"
          /\ UnloadPlatforms
          /\ UNCHANGED <<ctrlVars, registry, missed>>
       \/ /\ state = "loaded" /\ up = "none"      \* "was never loaded": False
          /\ state' = "failed_unload" /\ Goto(t, "idle")
          /\ UNCHANGED <<lock, ctrlVars, entityVars, missed>>
       \/ /\ state = "retry"
          /\ lock' = t /\ Goto(t, "open")
          /\ MakeCoordinator
          /\ UNCHANGED entityVars
       \/ /\ state = "failed_unload"
          /\ Goto(t, "idle")
          /\ UNCHANGED <<lock, state, ctrlVars, entityVars, missed>>
    /\ UNCHANGED entryVars

\* The old coordinator is shut down and the listener removed, then the new
\* coordinator is made.
Unload(t) ==
    /\ task[t] = "unload"
    /\ listening' = FALSE
    /\ up' = IF up = "none" THEN "none" ELSE "gone"
    /\ MakeCoordinator
    /\ Goto(t, "open")
    /\ UNCHANGED <<config, prev, lock, entities, registry, blind, requests, clash>>

\* Discovery hears the modules that answer in time.
Opens(t) ==
    /\ task[t] = "open"
    /\ state' = "forwarding" /\ heard' \in SUBSET ModulesOf(ctrl)
    /\ Goto(t, "forward")
    /\ UNCHANGED <<entryVars, lock, built, ctrl, entityVars, missed>>

\* ConfigEntryNotReady: Home Assistant tries again later.  Once the bus is open
\* the setup does not fail: the first refresh does so without a bus only.
OpenFails(t) ==
    /\ task[t] = "open"
    /\ state' = "retry" /\ lock' = None
    /\ Goto(t, "idle")
    /\ UNCHANGED <<entryVars, ctrlVars, entityVars, missed>>

RetryElapses(t) ==
    /\ state = "retry" /\ lock = None /\ task[t] = "idle"
    /\ ~Running({"want"})                          \* a reload cancels the retry
    /\ lock' = t /\ Goto(t, "open")
    /\ MakeCoordinator
    /\ UNCHANGED <<entryVars, entityVars>>

\* Mutant of MayForward: setup waits for the lock that it holds.
MayForwardWhenFree == lock = None
MayForward == TRUE

SetupForwards(t) ==
    /\ task[t] = "forward" /\ MayForward
    /\ Forward
    /\ Goto(t, "finish")
    /\ UNCHANGED <<entryVars, state, lock, ctrlVars, missed>>

\* The listener is registered with a snapshot of the entry as it is now.
Finish(t) ==
    /\ task[t] = "finish"
    /\ listening' = TRUE /\ prev' = config.mods
    /\ state' = "loaded" /\ lock' = None
    /\ Goto(t, "idle")
    /\ UNCHANGED <<config, requests, missed, clash, ctrlVars, entityVars>>

-----------------------------------------------------------------------------
(* The platform reload, after it unloaded the platforms.                   *)

\* async_forward_entry_setups takes the lock if it is free, needs a loaded entry
\* then, and goes on without it otherwise.
ListenerForwards(t) ==
    /\ task[t] = "unloaded"
    /\ \/ /\ lock = None /\ state = "loaded"
          /\ lock' = t /\ Goto(t, "locked")
          /\ Forward
       \/ /\ lock = None /\ state # "loaded"
          /\ Goto(t, "idle")
          /\ UNCHANGED <<lock, entityVars>>
       \/ /\ lock # None
          /\ Goto(t, "unlocked")
          /\ Forward
          /\ UNCHANGED lock
    /\ UNCHANGED <<entryVars, state, ctrlVars, missed>>

Forwarded(t) ==
    /\ task[t] \in {"locked", "unlocked"}
    /\ lock' = IF task[t] = "locked" THEN None ELSE lock
    /\ Goto(t, "refresh")
    /\ UNCHANGED <<entryVars, state, ctrlVars, entityVars, missed>>

\* Mutant of Notify: the entities are not rendered again.
NotifyNobody == UNCHANGED blind
Notify == blind' = Unheard(entities)

\* async_refresh_and_settle has heard what answered, perhaps nothing, or has
\* failed; async_set_updated_data in any case.
Refreshed(t) ==
    /\ task[t] = "refresh"
    /\ \E answers \in SUBSET ModulesOf(ctrl) :
          heard' = IF state \in {"loaded", "unloading"} THEN heard \cup answers ELSE heard
    /\ IF up = "current" THEN Notify ELSE UNCHANGED blind
    /\ Goto(t, "idle")
    /\ UNCHANGED <<entryVars, state, lock, built, ctrl, up, entities, registry, missed>>

-----------------------------------------------------------------------------

\* An entry that is set up for the first time, or after a start.
Init ==
    /\ config \in Configs
    /\ prev = {} /\ listening = FALSE
    /\ state = "retry" /\ lock = None
    /\ task = [t \in Tasks |-> "idle"]
    /\ built = {} /\ ctrl = {} /\ heard = {}
    /\ up = "none" /\ entities = {} /\ blind = {}
    /\ registry = config.outs
    /\ requests = 0
    /\ missed = "none" /\ clash = FALSE

Requests == \E t \in Tasks : Change(t) \/ Reconfigure(t) \/ UserReloads(t)

Works(t) ==
    \/ Lock(t) \/ Unload(t) \/ Opens(t) \/ OpenFails(t) \/ SetupForwards(t) \/ Finish(t)
    \/ ListenerForwards(t) \/ Forwarded(t) \/ Refreshed(t)

Next == Requests \/ \E t \in Tasks : Works(t) \/ RetryElapses(t)

Spec == Init /\ [][Next]_vars

\* Every await of a task returns.
FairSpec == Spec /\ \A t \in Tasks : WF_vars(Works(t))

-----------------------------------------------------------------------------

TypeOK ==
    /\ config \in Configs
    /\ prev \subseteq Modules /\ listening \in BOOLEAN
    /\ state \in States
    /\ lock \in Tasks \cup {None}
    /\ task \in [Tasks -> Steps]
    /\ built \subseteq Modules /\ ctrl \subseteq Outputs /\ heard \subseteq Modules
    /\ up \in {"none", "current", "gone"}
    /\ entities \subseteq Outputs /\ registry \subseteq Outputs
    /\ blind \subseteq entities
    /\ up = "none" => entities = {}
    /\ requests \in 0..MaxRequests
    /\ missed \in {"none", "unpruned", "unbuilt"} /\ clash \in BOOLEAN

Settled == state = "loaded" /\ \A t \in Tasks : task[t] = "idle"

Synced ==
    /\ ctrl = config.outs
    /\ up = "current" /\ entities = config.outs

\* When all reloads are done, the controller's lists, the entities and the
\* registry are those of the configuration, no more and no less.  Changes and
\* reloads may overlap in any way as long as no full reload overlaps with a
\* platform reload and every change finds the listener, or is made before the
\* coordinator is (_make_reload_listener, async_setup_entry).
SettledIsSynced ==
    Settled /\ ~clash =>
        /\ missed # "unbuilt" => Synced
        /\ missed = "none" => registry = config.outs

\* ... and then every entity was rendered with the state that the controller has
\* of its output: one that shows nothing is of a module that never answered.
SettledIsRendered ==
    Settled /\ ~clash /\ missed # "unbuilt" => \A o \in blind : ModuleOf[o] \notin heard

\* A loaded entry at rest has a coordinator for its very modules, also after full
\* and platform reloads that overlapped: each comparison with prev_modules is made
\* against what the last full reload was started for (_make_reload_listener).
ModuleChangesReload == Settled /\ missed # "unbuilt" => built = config.mods

\* Every listener, reload and setup comes to an end: none waits for the entry's
\* lock while it keeps the holder waiting.
TasksEnd == \A t \in Tasks : (task[t] # "idle") ~> (task[t] = "idle")

\* Refuted: "Reload when subentries change so platforms re-read them and
\* create/destroy entities accordingly" (async_setup_entry).
ChangesTakeEffect == Settled /\ ~clash => Synced

-----------------------------------------------------------------------------
\* What the integration is doing, seen from outside.
Stage ==
    CASE state = "retry" -> "down"
      [] state \in {"setup", "forwarding"} -> "starting"
      [] state = "loaded" -> "loaded"
      [] state = "unloading" -> "stopping"
      [] state = "failed_unload" -> "stuck"

Service == INSTANCE ReloadService
    WITH wanted <- config.mods, running <- built, stage <- Stage,
         due <- Running({"want"}), missed <- (missed = "unbuilt")

\* Through all listeners, reloads and retries that overlap, the integration is
\* stopped and started in turn, each time for the modules the entry then has, and
\* a change of these that a listener hears is due until the next start
\* (_make_reload_listener, async_setup_entry, async_unload_entry).
ServesReloads == Service!SSpec

=============================================================================
