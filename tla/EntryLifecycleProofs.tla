------------------------ MODULE EntryLifecycleProofs ------------------------
(***************************************************************************)
(* Theorems about EntryLifecycle, for any modules and outputs, any number  *)
(* of overlapping listeners and reloads, and any number of changes.        *)
(***************************************************************************)
EXTENDS EntryLifecycle, TLAPS

(* Who holds the entry's lock, and in which state the entry then is.         *)
HolderSteps == {"unload", "open", "forward", "finish", "locked"}

LockHeld ==
    /\ lock # None => task[lock] \in HolderSteps
    /\ \A t \in Tasks : task[t] \in HolderSteps => lock = t

Staged ==
    /\ state = "unloading" <=> Running({"unload"})
    /\ state = "setup" <=> Running({"open"})
    /\ state = "forwarding" <=> Running({"forward", "finish"})
    /\ Running({"locked"}) => state = "loaded"

Listening ==
    /\ listening <=> state \in {"loaded", "unloading", "failed_unload"}
    /\ listening => prev = config.mods

(* A setup is for the configuration it began with, unless that was changed.  *)
SetUpFor ==
    (state \in {"setup", "forwarding"} /\ missed # "unbuilt") =>
        built = config.mods /\ ctrl = config.outs

(* A coordinator for other modules is about to be replaced.                  *)
ReloadPending ==
    (listening /\ missed # "unbuilt" /\ built # config.mods) =>
        state = "failed_unload" \/ Running({"want", "unload"})

RegistryPruned == missed = "none" => registry \subseteq config.outs

(* Without a clash the two kinds of reload exclude each other, and the       *)
(* platforms are up unless one of them has them down.                        *)
Excluded ==
    /\ ~(Running(FullSteps) /\ Running(PlatformSteps))
    /\ ~listening => ~Running(PlatformSteps)
    /\ state # "failed_unload"

PlatformsUp ==
    /\ state = "loaded" => up = "current" \/ (up = "none" /\ Running({"unloaded"}))
    /\ state \in {"unloading", "setup", "retry"} \/ Running({"forward"}) => up = "none"
    /\ Running({"finish"}) => up = "current"

(* What the platforms show is what is configured, or will be.                *)
Shown == entities = config.outs /\ config.outs \subseteq registry
Rendered == \A o \in blind : ModuleOf[o] \notin heard

InStep ==
    missed # "unbuilt" =>
        /\ Running({"finish"}) => Shown /\ Rendered
        /\ (listening /\ ~Running(FullSteps)) =>
              /\ ctrl = config.outs
              /\ up = "current" => Shown
              /\ Rendered \/ Running(PlatformSteps)

Calm == ~clash => Excluded /\ PlatformsUp /\ InStep

USE DEF entryVars, ctrlVars, entityVars

-----------------------------------------------------------------------------
(* Types.                                                                    *)

LEMMA ChangeTyped ==
    ASSUME TypeOK, NEW t \in Tasks, Change(t)
    PROVE  TypeOK'
<1> USE DEF TypeOK
<1>1. config' \in Configs /\ config'.outs \subseteq Outputs /\ config'.mods \subseteq Modules
  BY DEF Change, Successors, Configs
<1>2. requests' \in 0..MaxRequests
  BY RequestsAssumption DEF Change
<1>3. CASE listening /\ NeedsFullReload /\ BeginFullReload(t)
  BY <1>1, <1>2, <1>3 DEF Change, BeginFullReload, Goto, Prune, Steps, FullSteps
<1>4. CASE listening /\ ~NeedsFullReload /\ BeginPlatformReload(t)
  BY <1>1, <1>2, <1>4
  DEF Change, BeginPlatformReload, RebuildLists, UnloadPlatforms, Goto, Prune, Steps, PlatformSteps
<1>5. CASE ~listening
  BY <1>1, <1>2, <1>5 DEF Change
<1>6. QED
  BY <1>3, <1>4, <1>5 DEF Change

LEMMA ForwardTyped ==
    ASSUME TypeOK, Forward
    PROVE  /\ up' \in {"none", "current", "gone"}
           /\ entities' \subseteq Outputs /\ registry' \subseteq Outputs
           /\ blind' \subseteq entities'
           /\ up' = "none" => entities' = {}
<1>1. config.outs \subseteq Outputs
  BY DEF TypeOK, Configs
<1>2. QED
  BY <1>1 DEF TypeOK, Forward

LEMMA WorksTyped ==
    ASSUME TypeOK, NEW t \in Tasks,
           Works(t) \/ RetryElapses(t) \/ Reconfigure(t) \/ UserReloads(t)
    PROVE  TypeOK'
<1> USE DEF TypeOK, Goto, Steps, FullSteps, PlatformSteps, States
<1>1. /\ config.mods \subseteq Modules /\ config.outs \subseteq Outputs
      /\ \A outs \in SUBSET Outputs : ModulesOf(outs) \subseteq Modules
  BY ModuleOfAssumption DEF Configs, ModulesOf
<1>2. CASE Reconfigure(t) \/ UserReloads(t)
  <2>1. CASE Reconfigure(t)
    BY <1>1, <2>1, RequestsAssumption DEF Reconfigure, BeginFullReload, Prune
  <2>2. CASE UserReloads(t)
    BY <2>2, RequestsAssumption DEF UserReloads
  <2>3. QED
    BY <1>2, <2>1, <2>2
<1>3. CASE Lock(t)
  BY <1>1, <1>3 DEF Lock, UnloadPlatforms, MakeCoordinator
<1>4. CASE Unload(t) \/ RetryElapses(t)
  BY <1>1, <1>4 DEF Unload, RetryElapses, MakeCoordinator
<1>5. CASE Opens(t) \/ OpenFails(t)
  BY <1>1, <1>5 DEF Opens, OpenFails
<1>6. CASE SetupForwards(t)
  BY <1>6, ForwardTyped DEF SetupForwards
<1>7. CASE Finish(t)
  BY <1>1, <1>7 DEF Finish
<1>8. CASE ListenerForwards(t)
  BY <1>8, ForwardTyped DEF ListenerForwards
<1>9. CASE Forwarded(t)
  BY <1>9 DEF Forwarded
<1>10. CASE Refreshed(t)
  BY <1>1, <1>10 DEF Refreshed, Notify, Unheard
<1>11. QED
  BY <1>2, <1>3, <1>4, <1>5, <1>6, <1>7, <1>8, <1>9, <1>10 DEF Works

LEMMA TypeInductive ==
    ASSUME TypeOK, [Next]_vars
    PROVE  TypeOK'
<1>1. CASE UNCHANGED vars
  BY <1>1 DEF vars, TypeOK
<1>2. QED
  BY <1>1, ChangeTyped, WorksTyped DEF Next, Requests

LEMMA InitialTypes == Init => TypeOK
<1> SUFFICES ASSUME Init PROVE TypeOK
  OBVIOUS
<1>1. config \in Configs /\ registry \subseteq Outputs
  BY DEF Init, Configs
<1>2. task \in [Tasks -> Steps] /\ state \in States /\ requests \in 0..MaxRequests
  BY RequestsAssumption DEF Init, States, Steps
<1>3. QED
  BY <1>1, <1>2 DEF Init, TypeOK

\* Every variable of an entry keeps its type, for any modules, outputs and tasks.
THEOREM TypeCorrect == Spec => []TypeOK
<1>1. TypeOK /\ [Next]_vars => TypeOK'
  BY TypeInductive
<1>2. QED
  BY <1>1, InitialTypes, PTL DEF Spec

-----------------------------------------------------------------------------
(* The lock, the state of the entry and the listener's snapshot.            *)

Ordered == LockHeld /\ Staged /\ Listening

LEMMA LockHeldInductive ==
    ASSUME TypeOK, LockHeld, [Next]_vars
    PROVE  LockHeld'
<1> USE NoneUnused DEF TypeOK, LockHeld, HolderSteps, Goto
<1>1. ASSUME NEW t \in Tasks, Change(t) \/ Reconfigure(t) \/ UserReloads(t) PROVE LockHeld'
  BY <1>1 DEF Change, Reconfigure, UserReloads, BeginFullReload, BeginPlatformReload
<1>2. ASSUME NEW t \in Tasks, Lock(t) \/ Unload(t) \/ RetryElapses(t) PROVE LockHeld'
  BY <1>2 DEF Lock, Unload, RetryElapses
<1>3. ASSUME NEW t \in Tasks, Opens(t) \/ OpenFails(t) \/ SetupForwards(t) \/ Finish(t)
      PROVE  LockHeld'
  BY <1>3 DEF Opens, OpenFails, SetupForwards, Finish
<1>4. ASSUME NEW t \in Tasks, ListenerForwards(t) \/ Forwarded(t) \/ Refreshed(t)
      PROVE  LockHeld'
  BY <1>4 DEF ListenerForwards, Forwarded, Refreshed
<1>5. CASE UNCHANGED vars
  BY <1>5 DEF vars
<1>6. QED
  BY <1>1, <1>2, <1>3, <1>4, <1>5 DEF Next, Requests, Works

LEMMA StagedInductive ==
    ASSUME TypeOK, LockHeld, Staged, [Next]_vars
    PROVE  Staged'
<1> USE NoneUnused DEF TypeOK, LockHeld, Staged, HolderSteps, Goto, Running
<1>1. ASSUME NEW t \in Tasks, Change(t) \/ Reconfigure(t) \/ UserReloads(t) PROVE Staged'
  BY <1>1 DEF Change, Reconfigure, UserReloads, BeginFullReload, BeginPlatformReload
<1>2. ASSUME NEW t \in Tasks, Lock(t) PROVE Staged'
  BY <1>2 DEF Lock, MakeCoordinator
<1>3. ASSUME NEW t \in Tasks, Unload(t) \/ RetryElapses(t) PROVE Staged'
  BY <1>3 DEF Unload, RetryElapses, MakeCoordinator
<1>4. ASSUME NEW t \in Tasks, Opens(t) \/ OpenFails(t) PROVE Staged'
  BY <1>4 DEF Opens, OpenFails
<1>5. ASSUME NEW t \in Tasks, SetupForwards(t) \/ Finish(t) PROVE Staged'
  BY <1>5 DEF SetupForwards, Finish
<1>6. ASSUME NEW t \in Tasks, ListenerForwards(t) \/ Forwarded(t) \/ Refreshed(t)
      PROVE  Staged'
  BY <1>6 DEF ListenerForwards, Forwarded, Refreshed
<1>7. CASE UNCHANGED vars
  BY <1>7 DEF vars
<1>8. QED
  BY <1>1, <1>2, <1>3, <1>4, <1>5, <1>6, <1>7 DEF Next, Requests, Works

LEMMA ListeningInductive ==
    ASSUME TypeOK, Staged, Listening, [Next]_vars
    PROVE  Listening'
<1> USE DEF TypeOK, Staged, Listening, Running
<1>1. ASSUME NEW t \in Tasks, Change(t) \/ Reconfigure(t) PROVE Listening'
  BY <1>1 DEF Change, Reconfigure, BeginFullReload, BeginPlatformReload, NeedsFullReload
<1>2. ASSUME NEW t \in Tasks, UserReloads(t) \/ Lock(t) \/ RetryElapses(t) PROVE Listening'
  BY <1>2 DEF UserReloads, Lock, RetryElapses, MakeCoordinator
<1>3. ASSUME NEW t \in Tasks, Unload(t) \/ Opens(t) \/ OpenFails(t) \/ SetupForwards(t) \/ Finish(t)
      PROVE  Listening'
  BY <1>3 DEF Unload, MakeCoordinator, Opens, OpenFails, SetupForwards, Forward, Finish
<1>4. ASSUME NEW t \in Tasks, ListenerForwards(t) \/ Forwarded(t) \/ Refreshed(t)
      PROVE  Listening'
  BY <1>4 DEF ListenerForwards, Forward, Forwarded, Refreshed
<1>5. CASE UNCHANGED vars
  BY <1>5 DEF vars
<1>6. QED
  BY <1>1, <1>2, <1>3, <1>4, <1>5 DEF Next, Requests, Works

-----------------------------------------------------------------------------
(* Modules.                                                                  *)

LEMMA SetUpForInductive ==
    ASSUME TypeOK, Ordered, SetUpFor, [Next]_vars
    PROVE  SetUpFor'
<1> USE DEF TypeOK, Ordered, LockHeld, HolderSteps, Staged, Listening, SetUpFor, Running
<1>1. ASSUME NEW t \in Tasks, Change(t) \/ Reconfigure(t) PROVE SetUpFor'
  BY <1>1 DEF Change, Reconfigure, BeginFullReload, BeginPlatformReload
<1>2. ASSUME NEW t \in Tasks, UserReloads(t) \/ Lock(t) \/ Unload(t) \/ RetryElapses(t) PROVE SetUpFor'
  BY <1>2 DEF UserReloads, Lock, Unload, RetryElapses, MakeCoordinator
<1>3. ASSUME NEW t \in Tasks, Opens(t) \/ OpenFails(t) \/ SetupForwards(t) \/ Finish(t)
      PROVE  SetUpFor'
  BY <1>3 DEF Opens, OpenFails, SetupForwards, Forward, Finish
<1>4. ASSUME NEW t \in Tasks, ListenerForwards(t) \/ Forwarded(t) \/ Refreshed(t)
      PROVE  SetUpFor'
  BY <1>4 DEF ListenerForwards, Forward, Forwarded, Refreshed
<1>5. CASE UNCHANGED vars
  BY <1>5 DEF vars
<1>6. QED
  BY <1>1, <1>2, <1>3, <1>4, <1>5 DEF Next, Requests, Works

LEMMA ReloadPendingInductive ==
    ASSUME TypeOK, Ordered, SetUpFor, ReloadPending, [Next]_vars
    PROVE  ReloadPending'
<1> USE DEF TypeOK, Ordered, LockHeld, HolderSteps, Staged, Listening, ReloadPending, Running, Goto
<1>1. ASSUME NEW t \in Tasks, Change(t) \/ Reconfigure(t) PROVE ReloadPending'
  BY <1>1 DEF Change, Reconfigure, BeginFullReload, BeginPlatformReload, NeedsFullReload, Prune
<1>2. ASSUME NEW t \in Tasks, UserReloads(t) \/ Lock(t) PROVE ReloadPending'
  BY <1>2 DEF UserReloads, Lock, MakeCoordinator
<1>3. ASSUME NEW t \in Tasks, Unload(t) \/ RetryElapses(t) \/ Opens(t) \/ OpenFails(t)
      PROVE  ReloadPending'
  BY <1>3 DEF Unload, RetryElapses, MakeCoordinator, Opens, OpenFails
<1>4. ASSUME NEW t \in Tasks, SetupForwards(t) \/ Finish(t) PROVE ReloadPending'
  BY <1>4 DEF SetupForwards, Forward, Finish, SetUpFor
<1>5. ASSUME NEW t \in Tasks, ListenerForwards(t) \/ Forwarded(t) \/ Refreshed(t)
      PROVE  ReloadPending'
  BY <1>5 DEF ListenerForwards, Forward, Forwarded, Refreshed
<1>6. CASE UNCHANGED vars
  BY <1>6 DEF vars
<1>7. QED
  BY <1>1, <1>2, <1>3, <1>4, <1>5, <1>6 DEF Next, Requests, Works

LEMMA InitialOrder == Init => Ordered /\ SetUpFor /\ ReloadPending /\ RegistryPruned /\ Calm
BY NoneUnused
DEF Init, Ordered, LockHeld, Staged, Listening, HolderSteps, SetUpFor, ReloadPending,
    RegistryPruned, Calm, Excluded, PlatformsUp, InStep, Running, FullSteps, PlatformSteps

LEMMA OrderInductive ==
    ASSUME TypeOK, Ordered, [Next]_vars
    PROVE  Ordered'
BY LockHeldInductive, StagedInductive, ListeningInductive DEF Ordered

\* The entry's lock is held by one task, at a step that waits for no lock, and that
\* step determines the state of the entry; a registered listener's snapshot is of
\* the entry's modules (async_setup_entry, _make_reload_listener).
THEOREM EntryInOrder == Spec => []Ordered
<1>1. Init => TypeOK /\ Ordered
  BY InitialTypes, InitialOrder
<1>2. TypeOK /\ Ordered /\ [Next]_vars => TypeOK' /\ Ordered'
  BY TypeInductive, OrderInductive
<1>3. QED
  BY <1>1, <1>2, PTL DEF Spec

\* A loaded entry at rest has a coordinator for its very modules, however many
\* changes and reloads overlapped (_make_reload_listener, prev_modules).
THEOREM ModulesAreReloaded == Spec => []ModuleChangesReload
<1> DEFINE Inv == TypeOK /\ Ordered /\ SetUpFor /\ ReloadPending
<1>1. Init => Inv
  BY InitialTypes, InitialOrder
<1>2. Inv /\ [Next]_vars => Inv'
  BY TypeInductive, OrderInductive, SetUpForInductive, ReloadPendingInductive
<1>3. Inv => ModuleChangesReload
  BY DEF Ordered, Listening, ReloadPending, Running, ModuleChangesReload, Settled
<1>4. QED
  BY <1>1, <1>2, <1>3, PTL DEF Spec

-----------------------------------------------------------------------------
(* Outputs: the controller's lists, the entities and the registry.           *)

LEMMA RegistryPrunedInductive ==
    ASSUME TypeOK, RegistryPruned, [Next]_vars
    PROVE  RegistryPruned'
<1> USE DEF TypeOK, RegistryPruned
<1>1. ASSUME NEW t \in Tasks, Change(t) \/ Reconfigure(t) PROVE RegistryPruned'
  BY <1>1 DEF Change, Reconfigure, BeginFullReload, BeginPlatformReload, Prune
<1>2. ASSUME NEW t \in Tasks, UserReloads(t) \/ Lock(t) \/ Unload(t) \/ RetryElapses(t)
      PROVE  RegistryPruned'
  BY <1>2 DEF UserReloads, Lock, Unload, RetryElapses, MakeCoordinator
<1>3. ASSUME NEW t \in Tasks, Opens(t) \/ OpenFails(t) \/ Finish(t) \/ Forwarded(t) \/ Refreshed(t)
      PROVE  RegistryPruned'
  BY <1>3 DEF Opens, OpenFails, Finish, Forwarded, Refreshed
<1>4. ASSUME NEW t \in Tasks, SetupForwards(t) \/ ListenerForwards(t) PROVE RegistryPruned'
  BY <1>4 DEF SetupForwards, ListenerForwards, Forward
<1>5. CASE UNCHANGED vars
  BY <1>5 DEF vars
<1>6. QED
  BY <1>1, <1>2, <1>3, <1>4, <1>5 DEF Next, Requests, Works

LEMMA ClashRemains ==
    ASSUME TypeOK, [Next]_vars, ~clash'
    PROVE  ~clash
BY DEF Next, Requests, Works, Change, BeginFullReload, BeginPlatformReload, Reconfigure, UserReloads, Lock,
   Unload, Opens, OpenFails, RetryElapses, SetupForwards, Forward, Finish, ListenerForwards,
   Forwarded, Refreshed, vars, TypeOK

LEMMA ExcludedInductive ==
    ASSUME TypeOK, Ordered, Excluded, PlatformsUp, [Next]_vars, ~clash'
    PROVE  Excluded'
<1> USE DEF TypeOK, Ordered, LockHeld, HolderSteps, Staged, Listening, Excluded, PlatformsUp,
        Running, Goto, FullSteps, PlatformSteps
<1>1. ASSUME NEW t \in Tasks, Change(t) \/ Reconfigure(t) \/ UserReloads(t) PROVE Excluded'
  BY <1>1 DEF Change, Reconfigure, UserReloads, BeginFullReload, BeginPlatformReload
<1>2. ASSUME NEW t \in Tasks, Lock(t) PROVE Excluded'
  BY <1>2 DEF Lock, MakeCoordinator
<1>3. ASSUME NEW t \in Tasks, Unload(t) \/ RetryElapses(t) PROVE Excluded'
  BY <1>3 DEF Unload, RetryElapses, MakeCoordinator
<1>4. ASSUME NEW t \in Tasks, Opens(t) \/ OpenFails(t) \/ Finish(t) PROVE Excluded'
  BY <1>4 DEF Opens, OpenFails, Finish
<1>5. ASSUME NEW t \in Tasks, SetupForwards(t) PROVE Excluded'
  BY <1>5 DEF SetupForwards, Forward
<1>6. ASSUME NEW t \in Tasks, ListenerForwards(t) \/ Forwarded(t) \/ Refreshed(t)
      PROVE  Excluded'
  BY <1>6 DEF ListenerForwards, Forward, Forwarded, Refreshed
<1>7. CASE UNCHANGED vars
  BY <1>7 DEF vars
<1>8. QED
  BY <1>1, <1>2, <1>3, <1>4, <1>5, <1>6, <1>7 DEF Next, Requests, Works

LEMMA PlatformsUpInductive ==
    ASSUME TypeOK, Ordered, Excluded, PlatformsUp, [Next]_vars, ~clash'
    PROVE  PlatformsUp'
<1> USE DEF TypeOK, Ordered, LockHeld, HolderSteps, Staged, Listening, Excluded, PlatformsUp,
        Running, Goto, FullSteps, PlatformSteps
<1>1. ASSUME NEW t \in Tasks, Change(t) \/ Reconfigure(t) \/ UserReloads(t) PROVE PlatformsUp'
  BY <1>1 DEF Change, Reconfigure, UserReloads, BeginFullReload, BeginPlatformReload, UnloadPlatforms
<1>2. ASSUME NEW t \in Tasks, Lock(t) PROVE PlatformsUp'
  BY <1>2 DEF Lock, MakeCoordinator, UnloadPlatforms
<1>3. ASSUME NEW t \in Tasks, Unload(t) \/ RetryElapses(t) PROVE PlatformsUp'
  BY <1>3 DEF Unload, RetryElapses, MakeCoordinator
<1>4. ASSUME NEW t \in Tasks, Opens(t) \/ OpenFails(t) \/ Finish(t) PROVE PlatformsUp'
  BY <1>4 DEF Opens, OpenFails, Finish
<1>5. ASSUME NEW t \in Tasks, SetupForwards(t) PROVE PlatformsUp'
  BY <1>5 DEF SetupForwards, Forward
<1>6. ASSUME NEW t \in Tasks, ListenerForwards(t) PROVE PlatformsUp'
  BY <1>6 DEF ListenerForwards, Forward
<1>7. ASSUME NEW t \in Tasks, Forwarded(t) \/ Refreshed(t) PROVE PlatformsUp'
  BY <1>7 DEF Forwarded, Refreshed
<1>8. CASE UNCHANGED vars
  BY <1>8 DEF vars
<1>9. QED
  BY <1>1, <1>2, <1>3, <1>4, <1>5, <1>6, <1>7, <1>8 DEF Next, Requests, Works

\* Platforms that are set up show what is configured, each output with its state
\* if the controller has heard its module.
LEMMA ForwardShows ==
    ASSUME TypeOK, Forward, up = "none", state # "setup"
    PROVE  /\ entities' = config.outs /\ config.outs \subseteq registry'
           /\ \A o \in blind' : ModuleOf[o] \notin heard
BY DEF Forward

LEMMA InStepInductive ==
    ASSUME TypeOK, TypeOK', Ordered, SetUpFor, Excluded, PlatformsUp, InStep, [Next]_vars,
           ~clash', Excluded', Ordered'
    PROVE  InStep'
<1> USE DEF Ordered, LockHeld, HolderSteps, Staged, Listening, Excluded,
        Running, FullSteps, PlatformSteps, InStep, Shown, Rendered
<1>1. ASSUME NEW t \in Tasks, Change(t) PROVE InStep'
  <2>1. CASE listening /\ NeedsFullReload /\ BeginFullReload(t)
    BY <1>1, <2>1 DEF Change, BeginFullReload, Goto, TypeOK
  <2>2. CASE listening /\ ~NeedsFullReload /\ BeginPlatformReload(t)
    BY <1>1, <2>2 DEF Change, BeginPlatformReload, RebuildLists, UnloadPlatforms, Goto, TypeOK, Prune
  <2>3. CASE ~listening
    <3>1. CASE state = "retry"
      BY <1>1, <2>3, <3>1 DEF Change
    <3>2. CASE state # "retry"
      BY <1>1, <2>3, <3>2 DEF Change
    <3>3. QED
      BY <3>1, <3>2
  <2>4. QED
    BY <1>1, <2>1, <2>2, <2>3 DEF Change
<1>2. ASSUME NEW t \in Tasks, Reconfigure(t) \/ UserReloads(t) PROVE InStep'
  BY <1>2 DEF Reconfigure, BeginFullReload, UserReloads, Goto, TypeOK
<1>3. ASSUME NEW t \in Tasks, Lock(t) PROVE InStep'
  BY <1>3 DEF Lock, MakeCoordinator, Goto, TypeOK, PlatformsUp
<1>4. ASSUME NEW t \in Tasks, Unload(t) \/ RetryElapses(t) PROVE InStep'
  BY <1>4 DEF Unload, RetryElapses, MakeCoordinator, Goto, TypeOK
<1>5. ASSUME NEW t \in Tasks, Opens(t) \/ OpenFails(t) PROVE InStep'
  BY <1>5 DEF Opens, OpenFails, Goto, TypeOK
<1>6. ASSUME NEW t \in Tasks, SetupForwards(t) PROVE InStep'
  <2>1. /\ task[t] = "forward" /\ state = "forwarding" /\ ~listening
        /\ Forward /\ UNCHANGED <<config, listening, missed>>
    BY <1>6 DEF SetupForwards, Forward
  <2>2. up = "none" /\ heard' = heard
    BY <1>6, <2>1 DEF PlatformsUp, SetupForwards
  <2>3. Shown' /\ Rendered'
    BY <2>1, <2>2, ForwardShows
  <2>4. QED
    BY <2>1, <2>3
<1>7. ASSUME NEW t \in Tasks, Finish(t) PROVE InStep'
  BY <1>7 DEF Finish, Goto, TypeOK, SetUpFor
<1>8. ASSUME NEW t \in Tasks, ListenerForwards(t) PROVE InStep'
  <2>1. /\ task[t] = "unloaded" /\ state = "loaded" /\ ~Running(FullSteps)
        /\ UNCHANGED <<config, listening, missed, ctrl>>
    BY <1>8 DEF ListenerForwards, Forward
  <2>2. Forward /\ task'[t] \in {"locked", "unlocked"}
    BY <1>8, <2>1 DEF ListenerForwards, Goto, TypeOK
  <2>3. CASE up = "none"
    BY <2>1, <2>2, <2>3, ForwardShows
  <2>4. CASE up # "none"
    <3>1. \A u \in Tasks : u # t => task'[u] = task[u]
      BY <1>8 DEF ListenerForwards, Goto, TypeOK
    <3>2. QED
      BY <2>1, <2>2, <2>4, <3>1 DEF Forward
  <2>5. QED
    BY <2>3, <2>4
<1>9. ASSUME NEW t \in Tasks, Forwarded(t) PROVE InStep'
  BY <1>9 DEF Forwarded, Goto, TypeOK
<1>10. ASSUME NEW t \in Tasks, Refreshed(t) PROVE InStep'
  BY <1>10 DEF Refreshed, Notify, Unheard, Goto, TypeOK, PlatformsUp
<1>11. CASE UNCHANGED vars
  BY <1>11 DEF vars
<1>12. QED
  BY <1>1, <1>2, <1>3, <1>4, <1>5, <1>6, <1>7, <1>8, <1>9, <1>10, <1>11 DEF Next, Requests, Works

Inductive ==
    TypeOK /\ Ordered /\ SetUpFor /\ RegistryPruned /\ Calm

LEMMA InductiveStep ==
    ASSUME Inductive, [Next]_vars
    PROVE  Inductive'
<1>1. TypeOK' /\ Ordered' /\ SetUpFor' /\ RegistryPruned'
  BY TypeInductive, OrderInductive, SetUpForInductive, RegistryPrunedInductive DEF Inductive
<1>2. ASSUME ~clash' PROVE Excluded' /\ PlatformsUp' /\ InStep'
  <2>1. Excluded /\ PlatformsUp /\ InStep
    BY <1>2, ClashRemains DEF Inductive, Calm
  <2>2. Excluded' /\ PlatformsUp'
    BY <1>2, <2>1, ExcludedInductive, PlatformsUpInductive DEF Inductive
  <2>3. QED
    BY <1>1, <1>2, <2>1, <2>2, InStepInductive DEF Inductive
<1>3. QED
  BY <1>1, <1>2 DEF Inductive, Calm

LEMMA AtRest ==
    ASSUME Inductive, Settled, ~clash
    PROVE  /\ missed # "unbuilt" => Synced /\ Rendered /\ config.outs \subseteq registry
           /\ missed = "none" => registry \subseteq config.outs
<1>1. \A S \in {FullSteps, PlatformSteps, {"unloaded"}} : ~Running(S)
  BY DEF Settled, Running, FullSteps, PlatformSteps
<1>2. listening /\ up = "current"
  BY <1>1 DEF Inductive, Calm, PlatformsUp, Ordered, Listening, Settled
<1>3. QED
  BY <1>1, <1>2 DEF Inductive, Calm, InStep, Shown, Synced, RegistryPruned

\* When all reloads are done, the lists, the entities and the registry are those
\* of the configuration, unless a full and a platform reload overlapped or a
\* change found no listener (_make_reload_listener, async_setup_entry).
THEOREM EntitiesAreConfigured == Spec => []SettledIsSynced
<1>1. Init => Inductive
  BY InitialTypes, InitialOrder DEF Inductive
<1>2. Inductive => SettledIsSynced
  BY AtRest DEF SettledIsSynced, Synced
<1>3. QED
  BY <1>1, <1>2, InductiveStep, PTL DEF Spec

\* ... and every entity was rendered with the state that the controller has of its
\* output, although the platforms are set up before the refresh that fetches it
\* (_make_reload_listener).
THEOREM EntitiesAreRendered == Spec => []SettledIsRendered
<1>1. Init => Inductive
  BY InitialTypes, InitialOrder DEF Inductive
<1>2. Inductive => SettledIsRendered
  BY AtRest DEF SettledIsRendered, Rendered
<1>3. QED
  BY <1>1, <1>2, InductiveStep, PTL DEF Spec

-----------------------------------------------------------------------------
(* The reloads seen from outside: ReloadService.                             *)

Want == Running({"want"})

LEMMA StageOf ==
    ASSUME TypeOK
    PROVE  /\ Stage = "down" <=> state = "retry"
           /\ Stage = "starting" <=> state \in {"setup", "forwarding"}
           /\ Stage = "loaded" <=> state = "loaded"
           /\ Stage = "stopping" <=> state = "unloading"
           /\ Stage = "stuck" <=> state = "failed_unload"
BY DEF TypeOK, States, Stage

LEMMA WantBoolean == Want \in BOOLEAN /\ Want' \in BOOLEAN
BY DEF Want, Running

\* A task that goes on elsewhere leaves the other tasks as they are.
LEMMA WantNext ==
    ASSUME TypeOK, NEW t \in Tasks, NEW step \in Steps, Goto(t, step)
    PROVE  /\ task[t] # "want" /\ step # "want" => Want' = Want
           /\ task[t] = "want" => Want
           /\ step = "want" => Want'
           /\ Want /\ task[t] # "want" => Want'
BY DEF TypeOK, Goto, Running, Want

\* An action that leaves the entry, the coordinator and the state alone, of a task
\* that neither asks for a reload nor serves one, is none of the service's.
LEMMA ServiceStutters ==
    ASSUME UNCHANGED <<config, built, state>>, Want' = Want,
           (missed = "unbuilt") <=> (missed' = "unbuilt")
    PROVE  UNCHANGED Service!svars
<1>1. Stage' = Stage
  BY DEF Stage
<1>2. QED
  BY <1>1 DEF Service!svars, Want

LEMMA ChangeIsService ==
    ASSUME TypeOK, TypeOK', Ordered, NEW t \in Tasks, Change(t)
    PROVE  [Service!SNext]_(Service!svars)
<1>1. UNCHANGED <<built, state>> /\ Stage' = Stage /\ config'.mods \in SUBSET Modules
  BY DEF Change, BeginFullReload, BeginPlatformReload, Stage, TypeOK, Configs
<1>2. CASE listening
  <2>1. Stage \in {"loaded", "stopping", "stuck"} /\ prev = config.mods
    BY <1>2, StageOf DEF Ordered, Listening
  <2>2. (missed = "unbuilt") = (missed' = "unbuilt")
    BY <1>2 DEF Change, BeginFullReload, BeginPlatformReload, Prune
  <2>3. Want => Want'
    BY <1>2, WantNext DEF Change, BeginFullReload, BeginPlatformReload, Steps, FullSteps, PlatformSteps
  <2>4. config'.mods # config.mods => Want'
    BY <1>2, <2>1, WantNext DEF Change, BeginFullReload, NeedsFullReload, Steps, FullSteps
  <2>5. Service!ChangeModules
    BY <1>1, <2>1, <2>2, <2>3, <2>4, WantBoolean DEF Service!ChangeModules, Want
  <2>6. QED
    BY <2>5 DEF Service!SNext
<1>3. CASE ~listening
  <2>1. UNCHANGED task /\ Want' = Want
    BY <1>3 DEF Change, Want, Running
  <2>2. CASE state = "retry"
    <3>1. Stage = "down" /\ (missed = "unbuilt") = (missed' = "unbuilt")
      BY <1>3, <2>2, StageOf DEF Change
    <3>2. QED
      BY <1>1, <2>1, <3>1 DEF Service!ChangeModules, Service!SNext, Want
  <2>3. CASE state # "retry"
    <3>1. Stage = "starting" /\ missed' = "unbuilt"
      BY <1>3, <2>3, StageOf DEF Change, Ordered, Listening, TypeOK, States
    <3>2. QED
      BY <1>1, <2>1, <3>1 DEF Service!ChangeModules, Service!SNext, Want
  <2>4. QED
    BY <2>2, <2>3
<1>4. QED
  BY <1>2, <1>3

LEMMA AskIsService ==
    ASSUME TypeOK, NEW t \in Tasks, Reconfigure(t) \/ UserReloads(t)
    PROVE  [Service!SNext]_(Service!svars)
<1>1. /\ UNCHANGED <<config, built, state>> /\ Stage' = Stage
      /\ (missed = "unbuilt") = (missed' = "unbuilt")
  BY DEF Reconfigure, BeginFullReload, Prune, UserReloads, Stage
<1>2. Want' = TRUE
  BY WantBoolean, WantNext DEF Reconfigure, BeginFullReload, UserReloads, Steps, FullSteps
<1>3. QED
  BY <1>1, <1>2 DEF Service!AskReload, Service!SNext, Want

\* The integration is started for the modules of the entry.
LEMMA MadeIsStart ==
    ASSUME TypeOK, TypeOK', MakeCoordinator, UNCHANGED config
    PROVE  /\ Stage' = "starting" /\ built' = config.mods /\ config'.mods = config.mods
           /\ (missed' = "unbuilt") = FALSE
BY StageOf DEF MakeCoordinator, Stage, TypeOK

LEMMA LockIsService ==
    ASSUME TypeOK, TypeOK', NEW t \in Tasks, Lock(t)
    PROVE  [Service!SNext]_(Service!svars)
<1>1. Want /\ UNCHANGED config
  BY WantNext DEF Lock, Want, Running
<1>2. CASE state = "loaded"
  <2>1. Stage = "loaded" /\ Stage' \in {"stopping", "stuck"}
    BY <1>2, StageOf DEF Lock, Stage
  <2>2. UNCHANGED <<built, missed>>
    BY <1>2 DEF Lock
  <2>3. QED
    BY <1>1, <2>1, <2>2, WantBoolean DEF Service!Stop, Service!Served, Service!SNext, Want
<1>3. CASE state = "retry"
  <2>1. Stage = "down" /\ MakeCoordinator
    BY <1>3, StageOf DEF Lock
  <2>2. QED
    BY <1>1, <2>1, MadeIsStart, WantBoolean DEF Service!Start, Service!Served, Service!SNext, Want
<1>4. CASE state = "failed_unload"
  <2>1. Stage = "stuck" /\ UNCHANGED <<state, built, missed>> /\ Stage' = Stage
    BY <1>4, StageOf DEF Lock, Stage
  <2>2. QED
    BY <1>1, <2>1, WantBoolean DEF Service!Refuse, Service!Served, Service!SNext, Want
<1>5. QED
  BY <1>2, <1>3, <1>4 DEF Lock

LEMMA StartIsService ==
    ASSUME TypeOK, TypeOK', Ordered, NEW t \in Tasks, Unload(t) \/ RetryElapses(t)
    PROVE  [Service!SNext]_(Service!svars)
<1>1. MakeCoordinator /\ UNCHANGED config
  BY DEF Unload, RetryElapses
<1>2. Want' = Want
  BY WantNext DEF Unload, RetryElapses, Steps, FullSteps
<1>3. Stage \in {"stopping", "down"}
  BY StageOf DEF Unload, RetryElapses, Ordered, Staged, Running
<1>4. QED
  BY <1>1, <1>2, <1>3, MadeIsStart DEF Service!Start, Service!SNext, Want

LEMMA EndIsService ==
    ASSUME TypeOK, TypeOK', Ordered, NEW t \in Tasks, OpenFails(t) \/ Finish(t)
    PROVE  [Service!SNext]_(Service!svars)
<1>1. UNCHANGED <<config, built, missed>>
  BY DEF OpenFails, Finish
<1>2. Want' = Want
  BY WantNext DEF OpenFails, Finish, Steps
<1>3. Stage = "starting" /\ Stage' \in {"loaded", "down"}
  BY StageOf DEF OpenFails, Finish, Ordered, Staged, Running, Stage
<1>4. QED
  BY <1>1, <1>2, <1>3 DEF Service!StartEnds, Service!SNext, Want

LEMMA OthersAreSilent ==
    ASSUME TypeOK, TypeOK', Ordered, NEW t \in Tasks,
           Opens(t) \/ SetupForwards(t) \/ ListenerForwards(t) \/ Forwarded(t) \/ Refreshed(t)
    PROVE  UNCHANGED Service!svars
<1>1. UNCHANGED <<config, built, missed>>
  BY DEF Opens, SetupForwards, ListenerForwards, Forwarded, Refreshed, Forward
<1>2. Want' = Want
  BY WantNext
  DEF Opens, SetupForwards, ListenerForwards, Forwarded, Refreshed, Steps, FullSteps, PlatformSteps
<1>3. Stage' = Stage
  <2>1. CASE Opens(t)
    BY <2>1 DEF Opens, Ordered, Staged, Running, Stage
  <2>2. CASE ~Opens(t)
    BY <2>2 DEF SetupForwards, ListenerForwards, Forwarded, Refreshed, Stage
  <2>3. QED
    BY <2>1, <2>2
<1>4. QED
  BY <1>1, <1>2, <1>3 DEF Service!svars, Want

LEMMA ServiceStep ==
    ASSUME TypeOK, TypeOK', Ordered, [Next]_vars
    PROVE  [Service!SNext]_(Service!svars)
<1>1. CASE UNCHANGED vars
  <2>1. UNCHANGED Service!svars
    BY <1>1 DEF vars, Service!svars, Stage, Running
  <2>2. QED
    BY <2>1
<1>2. ASSUME NEW t \in Tasks, Works(t) PROVE [Service!SNext]_(Service!svars)
  BY <1>2, LockIsService, StartIsService, EndIsService, OthersAreSilent DEF Works
<1>3. QED
  BY <1>1, <1>2, ChangeIsService, AskIsService, StartIsService DEF Next, Requests

\* Overlapping listeners, reloads and retries are served in turn, each start for
\* the modules the entry then has (_make_reload_listener, async_setup_entry).
THEOREM ReloadsAreServed == Spec => ServesReloads
<1>1. Init => Service!SInit
  BY DEF Init, Configs, Stage, Running, Service!SInit
<1>2. TypeOK /\ Ordered /\ [Next]_vars => TypeOK' /\ Ordered'
  BY TypeInductive, OrderInductive
<1>3. TypeOK /\ TypeOK' /\ Ordered /\ [Next]_vars => [Service!SNext]_(Service!svars)
  BY ServiceStep
<1>4. Init => TypeOK /\ Ordered
  BY InitialTypes, InitialOrder
<1>5. QED
  BY <1>1, <1>2, <1>3, <1>4, PTL DEF Spec, ServesReloads, Service!SSpec

\* What the service promises: the integration that is loaded runs for the modules
\* of the entry, unless a reload is due or a change came during its start; and so
\* for its very modules when it is at rest.
THEOREM ServedIsWanted == ServesReloads => [](Service!RunsWhatIsWanted /\ ModuleChangesReload)
<1> DEFINE Inv == /\ Service!STypeOK
                  /\ Stage \in {"starting", "loaded"} /\ ~(missed = "unbuilt") =>
                        built = config.mods \/ (Stage = "loaded" /\ Running({"want"}))
<1>1. Service!SInit => Inv
  BY DEF Service!SInit, Service!STypeOK, Service!Stages
<1>2. Inv /\ [Service!SNext]_(Service!svars) => Inv'
  BY DEF Service!STypeOK, Service!Stages, Service!SNext, Service!svars, Service!ChangeModules,
     Service!AskReload, Service!Served, Service!Stop, Service!Refuse, Service!Start, Service!StartEnds
<1>3. Inv => Service!RunsWhatIsWanted /\ ModuleChangesReload
  BY DEF Service!RunsWhatIsWanted, ModuleChangesReload, Settled, Stage, Running
<1>4. QED
  BY <1>1, <1>2, <1>3, PTL DEF ServesReloads, Service!SSpec

=============================================================================
