---------------------------- MODULE Coordinator -----------------------------
(***************************************************************************)
(* The coordinator (coordinator.py) between the controller and what the    *)
(* entities show: coalesced notifications, manual refreshes, availability, *)
(* and the record of clock synchronisations that overlap.                  *)
(*                                                                         *)
(* An entity is rendered when it is notified or added, and only then reads *)
(* the cache, whether the bus is connected and what was last recorded.     *)
(* Nothing notifies it of the bus or of a record alone.  One output stands *)
(* for all of them; the clock of Home Assistant counts the attempts.       *)
(***************************************************************************)
EXTENDS Naturals

CONSTANTS
    Values,         \* states of the output
    Syncs,          \* tasks that synchronise the clock: interval, service calls
    Unset,
    MaxAttempts     \* bound: synchronisations

ASSUME ValuesAssumption == Values # {} /\ Unset \notin Values
ASSUME CountAssumption == MaxAttempts \in Nat

VARIABLES
    states,         \* controller.states of the output
    connected,      \* controller.is_bus_connected
    write,          \* the value of a service call that is being sent, or Unset
    timer,          \* _debounce_unsub is set
    data,           \* the snapshot of the coordinator
    success,        \* last_update_success
    shown,          \* what the entities last rendered
    sync,           \* sync[t]: the attempt that a task is making, or 0
    attempts,       \* how many there have been
    record,         \* last_clock_sync_ok, last_clock_sync
    beside,         \* history: the attempts under way when sync[t] began
    newest,         \* history: the latest attempt that was not cancelled
    sent            \* history: the time of the recorded attempt was sent

busVars == <<states, connected, write>>
viewVars == <<timer, data, success, shown>>
clockVars == <<sync, attempts, record, beside, newest, sent>>
coordinatorVars == <<busVars, viewVars, clockVars>>

\* The transport sent the time, could not send it, or raised.  "unsent" is TCP
\* only: send_command returns when it could not connect or write.
Outcomes == {"sent", "unsent", "raised"}
AttemptNumbers == 1..MaxAttempts
NoRecord == [ok |-> Unset, at |-> 0]
Views == [value : Values, available : BOOLEAN, bus : BOOLEAN, at : 0..MaxAttempts]

\* DobissEntity.available, which also decides whether a service call reaches it.
Available(ok) == ok /\ connected

\* What is rendered now, with last_update_success as ok.
View(ok) == [value |-> states, available |-> Available(ok),
             bus |-> connected, at |-> record.at]

-----------------------------------------------------------------------------
(* The controller.                                                         *)

\* _on_controller_update restarts the timer.
Apply(value) == states' = value /\ timer' = TRUE

\* Mutant of ApplyFrame: an unchanged output notifies, a changed one need not.
ApplyFirst(value) == states' = value /\ timer' = (timer \/ value = states)

\* _ingest_message: a state that is cached already is dropped.
ApplyFrame(value) == value # states /\ Apply(value)

FrameArrives(value) ==
    /\ connected
    /\ ApplyFrame(value)
    /\ UNCHANGED <<connected, write, data, success, shown, clockVars>>

\* A service call reaches an entity that is available.
BeginWrite(value) ==
    /\ write = Unset
    /\ Available(success)
    /\ write' = value
    /\ UNCHANGED <<states, connected, viewVars, clockVars>>

\* It has been sent, perhaps on a bus that has been given up since.
WriteSent ==
    /\ write # Unset
    /\ Apply(write)
    /\ write' = Unset
    /\ UNCHANGED <<connected, data, success, shown, clockVars>>

WriteFails ==
    /\ write # Unset
    /\ write' = Unset
    /\ UNCHANGED <<states, connected, viewVars, clockVars>>

\* _open_bus gives the old bus up, and has a new one; neither is notified.
BusGone ==
    /\ connected
    /\ connected' = FALSE
    /\ UNCHANGED <<states, write, viewVars, clockVars>>

BusBack ==
    /\ ~connected
    /\ connected' = TRUE
    /\ UNCHANGED <<states, write, viewVars, clockVars>>

-----------------------------------------------------------------------------
(* Notifications.                                                          *)

\* async_set_updated_data.
SetUpdatedData ==
    /\ data' = states
    /\ success' = TRUE
    /\ shown' = View(TRUE)

\* Mutant of FlushState: a failed refresh is not forgotten.
FlushUnforgiving ==
    /\ timer
    /\ timer' = FALSE
    /\ data' = states /\ shown' = View(success)
    /\ UNCHANGED <<success, busVars, clockVars>>

\* _flush_state, 50 ms after the last update.
FlushState ==
    /\ timer
    /\ timer' = FALSE
    /\ SetUpdatedData
    /\ UNCHANGED <<busVars, clockVars>>

\* A manual refresh while the bus is connected: always_update is False, the
\* entities are notified of a recovery or of other data only.
Refresh ==
    /\ connected
    /\ data' = states
    /\ success' = TRUE
    /\ shown' = IF ~success \/ data # states THEN View(TRUE) ELSE shown
    /\ UNCHANGED <<timer, busVars, clockVars>>

\* UpdateFailed; a second one in a row notifies nobody.
RefreshFails ==
    /\ ~connected
    /\ success' = FALSE
    /\ shown' = IF success THEN View(FALSE) ELSE shown
    /\ UNCHANGED <<timer, data, busVars, clockVars>>

\* The platforms are set up again, and render their entities with it.
EntitiesAdded ==
    /\ shown' = View(success)
    /\ UNCHANGED <<timer, data, success, busVars, clockVars>>

\* The end of the reload listener.
ReloadPushes ==
    /\ SetUpdatedData
    /\ UNCHANGED <<timer, busVars, clockVars>>

-----------------------------------------------------------------------------
(* async_sync_clock.                                                       *)

Underway == {t \in Syncs : sync[t] # 0}

BeginSync(t) ==
    /\ sync[t] = 0
    /\ attempts < MaxAttempts
    /\ attempts' = attempts + 1
    /\ sync' = [sync EXCEPT ![t] = attempts']
    /\ beside' = [beside EXCEPT ![t] = {sync[u] : u \in Underway}]
    /\ UNCHANGED <<record, newest, sent, busVars, viewVars>>

\* Mutant of Recorded: a failure is logged and raised, not recorded.
RecordedIfReturned(t, outcome) ==
    IF outcome # "raised" THEN [ok |-> TRUE, at |-> sync[t]] ELSE record

\* The time of the attempt is the one from before the await.
Recorded(t, outcome) == [ok |-> outcome # "raised", at |-> sync[t]]

EndSync(t, outcome) ==
    /\ sync[t] # 0
    /\ record' = Recorded(t, outcome)
    /\ sent' = (outcome = "sent")
    /\ newest' = IF sync[t] > newest.at THEN [at |-> sync[t], beside |-> beside[t]] ELSE newest
    /\ sync' = [sync EXCEPT ![t] = 0]
    /\ beside' = [beside EXCEPT ![t] = {}]
    /\ UNCHANGED <<attempts, busVars, viewVars>>

\* The script that called the service is stopped during the await:
\* "except Exception" lets CancelledError pass, and nothing is recorded.
CancelSync(t) ==
    /\ sync[t] # 0
    /\ sync' = [sync EXCEPT ![t] = 0]
    /\ beside' = [beside EXCEPT ![t] = {}]
    /\ UNCHANGED <<attempts, record, newest, sent, busVars, viewVars>>

-----------------------------------------------------------------------------
\* After the first refresh, when the platforms have been set up.
CoordinatorInit ==
    /\ states \in Values
    /\ connected = TRUE
    /\ write = Unset
    /\ timer = FALSE
    /\ data = states
    /\ success = TRUE
    /\ sync = [t \in Syncs |-> 0]
    /\ attempts = 0
    /\ record = NoRecord
    /\ shown = View(TRUE)
    /\ beside = [t \in Syncs |-> {}]
    /\ newest = [at |-> 0, beside |-> {}]
    /\ sent = FALSE

CoordinatorNext ==
    \/ \E value \in Values : FrameArrives(value) \/ BeginWrite(value)
    \/ WriteSent \/ WriteFails
    \/ BusGone \/ BusBack
    \/ FlushState \/ Refresh \/ RefreshFails \/ EntitiesAdded \/ ReloadPushes
    \/ \E t \in Syncs : BeginSync(t) \/ CancelSync(t) \/ \E outcome \in Outcomes : EndSync(t, outcome)

CoordinatorSpec == CoordinatorInit /\ [][CoordinatorNext]_coordinatorVars

\* The event loop runs a timer that is due.
FairCoordinator == CoordinatorSpec /\ WF_coordinatorVars(FlushState)

-----------------------------------------------------------------------------
CoordinatorTypeOK ==
    /\ states \in Values /\ data \in Values
    /\ write \in Values \cup {Unset}
    /\ connected \in BOOLEAN /\ timer \in BOOLEAN /\ success \in BOOLEAN
    /\ shown \in Views
    /\ attempts \in 0..MaxAttempts
    /\ sync \in [Syncs -> 0..MaxAttempts]
    /\ record \in [ok : BOOLEAN \cup {Unset}, at : 0..MaxAttempts]
    /\ beside \in [Syncs -> SUBSET AttemptNumbers]
    /\ newest \in [at : 0..MaxAttempts, beside : SUBSET AttemptNumbers]
    /\ sent \in BOOLEAN

\* While no notification is due the entities show the cache: whatever is written
\* or arrives between failed refreshes, refreshes that notify nobody, reloads and
\* losses of the bus (_on_controller_update, always_update).
ShownIsCached == ~timer => shown.value = states

\* After an outage and the refreshes that failed in it, the first update that
\* changes anything makes the entities available and shows the bus and the record
\* as they are (_flush_state, DobissEntity.available).
CatchesUp == timer ~> shown = View(TRUE)

\* At any moment the record is of the most recent attempt that was not cancelled,
\* failed or not, or else of an older one that was still under way when that one
\* began and ended after it (async_sync_clock).
LastTryRecorded == record.at = newest.at \/ record.at \in newest.beside

\* async_sync_clock, coordinator.py:209: the record is "updated for every attempt
\* (both `now`, the time of the attempt, regardless of outcome)", where, line 213,
\* "ok" means over TCP that "the command was sent without raising".
EveryAttemptRecorded ==
    [][\A t \in Syncs : sync[t] # 0 /\ sync'[t] = 0 =>
            record' = [ok |-> sent', at |-> sync[t]]]_coordinatorVars

=============================================================================
