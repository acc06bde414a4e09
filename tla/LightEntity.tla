---------------------------- MODULE LightEntity -----------------------------
(***************************************************************************)
(* One dimmable light (light.py): the level it shows while a write of it   *)
(* is on its way, and when it gives that level up for the cached one.      *)
(*                                                                         *)
(* async_turn_on notes the level that was asked for (_attr_brightness) and *)
(* the echo it expects (_optimistic_can_value) before it awaits the send.  *)
(* Every notification of the coordinator compares that echo with the cache *)
(* and writes the entity's state.  A notification is for all entities: it  *)
(* may be due to any output.                                               *)
(***************************************************************************)
EXTENDS Protocol, Sequences

CONSTANTS
    Levels,         \* brightnesses that Home Assistant asks for
    Echoes,         \* values of state frames that others cause
    Writers,        \* tasks of service calls for this light
    None,
    MaxFrames       \* bound: frames on the way

ASSUME LevelsAssumption == Levels \subseteq 1..MaxHa
ASSUME EchoesAssumption == Echoes \subseteq Byte
ASSUME NoneUnused == None \notin Int
ASSUME FramesAssumption == MaxFrames \in Nat

VARIABLES
    states,         \* controller.states of this light
    brightness,     \* _attr_brightness
    expected,       \* _optimistic_can_value
    timer,          \* the coordinator's _debounce_unsub is set
    shown,          \* what the entity last wrote
    write,          \* write[w]: where the service call of w is
    frames,         \* state frames of this light on the way, oldest first
    own,            \* history: nothing but the last turn-on has concerned this
                    \* light since it began
    early           \* history: a notification came while that turn-on was pending

optimistic == <<brightness, expected>>
vars == <<states, brightness, expected, timer, shown, write, frames, own, early>>

Idle == [step |-> "idle"]
WriteStates == {Idle} \cup [step : {"queued", "sent"}, tx : Byte]
Pending(w) == write[w] # Idle
Quiet == \A w \in Writers : ~Pending(w)

Reported(value) == frames' = Append(frames, value)

-----------------------------------------------------------------------------
(* The entity.                                                             *)

Forget == brightness' = None /\ expected' = None

\* async_turn_on up to its await; without a brightness the level is MaxHa.
TurnOn(w) ==
    /\ ~Pending(w)
    /\ \E ha \in Levels \cup {MaxHa} :
          /\ brightness' = ha
          /\ expected' = Echo(ha)
          /\ write' = [write EXCEPT ![w] = [step |-> "queued", tx |-> HaToCan(ha)]]
    /\ own' = (Quiet /\ frames = <<>>)
    /\ early' = FALSE
    /\ UNCHANGED <<states, timer, shown, frames>>

\* Mutant of TurnOff: the level that was asked for is kept.
TurnOffKeepingLevel(w) ==
    /\ ~Pending(w)
    /\ expected' = None
    /\ write' = [write EXCEPT ![w] = [step |-> "queued", tx |-> 0]]
    /\ own' = FALSE
    /\ UNCHANGED <<states, brightness, timer, shown, frames, early>>

TurnOff(w) ==
    /\ ~Pending(w)
    /\ Forget
    /\ write' = [write EXCEPT ![w] = [step |-> "queued", tx |-> 0]]
    /\ own' = FALSE
    /\ UNCHANGED <<states, timer, shown, frames, early>>

\* Mutant of Expected: compares with the value that was written, not its echo.
ExpectedAsWritten(rx) == brightness # None /\ HaToCan(brightness) = rx
Expected(rx) == expected = rx

\* The property brightness.
ShownLevel(ha, rx) == IF ha # None THEN ha ELSE CanToHa(rx)

\* _handle_coordinator_update, then the properties is_on and brightness.
Update ==
    /\ IF expected # None /\ ~Expected(states) THEN Forget ELSE UNCHANGED optimistic
    /\ shown' = [on |-> states > 0, level |-> ShownLevel(brightness', states)]
    /\ early' = (early \/ ~Quiet)

\* _flush_state.
Flush ==
    /\ timer /\ timer' = FALSE
    /\ Update
    /\ UNCHANGED <<states, write, frames, own>>

\* The reload listener notifies outside of the timer.
SetUpdatedData ==
    /\ Update
    /\ UNCHANGED <<states, timer, write, frames, own>>

-----------------------------------------------------------------------------
(* The send, its result and the bus.                                       *)

Sends(w) ==
    /\ Pending(w) /\ write[w].step = "queued" /\ Len(frames) < MaxFrames
    /\ write' = [write EXCEPT ![w].step = "sent"]
    /\ Reported(CanTxToRx(write[w].tx))
    /\ UNCHANGED <<states, optimistic, timer, shown, own, early>>

\* The except branch of async_turn_on; async_turn_off has forgotten already.
SendFails(w) ==
    /\ Pending(w) /\ write[w].step = "queued"
    /\ write' = [write EXCEPT ![w] = Idle]
    /\ IF write[w].tx > 0 THEN Forget ELSE UNCHANGED optimistic
    /\ own' = FALSE
    /\ UNCHANGED <<states, timer, shown, frames, early>>

\* A script that is stopped cancels its service call: "except Exception" does
\* not see it, and a frame that is out stays out.
Cancelled(w) ==
    /\ Pending(w)
    /\ write' = [write EXCEPT ![w] = Idle]
    /\ own' = FALSE
    /\ \/ UNCHANGED frames
       \/ /\ write[w].step = "queued" /\ Len(frames) < MaxFrames
          /\ Reported(CanTxToRx(write[w].tx))
    /\ UNCHANGED <<states, optimistic, timer, shown, early>>

Apply(rx) == states' = rx /\ timer' = TRUE

Applies(w) ==
    /\ Pending(w) /\ write[w].step = "sent"
    /\ Apply(CanTxToRx(write[w].tx))
    /\ write' = [write EXCEPT ![w] = Idle]
    /\ UNCHANGED <<optimistic, shown, frames, own, early>>

Ingest ==
    /\ frames # <<>> /\ frames' = Tail(frames)
    /\ IF Head(frames) = states THEN UNCHANGED <<states, timer>> ELSE Apply(Head(frames))
    /\ UNCHANGED <<optimistic, shown, write, own, early>>

\* A wall switch, a mood or another controller sets this light.
WallSwitch ==
    /\ Len(frames) < MaxFrames
    /\ \E rx \in Echoes : Reported(rx)
    /\ own' = FALSE
    /\ UNCHANGED <<states, optimistic, timer, shown, write, early>>

\* Another output changes: the same timer, the same notification.
OtherUpdate ==
    /\ timer' = TRUE
    /\ UNCHANGED <<states, optimistic, shown, write, frames, own, early>>

-----------------------------------------------------------------------------

Init ==
    /\ states \in Echoes
    /\ brightness = None /\ expected = None
    /\ timer = FALSE
    /\ shown = [on |-> states > 0, level |-> CanToHa(states)]
    /\ write = [w \in Writers |-> Idle]
    /\ frames = <<>>
    /\ own = FALSE /\ early = FALSE

Next ==
    \/ \E w \in Writers : \/ TurnOn(w) \/ TurnOff(w) \/ Sends(w) \/ SendFails(w)
                          \/ Cancelled(w) \/ Applies(w)
    \/ Flush \/ SetUpdatedData \/ Ingest \/ WallSwitch \/ OtherUpdate

Spec == Init /\ [][Next]_vars

-----------------------------------------------------------------------------

TypeOK ==
    /\ states \in Byte
    /\ brightness \in (1..MaxHa) \cup {None}
    /\ expected \in Byte \cup {None}
    /\ timer \in BOOLEAN
    /\ shown \in [on : BOOLEAN, level : 0..MaxHa]
    /\ write \in [Writers -> WriteStates]
    /\ frames \in Seq(Byte)
    /\ own \in BOOLEAN /\ early \in BOOLEAN

\* Once the notifications are out, the light shows the cached state: on or off as
\* the cache has it, and either the cached level or one whose echo the cached
\* level is, however writes, failures, cancellations and frames overlapped.
ShownMatchesCache ==
    ~timer => /\ shown.on = (states > 0)
              /\ \/ shown.level = CanToHa(states)
                 \/ Echo(shown.level) = states

\* The level that was asked for is shown verbatim until something else concerns
\* the light (brightness, _handle_coordinator_update): the echo of the write, its
\* local update and the notifications of both leave it alone.  The one exception
\* is a notification while the write is still pending.
OwnEchoKeepsLevel ==
    own /\ ~early => brightness # None

=============================================================================
