----------------------------- MODULE StateCache -----------------------------
(***************************************************************************)
(* The cache of output states (DobissController.states) beside the real    *)
(* outputs, what writes, wall switches and state dumps do to both, and     *)
(* what the entities show (controller.py, coordinator.py).                 *)
(*                                                                         *)
(* The Max200 broadcasts a frame for every change of an output, also for   *)
(* one that a write caused, and one per output when a dump is requested.   *)
(* Frames arrive in order; all of them on the way are lost when the link   *)
(* breaks.  A write is a job of the executor: its frame goes out when a    *)
(* worker thread runs it, its task applies it to the cache later.          *)
(***************************************************************************)
EXTENDS Naturals, Sequences, FiniteSets

CONSTANTS
    Keys,           \* configured outputs (module, output)
    Values,         \* states of an output
    Commands,       \* writes: functions from some keys to the values they get
    Writers,        \* tasks of service calls that write
    Refreshers,     \* reload listeners that call async_refresh_and_settle
    None,
    MaxFrames       \* bound: frames on the way

ASSUME KeysAssumption == IsFiniteSet(Keys)
ASSUME CommandsAssumption ==
    \A c \in Commands : DOMAIN c \subseteq Keys /\ \A k \in DOMAIN c : c[k] \in Values
ASSUME NoneUnused == None \notin Values \cup Refreshers
ASSUME FramesAssumption == MaxFrames \in Nat

VARIABLES
    real,           \* real[k]: the state of the output itself
    frames,         \* frames on the way to the host, oldest first
    asked,          \* a dump request has reached the Max200, or will
    link,           \* "up", or "deaf": nothing passes between host and bus
    states,         \* self.states, None for a key it does not hold
    debounce,       \* 0, or which of two alternating timers _debounce_unsub cancels
    shown,          \* the states the entities last wrote
    write,          \* write[w]: the write task w is doing, see WriteStates
    refresh,        \* refresh[r]: where async_refresh_and_settle is
    lock,           \* the holder of _refresh_lock
    arrival,        \* _frame_arrival: the refresher whose event it is, or None
    fired,          \* that event is set
    raced,          \* history: the write that last set a cached state had been
                    \* overtaken by the time it did
    disturbed       \* history: the refresh heard a frame that was no answer
                    \* to it, or the link broke

cacheVars == <<states, debounce, shown>>
refreshVars == <<refresh, lock, arrival, fired, disturbed>>
vars == <<real, frames, asked, link, states, debounce, shown, write, refresh,
          lock, arrival, fired, raced, disturbed>>

Idle == [step |-> "idle"]
WriteStates == {Idle} \cup [step : {"queued", "sent"}, cmd : Commands, late : BOOLEAN]
Pending(w) == write[w] # Idle

Frame(k, v, dump) == [key |-> k, value |-> v, dump |-> dump]
FrameTo(k) == \E i \in DOMAIN frames : frames[i].key = k

\* Any enumeration of a set as a sequence: the Max200 fixes no order.
Orders(S) == {f \in [1..Cardinality(S) -> S] : \A x \in S : \E i \in DOMAIN f : f[i] = x}

-----------------------------------------------------------------------------
(* The Max200.                                                             *)

\* Outputs get new states, and their frames go out if the link is up; an output
\* that is told the state it has may be reported or not.
Broadcasts(change) ==
    /\ real' = [k \in Keys |-> IF k \in DOMAIN change THEN change[k] ELSE real[k]]
    /\ IF link = "up"
       THEN \E told \in SUBSET DOMAIN change :
              /\ \A k \in DOMAIN change \ told : change[k] = real[k]
              /\ Len(frames) + Cardinality(told) <= MaxFrames
              /\ \E o \in Orders(told) :
                    frames' = frames \o [i \in DOMAIN o |-> Frame(o[i], change[o[i]], FALSE)]
       ELSE UNCHANGED frames

\* Writes to these keys whose frame went out earlier have been overtaken.
Overtakes(change) ==
    [w \in Writers |->
        IF write[w].step = "sent" /\ DOMAIN change \cap DOMAIN write[w].cmd # {}
        THEN [write[w] EXCEPT !.late = TRUE] ELSE write[w]]

WallSwitch ==
    \E k \in Keys, v \in Values :
       /\ v # real[k]
       /\ Broadcasts([x \in {k} |-> v])
       /\ write' = Overtakes([x \in {k} |-> v])
       /\ UNCHANGED <<asked, link, cacheVars, refreshVars, raced>>

\* The answer to a dump request: one frame for every output.
AnswersDump ==
    /\ asked /\ link = "up"
    /\ Len(frames) + Cardinality(Keys) <= MaxFrames
    /\ asked' = FALSE
    /\ \E o \in Orders(Keys) :
          frames' = frames \o [i \in DOMAIN o |-> Frame(o[i], real[o[i]], TRUE)]
    /\ UNCHANGED <<real, link, cacheVars, write, refreshVars, raced>>

-----------------------------------------------------------------------------
(* The cache and the coordinator's coalesced notification.                 *)

\* Mutant of Apply: the listeners are not told.
ApplySilently(change) ==
    /\ states' = [k \in Keys |-> IF k \in DOMAIN change THEN change[k] ELSE states[k]]
    /\ UNCHANGED <<debounce, shown>>

\* _apply_local: store and fan out; the coordinator (re)starts its timer.
Apply(change) ==
    /\ states' = [k \in Keys |-> IF k \in DOMAIN change THEN change[k] ELSE states[k]]
    /\ debounce' = IF debounce = 1 THEN 2 ELSE 1
    /\ UNCHANGED shown

\* _flush_state, 50 ms after the last update.
Flush(timer) ==
    /\ debounce = timer
    /\ debounce' = 0
    /\ shown' = states
    /\ UNCHANGED <<real, frames, asked, link, states, write, refreshVars, raced>>

\* _ingest_message signals a waiting refresh before it compares states.
Signal(f) ==
    IF arrival # None
    THEN fired' = TRUE /\ disturbed' = (disturbed \/ ~f.dump)
    ELSE UNCHANGED <<fired, disturbed>>

\* Mutant of Ingest: a frame is ignored while a write to its output is under way.
IngestUnlessWritten ==
    /\ frames # <<>>
    /\ LET f == Head(frames) IN
       /\ frames' = Tail(frames)
       /\ Signal(f)
       /\ IF states[f.key] = f.value \/ \E w \in Writers : Pending(w) /\ f.key \in DOMAIN write[w].cmd
          THEN UNCHANGED cacheVars
          ELSE Apply([k \in {f.key} |-> f.value])
       /\ raced' = [raced EXCEPT ![f.key] = FALSE]
    /\ UNCHANGED <<real, asked, link, write, refresh, lock, arrival>>

Ingest ==
    /\ frames # <<>>
    /\ LET f == Head(frames) IN
       /\ frames' = Tail(frames)
       /\ Signal(f)
       /\ IF states[f.key] = f.value THEN UNCHANGED cacheVars
                                     ELSE Apply([k \in {f.key} |-> f.value])
       /\ raced' = [raced EXCEPT ![f.key] = FALSE]
    /\ UNCHANGED <<real, asked, link, write, refresh, lock, arrival>>

-----------------------------------------------------------------------------
(* Writes: async_turn_on, async_turn_off and the shutter moves.            *)

BeginWrite(w) ==
    /\ ~Pending(w)
    /\ \E c \in Commands :
          write' = [write EXCEPT ![w] = [step |-> "queued", cmd |-> c, late |-> FALSE]]
    /\ UNCHANGED <<real, frames, asked, link, cacheVars, refreshVars, raced>>

\* The worker thread sends the frame and the Max200 obeys it.
WriteReaches(w) ==
    /\ Pending(w) /\ write[w].step = "queued" /\ link = "up"
    /\ Broadcasts(write[w].cmd)
    /\ write' = [Overtakes(write[w].cmd) EXCEPT ![w].step = "sent"]
    /\ UNCHANGED <<asked, link, cacheVars, refreshVars, raced>>

\* On a broken link bus.send raises (the task drops the write), or the frame
\* sits in a buffer and the task believes it sent it.
WriteIsLost(w) ==
    /\ Pending(w) /\ write[w].step = "queued" /\ link = "deaf"
    /\ \/ write' = [write EXCEPT ![w] = Idle]
       \/ write' = [write EXCEPT ![w].step = "sent", ![w].late = TRUE]
    /\ UNCHANGED <<real, frames, asked, link, cacheVars, refreshVars, raced>>

\* The task resumes after the send and updates the cache.
WriteApplies(w) ==
    /\ Pending(w) /\ write[w].step = "sent"
    /\ Apply(write[w].cmd)
    /\ write' = [write EXCEPT ![w] = Idle]
    /\ raced' = [k \in Keys |-> IF k \in DOMAIN write[w].cmd THEN write[w].late ELSE raced[k]]
    /\ UNCHANGED <<real, frames, asked, link, refreshVars>>

-----------------------------------------------------------------------------
(* Refreshes: the refresh service, and async_refresh_and_settle with the    *)
(* reload listener that awaits it.                                         *)

\* The refresh service, async_request_dump.
RequestDump ==
    /\ asked' = (asked \/ link = "up")
    /\ disturbed' = TRUE
    /\ UNCHANGED <<real, frames, link, cacheVars, write, refresh, lock, arrival, fired, raced>>

BeginRefresh(r) ==
    /\ refresh[r] = "idle"
    /\ refresh' = [refresh EXCEPT ![r] = "queueing"]
    /\ UNCHANGED <<real, frames, asked, link, cacheVars, write, lock, arrival, fired, raced, disturbed>>

\* Mutant of LockFree: nothing serialises two refreshes.
NeverHeld == TRUE
LockFree == lock = None

\* With the lock: a fresh event, then the dump request goes to the executor.
TakeLock(r) ==
    /\ refresh[r] = "queueing" /\ LockFree
    /\ refresh' = [refresh EXCEPT ![r] = "asking"]
    /\ lock' = r /\ arrival' = r /\ fired' = FALSE /\ disturbed' = FALSE
    /\ UNCHANGED <<real, frames, asked, link, cacheVars, write, raced>>

\* The finally clause and the release of the lock.
Leave(r, how) ==
    /\ refresh' = [refresh EXCEPT ![r] = how]
    /\ lock' = None /\ arrival' = None /\ fired' = FALSE

\* The dump request is sent; on a broken link it is lost or raises.
AskDump(r) ==
    /\ refresh[r] = "asking"
    /\ \/ /\ asked' = (asked \/ link = "up")
          /\ refresh' = [refresh EXCEPT ![r] = "waiting"]
          /\ UNCHANGED <<lock, arrival, fired>>
          /\ disturbed' = (fired \/ asked \/ frames # <<>>)
       \/ /\ link = "deaf"
          /\ Leave(r, "over")
          /\ UNCHANGED <<asked, disturbed>>
    /\ UNCHANGED <<real, frames, link, cacheVars, write, raced>>

\* Mutant of SeesArrival: the drain does not wait for a first frame.
DrainsAtOnce(r) ==
    /\ refresh[r] \in {"waiting", "draining"} /\ (fired \/ refresh[r] = "waiting")
    /\ refresh' = [refresh EXCEPT ![r] = "draining"]
    /\ fired' = FALSE
    /\ UNCHANGED <<real, frames, asked, link, cacheVars, write, lock, arrival, raced, disturbed>>

\* The event fires: the wait, or the idle window, starts again.
SeesArrival(r) ==
    /\ refresh[r] \in {"waiting", "draining"} /\ arrival = r /\ fired
    /\ refresh' = [refresh EXCEPT ![r] = "draining"]
    /\ fired' = FALSE
    /\ UNCHANGED <<real, frames, asked, link, cacheVars, write, lock, arrival, raced, disturbed>>

\* _DUMP_DRAIN_IDLE_S of silence: frames of one burst follow each other faster.
DrainIdle(r) ==
    /\ refresh[r] = "draining" /\ ~fired /\ frames = <<>>
    /\ Leave(r, "settled")
    /\ UNCHANGED <<real, frames, asked, link, cacheVars, write, raced, disturbed>>

\* Mutant of RefreshTimesOut: only the wait for a first frame has a ceiling.
OnlyFirstWaitTimesOut(r) ==
    /\ refresh[r] = "waiting"
    /\ Leave(r, "over")
    /\ UNCHANGED <<real, frames, asked, link, cacheVars, write, raced, disturbed>>

\* The overall ceiling, before or after the first frame.
RefreshTimesOut(r) ==
    /\ refresh[r] \in {"waiting", "draining"}
    /\ Leave(r, "over")
    /\ UNCHANGED <<real, frames, asked, link, cacheVars, write, raced, disturbed>>

\* Mutant of PushCache: it takes the timer for done.
PushAndCancel(r) ==
    /\ refresh[r] \in {"settled", "over"}
    /\ refresh' = [refresh EXCEPT ![r] = "idle"]
    /\ debounce' = 0
    /\ UNCHANGED <<real, frames, asked, link, states, shown, write, lock, arrival, fired, raced, disturbed>>

\* The listener pushes the cache to the entities, whatever came of the refresh.
PushCache(r) ==
    /\ refresh[r] \in {"settled", "over"}
    /\ refresh' = [refresh EXCEPT ![r] = "idle"]
    /\ shown' = states
    /\ UNCHANGED <<real, frames, asked, link, states, debounce, write, lock, arrival, fired, raced, disturbed>>

-----------------------------------------------------------------------------
(* The link.                                                               *)

LinkBreaks ==
    /\ link = "up"
    /\ link' = "deaf"
    /\ frames' = <<>>
    /\ asked' = FALSE
    /\ disturbed' = TRUE
    /\ UNCHANGED <<real, cacheVars, write, refresh, lock, arrival, fired, raced>>

\* Mutant of Reconnect: the bus comes back without a dump request.
ReconnectWithoutDump ==
    /\ link = "deaf"
    /\ link' = "up"
    /\ UNCHANGED <<real, frames, asked, cacheVars, write, refreshVars, raced>>

\* _read_loop reopens the bus and asks for a dump.
Reconnect ==
    /\ link = "deaf"
    /\ link' = "up"
    /\ asked' = TRUE
    /\ UNCHANGED <<real, frames, cacheVars, write, refreshVars, raced>>

-----------------------------------------------------------------------------
\* Setup has asked for the first dump and the listener is registered.
Init ==
    /\ real \in [Keys -> Values]
    /\ frames = <<>>
    /\ asked = TRUE
    /\ link = "up"
    /\ states = [k \in Keys |-> None]
    /\ debounce = 0
    /\ shown = states
    /\ write = [w \in Writers |-> Idle]
    /\ refresh = [r \in Refreshers |-> "idle"]
    /\ lock = None
    /\ arrival = None
    /\ fired = FALSE
    /\ raced = [k \in Keys |-> FALSE]
    /\ disturbed = FALSE

Max200 == WallSwitch \/ AnswersDump
Writing(w) == WriteReaches(w) \/ WriteIsLost(w) \/ WriteApplies(w)
Refreshing(r) == \/ TakeLock(r) \/ AskDump(r) \/ SeesArrival(r)
                 \/ DrainIdle(r) \/ RefreshTimesOut(r) \/ PushCache(r)

Next == \/ Max200 \/ (\E timer \in {1, 2} : Flush(timer)) \/ Ingest
        \/ \E w \in Writers : BeginWrite(w) \/ Writing(w)
        \/ \E r \in Refreshers : BeginRefresh(r) \/ Refreshing(r)
        \/ RequestDump \/ LinkBreaks \/ Reconnect

Spec == Init /\ [][Next]_vars

\* Timers fire, the event loop reads frames, worker threads run, and the link
\* comes back (the read loop retries for ever).  A debounce timer that is
\* cancelled for a new one need not fire: each of the two has its own fairness.
\* asyncio.Lock is handed on in the order of the waiters, hence SF.
Fairness ==
    /\ WF_vars(Flush(1)) /\ WF_vars(Flush(2)) /\ WF_vars(Ingest) /\ WF_vars(AnswersDump) /\ WF_vars(Reconnect)
    /\ \A w \in Writers : WF_vars(Writing(w))
    /\ \A r \in Refreshers : /\ SF_vars(TakeLock(r)) /\ WF_vars(Refreshing(r))
                             /\ WF_vars(RefreshTimesOut(r))

FairSpec == Spec /\ Fairness

-----------------------------------------------------------------------------
TypeOK ==
    /\ real \in [Keys -> Values]
    /\ frames \in Seq([key : Keys, value : Values, dump : BOOLEAN])
    /\ Len(frames) <= MaxFrames
    /\ asked \in BOOLEAN
    /\ link \in {"up", "deaf"}
    /\ states \in [Keys -> Values \cup {None}]
    /\ debounce \in 0..2
    /\ shown \in [Keys -> Values \cup {None}]
    /\ write \in [Writers -> WriteStates]
    /\ refresh \in [Refreshers -> {"idle", "queueing", "asking", "waiting", "draining",
                               "settled", "over"}]
    /\ lock \in Refreshers \cup {None}
    /\ arrival \in Refreshers \cup {None}
    /\ fired \in BOOLEAN
    /\ raced \in [Keys -> BOOLEAN]
    /\ disturbed \in BOOLEAN

\* Nothing about k is on the way to the host: no frame, no dump.
Quiet(k) == link = "up" /\ ~asked /\ ~FrameTo(k)

\* Once nothing is on the way the cache is right, through link losses, lost and
\* failed writes and wall switches, unless the last thing to set it was a write
\* that another write or something newer on the bus had overtaken (_apply_local
\* comes after the await of the send).
DriftOnlyFromRaces == \A k \in Keys : Quiet(k) /\ ~raced[k] => states[k] = real[k]

\* The event a waiting refresh sleeps on is the one that frames fire: the lock
\* keeps a second refresh from replacing or clearing it.
WaiterIsSignalled ==
    \A r \in Refreshers : refresh[r] \in {"asking", "waiting", "draining"} => arrival = r

\* A refresh that settles has had the answer to its dump request and the cache
\* is right then, but for overtaken writes; unless a frame that was no answer,
\* another request or a break of the link disturbed it (async_refresh_and_settle).
SettledMeansAnswered ==
    [][\A r \in Refreshers :
          (refresh[r] = "draining" /\ refresh'[r] = "settled") =>
             disturbed \/ (~asked /\ \A k \in Keys : raced[k] \/ states[k] = real[k])]_vars

\* What the entities show is what the outputs are, once no frame, dump or timer
\* is due, however updates, reloads that push the cache and timers that were
\* restarted overlapped; unless the write that set it had been overtaken
\* (_on_controller_update, _make_reload_listener).
ShownIsReal ==
    \A k \in Keys : Quiet(k) /\ ~raced[k] /\ debounce = 0 => shown[k] = real[k]

\* Once no timer is restarted any more, the entities come to show the cache.
ShownCatchesUp == (<>[][debounce' \in {debounce, 0}]_vars) => <>[](shown = states)

\* Every refresh returns, also without any answer and next to other refreshes.
RefreshEnds == \A r \in Refreshers : refresh[r] = "queueing" ~> refresh[r] = "idle"

-----------------------------------------------------------------------------
\* What is known about each output on the host.
Standing ==
    [k \in Keys |-> IF link # "up" \/ asked THEN "blind"
                    ELSE IF FrameTo(k) THEN "due"
                    ELSE IF raced[k] THEN "spoilt" ELSE "right"]

Mirror == INSTANCE OutputMirror
    WITH Outputs <- Keys, Unknown <- None, output <- real, cached <- states, standing <- Standing

\* Through all its frames, dumps, writes and refreshes the controller mirrors
\* the outputs: a cached state that is right changes with its output only, the
\* news of which end in a right state again, or by a write that was overtaken;
\* and after an outage every output is heard of before any is taken for right.
MirrorsOutputs == Mirror!MSpec

=============================================================================
