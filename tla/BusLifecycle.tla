---------------------------- MODULE BusLifecycle ----------------------------
(***************************************************************************)
(* The life of the CAN bus connection that DobissController owns           *)
(* (controller.py): opening it during setup, listening on it, noticing     *)
(* that it is gone, backing off and reopening it, and closing it.          *)
(*                                                                         *)
(* Two asyncio tasks act on the controller's fields: "owner" runs          *)
(* async_setup and later async_shutdown, "reader" runs _read_loop.  Every  *)
(* blocking call (notifier.stop, bus.shutdown, make_bus, bus.send) is a    *)
(* job of the executor: the task awaits it, the thread that runs it is not *)
(* stopped when the task is cancelled.  A run of the tasks between two     *)
(* awaits is one action.                                                   *)
(*                                                                         *)
(* A handle is one bus returned by make_bus.  It becomes "broken" when the *)
(* gateway goes away and never recovers by itself.  The name of a closed   *)
(* handle is used again: nothing refers to it any more.                    *)
(***************************************************************************)
EXTENDS Naturals, FiniteSets

CONSTANTS
    Handles,            \* names for open buses
    None,               \* Python's None
    BackoffInitial,     \* RECONNECT_BACKOFF_INITIAL_S
    BackoffMax,         \* RECONNECT_BACKOFF_MAX_S
    MaxLives            \* bound: controllers made for one config entry

ASSUME HandlesAssumption == None \notin Handles
ASSUME BackoffAssumption == /\ BackoffInitial \in Nat
                            /\ BackoffMax \in Nat
                            /\ 0 < BackoffInitial
                            /\ BackoffInitial < BackoffMax
ASSUME LivesAssumption == MaxLives \in Nat \ {0}

VARIABLES
    pc,             \* pc[t]: where task t is suspended
    job,            \* job[t]: the executor job task t awaits, or None
    bus,            \* self._bus
    notifier,       \* self._notifier with self._reader: the bus it listens on
    backoff,        \* the local variable of _read_loop
    repairActive,   \* self._repair_issue_active
    issue,          \* the issue registry holds cannot_connect_<entry>
    gateway,        \* whether the CAN gateway can be reached
    handle,         \* what each handle is outside the process
    threads,        \* handles a notifier still listens on
    strays,         \* jobs that run on although their task was cancelled
    cut,            \* history: what cancellations interrupted
    lives           \* how many controllers there have been

controllerVars == <<bus, notifier, backoff, repairActive>>
worldVars == <<handle, threads, strays>>
vars == <<pc, job, bus, notifier, backoff, repairActive, issue, gateway,
          handle, threads, strays, cut, lives>>

Tasks == {"owner", "reader"}
Ops == {"make", "stop", "close", "send"}
Phases == {"queued", "running", "returned", "delivered"}

Jobs == [op : Ops, bus : Handles \cup {None}, phase : Phases, ok : BOOLEAN]
ASSUME NoneAssumption == None \notin Jobs

Strays == [op : {"make", "stop", "close"}, bus : Handles \cup {None}, life : 1..MaxLives]

\* What a cancellation can interrupt: a job in some phase, or a whole setup.
Cuts == (Ops \X Phases) \cup {<<"setup", "cancelled">>}

ConnectPCs == {"open_close", "open_make", "dump"}
OwnerPCs == ConnectPCs \cup {"new", "collect", "running", "down_reader", "down_stop",
                             "down_close", "down", "abandoned"}
ReaderPCs == ConnectPCs \cup {"none", "reading", "frames_stop", "backoff"}

\* A controller before async_setup: no reader task yet.
FreshPC == [t \in Tasks |-> IF t = "owner" THEN "new" ELSE "none"]

Busy(t) == job[t] # None

\* async_shutdown has cancelled the reader task and awaits its end.
Cancelled(t) == t = "reader" /\ pc["owner"] = "down_reader"

\* Task t goes on with the result of its job.  In a cancelled task
\* CancelledError is raised in its place (ReaderEnds).
Delivered(t) == Busy(t) /\ job[t].phase = "delivered" /\ ~Cancelled(t)

Job(op, b) == [op |-> op, bus |-> b, phase |-> "queued", ok |-> TRUE]
Unused == {b \in Handles : handle[b] = "free" /\ \A s \in strays : s.bus # b}

Lesser(m, n) == IF m < n THEN m ELSE n

-----------------------------------------------------------------------------
(* A task's next await.  Each operator says where task t is suspended next. *)

Await(t, at, op, b) ==
    /\ pc' = [pc EXCEPT ![t] = at]
    /\ job' = [job EXCEPT ![t] = Job(op, b)]

Goto(t, at) ==
    /\ pc' = [pc EXCEPT ![t] = at]
    /\ job' = [job EXCEPT ![t] = None]

\* Mutant of CloseOrMake: the stale bus is dropped, not closed.
MakeOverStale(t) ==
    /\ Await(t, "open_make", "make", None)
    /\ bus' = None
    /\ UNCHANGED notifier

\* The second half of _open_bus: close the stale bus, else make a new one.
CloseOrMake(t) ==
    /\ IF bus # None THEN Await(t, "open_close", "close", bus)
                     ELSE Await(t, "open_make", "make", None)
    /\ bus' = None
    /\ UNCHANGED notifier

\* _open_bus from its first line.  Its callers have no notifier any more, so
\* that its _teardown_notifier awaits nothing (ReadsItsBus states this).
OpenBus(t) ==
    /\ notifier = None
    /\ CloseOrMake(t)

-----------------------------------------------------------------------------
(* The executor and the world outside.                                     *)

JobStarts(t) ==
    /\ Busy(t) /\ job[t].phase = "queued"
    /\ job' = [job EXCEPT ![t].phase = "running"]
    /\ UNCHANGED <<pc, controllerVars, issue, gateway, worldVars, cut, lives>>

\* make_bus: a new handle when the gateway answers, an exception otherwise.
MakeReturns(t) ==
    /\ Busy(t) /\ job[t].op = "make" /\ job[t].phase = "running"
    /\ \/ /\ gateway = "up"
          /\ \E b \in Unused :
                /\ handle' = [handle EXCEPT ![b] = "live"]
                /\ job' = [job EXCEPT ![t] = [@ EXCEPT !.phase = "returned", !.bus = b]]
       \/ /\ gateway = "down"
          /\ job' = [job EXCEPT ![t] = [@ EXCEPT !.phase = "returned", !.ok = FALSE]]
          /\ UNCHANGED handle
    /\ UNCHANGED <<pc, controllerVars, issue, gateway, threads, strays, cut, lives>>

\* notifier.stop and bus.shutdown.  Whether they raise is swallowed by the
\* caller and changes nothing.
ReleaseReturns(t) ==
    /\ Busy(t) /\ job[t].op \in {"stop", "close"} /\ job[t].phase = "running"
    /\ job' = [job EXCEPT ![t].phase = "returned"]
    /\ threads' = threads \ {job[t].bus}
    /\ handle' = IF job[t].op = "close" THEN [handle EXCEPT ![job[t].bus] = "free"]
                                        ELSE handle
    /\ UNCHANGED <<pc, controllerVars, issue, gateway, strays, cut, lives>>

\* bus.send: it may raise, or be buffered, on a handle the gateway left.  Taken
\* not to raise on another: socketcand writes to its connection, slcan to its port.
SendReturns(t) ==
    /\ Busy(t) /\ job[t].op = "send" /\ job[t].phase = "running"
    /\ \E ok \in (IF handle[job[t].bus] = "live" THEN {TRUE} ELSE BOOLEAN) :
          job' = [job EXCEPT ![t].phase = "returned", ![t].ok = ok]
    /\ UNCHANGED <<pc, controllerVars, issue, gateway, worldVars, cut, lives>>

\* The event loop resolves the future the task awaits, unless the task's
\* cancellation has cancelled that future.
JobDelivered(t) ==
    /\ Busy(t) /\ job[t].phase = "returned" /\ ~Cancelled(t)
    /\ job' = [job EXCEPT ![t].phase = "delivered"]
    /\ UNCHANGED <<pc, controllerVars, issue, gateway, worldVars, cut, lives>>

\* A job that outlived its task ends; its result goes nowhere.
StrayReturns(s) ==
    /\ s \in strays
    /\ strays' = strays \ {s}
    /\ \/ /\ s.op = "make" /\ gateway = "up"
          /\ \E b \in Unused : handle' = [handle EXCEPT ![b] = "live"]
          /\ UNCHANGED threads
       \/ /\ s.op = "make" /\ gateway = "down"
          /\ UNCHANGED <<handle, threads>>
       \/ /\ s.op \in {"stop", "close"}
          /\ threads' = threads \ {s.bus}
          /\ handle' = IF s.op = "close" THEN [handle EXCEPT ![s.bus] = "free"]
                                         ELSE handle
    /\ UNCHANGED <<pc, job, controllerVars, issue, gateway, cut, lives>>

GatewayDrops ==
    /\ gateway = "up"
    /\ gateway' = "down"
    /\ handle' = [b \in Handles |-> IF handle[b] = "live" THEN "broken" ELSE handle[b]]
    /\ UNCHANGED <<pc, job, controllerVars, issue, threads, strays, cut, lives>>

GatewayReturns ==
    /\ gateway = "down"
    /\ gateway' = "up"
    /\ UNCHANGED <<pc, job, controllerVars, issue, worldVars, cut, lives>>

-----------------------------------------------------------------------------
(* Closing: the part of async_shutdown after the reader task has ended.     *)

CloseOrFinish ==
    /\ IF bus # None THEN Await("owner", "down_close", "close", bus)
                     ELSE Goto("owner", "down")
    /\ bus' = None
    /\ UNCHANGED notifier

\* Mutant of StopThenClose: the bus is closed under a running notifier.
CloseUnstopped == CloseOrFinish

StopThenClose ==
    \/ /\ notifier # None
       /\ notifier' = None
       /\ Await("owner", "down_stop", "stop", notifier)
       /\ UNCHANGED bus
    \/ /\ notifier = None
       /\ CloseOrFinish

\* Mutant of Orphan: the handle of an interrupted open is never closed.
NoOrphan(t) == FALSE

Orphan(t) == Busy(t) /\ job[t].phase = "delivered" /\ job[t].op = "make" /\ job[t].ok

\* Task t is cancelled where it is suspended.  A queued job is dropped, a
\* running one goes on without its task, and only a bus whose future was
\* already resolved is closed (_open_bus, except CancelledError).
Abort(t, reasons) ==
    LET j == job[t] IN
    /\ cut' = cut \cup reasons \cup (IF Busy(t) THEN {<<j.op, j.phase>>} ELSE {})
    /\ strays' = IF Busy(t) /\ j.phase = "running" /\ j.op # "send"
                 THEN strays \cup {[op |-> j.op, bus |-> j.bus, life |-> lives]}
                 ELSE strays
    /\ handle' = IF Orphan(t) THEN [handle EXCEPT ![j.bus] = "free"] ELSE handle

\* self._reader_task.cancel(): the reader learns of it when it next runs.
Shutdown ==
    /\ pc["owner"] = "running"
    /\ pc' = [pc EXCEPT !["owner"] = "down_reader"]
    /\ UNCHANGED <<job, controllerVars, issue, gateway, worldVars, cut, lives>>

\* Mutant of ReaderEnds: the loop takes a cancellation for a failed link.
CancellationSwallowed ==
    /\ Cancelled("reader") /\ pc["reader"] # "none"
    /\ Abort("reader", {})
    /\ Goto("reader", "backoff")
    /\ UNCHANGED <<controllerVars, issue, gateway, threads, lives>>

\* CancelledError is raised in the reader where it is suspended: in a job, in
\* its sleep, waiting for frames, in its own teardown.  No handler of the loop
\* keeps it, and the task ends.
ReaderEnds ==
    /\ Cancelled("reader") /\ pc["reader"] # "none"
    /\ Abort("reader", {})
    /\ Goto("reader", "none")
    /\ UNCHANGED <<controllerVars, issue, gateway, threads, lives>>

\* await self._reader_task.
ReaderAwaited ==
    /\ pc["owner"] = "down_reader" /\ pc["reader"] = "none"
    /\ StopThenClose
    /\ UNCHANGED <<backoff, repairActive, issue, gateway, worldVars, cut, lives>>

NotifierStopped ==
    /\ pc["owner"] = "down_stop" /\ Delivered("owner")
    /\ CloseOrFinish
    /\ UNCHANGED <<backoff, repairActive, issue, gateway, worldVars, cut, lives>>

BusClosed ==
    /\ pc["owner"] = "down_close" /\ Delivered("owner")
    /\ Goto("owner", "down")
    /\ UNCHANGED <<controllerVars, issue, gateway, worldVars, cut, lives>>

-----------------------------------------------------------------------------
(* Connecting: _open_bus, _setup_notifier and the dump request, the same    *)
(* sequence of awaits in async_setup and in _read_loop.                     *)

BeginSetup ==
    /\ pc["owner"] = "new"
    /\ OpenBus("owner")
    /\ UNCHANGED <<backoff, repairActive, issue, gateway, worldVars, cut, lives>>

\* Mutant of BackoffElapses: the loop gives up once the issue is raised.
RetriesUntilReported ==
    /\ pc["reader"] = "backoff" /\ ~Cancelled("reader") /\ ~repairActive
    /\ OpenBus("reader")
    /\ UNCHANGED <<backoff, repairActive, issue, gateway, worldVars, cut, lives>>

BackoffElapses ==
    /\ pc["reader"] = "backoff" /\ ~Cancelled("reader")
    /\ OpenBus("reader")
    /\ UNCHANGED <<backoff, repairActive, issue, gateway, worldVars, cut, lives>>

StaleBusClosed(t) ==
    /\ pc[t] = "open_close" /\ Delivered(t)
    /\ Await(t, "open_make", "make", None)
    /\ UNCHANGED <<controllerVars, issue, gateway, worldVars, cut, lives>>

BusOpened(t) ==
    /\ pc[t] = "open_make" /\ Delivered(t) /\ job[t].ok
    /\ bus' = job[t].bus
    /\ notifier' = job[t].bus
    /\ threads' = threads \cup {job[t].bus}
    /\ Await(t, "dump", "send", job[t].bus)
    /\ UNCHANGED <<backoff, repairActive, issue, gateway, handle, strays, cut, lives>>

\* Mutant of Refused: only a failed open is handled, not a failed dump.
OpenRefused(t) == pc[t] = "open_make" /\ Delivered(t) /\ ~job[t].ok

Refused(t) == pc[t] \in {"open_make", "dump"} /\ Delivered(t) /\ ~job[t].ok

\* A failed setup: the coordinator's handler shuts the controller down and
\* raises ConfigEntryNotReady.
SetupFails ==
    /\ Refused("owner")
    /\ StopThenClose
    /\ UNCHANGED <<backoff, repairActive, issue, gateway, worldVars, cut, lives>>

SetupDumpSent ==
    /\ pc["owner"] = "dump" /\ Delivered("owner") /\ job["owner"].ok
    /\ Goto("owner", "collect")
    /\ UNCHANGED <<controllerVars, issue, gateway, worldVars, cut, lives>>

\* Discovery ends when the burst is over or after DISCOVERY_TIMEOUT_S; the
\* read loop starts on the reader that discovery used.
CollectEnds ==
    /\ pc["owner"] = "collect"
    /\ pc' = [pc EXCEPT !["owner"] = "running", !["reader"] = "reading"]
    /\ backoff' = BackoffInitial
    /\ UNCHANGED <<job, bus, notifier, repairActive, issue, gateway, worldVars, cut, lives>>

-----------------------------------------------------------------------------
(* The read loop.                                                           *)

RaiseRepairIssue ==
    /\ repairActive' = TRUE
    /\ issue' = (issue \/ ~repairActive)

\* Mutant of ClearRepairIssue: the flag is reset, the issue stays.
ForgetRepairIssue ==
    /\ repairActive' = FALSE
    /\ UNCHANGED issue

ClearRepairIssue ==
    /\ repairActive' = FALSE
    /\ issue' = (issue /\ ~repairActive)

\* Mutant of LivenessTimeout: get_message is awaited without a time-out.
NoLivenessTimeout == FALSE /\ UNCHANGED vars

\* LIVENESS_TIMEOUT_S without a frame: _read_frames stops the notifier,
\* leaves the bus open and lets _read_loop sleep.
LivenessTimeout ==
    /\ pc["reader"] = "reading" /\ ~Cancelled("reader")
    /\ notifier' = None
    /\ Await("reader", "frames_stop", "stop", notifier)
    /\ UNCHANGED <<bus, backoff, repairActive, issue, gateway, worldVars, cut, lives>>

FramesStopped ==
    /\ pc["reader"] = "frames_stop" /\ Delivered("reader")
    /\ Goto("reader", "backoff")
    /\ UNCHANGED <<controllerVars, issue, gateway, worldVars, cut, lives>>

\* Mutant of Longer: the back-off does not grow.
Unchanging == backoff
Longer == Lesser(backoff * 2, BackoffMax)

AtCeiling(d) == d >= BackoffMax

\* Mutant of Resume: the loop waits for frames although it has no bus.
ResumeBlindly == "reading"
Resume == IF bus = None THEN "backoff" ELSE "reading"

\* The reconnect failed.  _read_loop goes round to _read_frames, which
\* raises at once without a bus and listens if there still is one.
ReconnectFails ==
    /\ Refused("reader")
    /\ backoff' = Longer
    /\ IF AtCeiling(Longer) THEN RaiseRepairIssue ELSE UNCHANGED <<repairActive, issue>>
    /\ Goto("reader", Resume)
    /\ UNCHANGED <<bus, notifier, gateway, worldVars, cut, lives>>

\* Mutant of ResetBackoff: a success leaves the back-off where it was.
KeepBackoff == UNCHANGED backoff
ResetBackoff == backoff' = BackoffInitial

Reconnected ==
    /\ pc["reader"] = "dump" /\ Delivered("reader") /\ job["reader"].ok
    /\ ResetBackoff
    /\ ClearRepairIssue
    /\ Goto("reader", "reading")
    /\ UNCHANGED <<bus, notifier, gateway, worldVars, cut, lives>>

-----------------------------------------------------------------------------
(* What Home Assistant does with the controller.                            *)

\* The setup task is cancelled.  CancelledError is no Exception, so nothing
\* shuts the controller down.  Left out: a cancellation after async_setup (in the
\* first clock sync, or the forward of the platforms), which leaves it running.
SetupCancelled ==
    /\ pc["owner"] \in ConnectPCs \cup {"collect"}
    /\ Abort("owner", {<<"setup", "cancelled">>})
    /\ Goto("owner", "abandoned")
    /\ UNCHANGED <<controllerVars, issue, gateway, threads, lives>>

\* A retry of the setup, a reload: a new controller for the same entry.
NewController ==
    /\ pc["owner"] \in {"down", "abandoned"}
    /\ lives < MaxLives
    /\ lives' = lives + 1
    /\ pc' = FreshPC
    /\ job' = [t \in Tasks |-> None]
    /\ bus' = None /\ notifier' = None
    /\ backoff' = BackoffInitial
    /\ repairActive' = FALSE
    /\ UNCHANGED <<issue, gateway, worldVars, cut>>

-----------------------------------------------------------------------------
Init ==
    /\ pc = FreshPC
    /\ job = [t \in Tasks |-> None]
    /\ bus = None
    /\ notifier = None
    /\ backoff = BackoffInitial
    /\ repairActive = FALSE
    /\ issue = FALSE
    /\ gateway \in {"up", "down"}
    /\ handle = [b \in Handles |-> "free"]
    /\ threads = {}
    /\ strays = {}
    /\ cut = {}
    /\ lives = 1

Executor(t) == \/ JobStarts(t) \/ MakeReturns(t) \/ ReleaseReturns(t)
               \/ SendReturns(t) \/ JobDelivered(t)

Connecting(t) == StaleBusClosed(t) \/ BusOpened(t)

Owner == \/ BeginSetup \/ SetupFails \/ SetupDumpSent \/ CollectEnds
         \/ ReaderAwaited \/ NotifierStopped \/ BusClosed

ReadLoop == \/ BackoffElapses \/ FramesStopped \/ ReconnectFails \/ Reconnected

Environment == \/ GatewayDrops \/ GatewayReturns
               \/ Shutdown \/ SetupCancelled \/ NewController

Next == \/ \E t \in Tasks : Executor(t) \/ Connecting(t)
        \/ \E s \in strays : StrayReturns(s)
        \/ Owner
        \/ ReadLoop \/ LivenessTimeout \/ ReaderEnds
        \/ Environment

Spec == Init /\ [][Next]_vars

\* What the code's scheduling gives: executor threads make progress (make_bus
\* has time-outs of its own), a resolved or cancelled future resumes its task,
\* sleeps and the discovery deadline end, and on a handle that is gone no frame comes, so
\* that the liveness time-out does.  Nothing is promised about the gateway,
\* about Home Assistant, or about silence on a bus that works.
Fairness ==
    /\ \A t \in Tasks : WF_vars(Executor(t)) /\ WF_vars(Connecting(t))
    /\ WF_vars(\E s \in strays : StrayReturns(s))
    /\ WF_vars(Owner)
    /\ WF_vars(ReadLoop) /\ WF_vars(ReaderEnds)
    /\ WF_vars(LivenessTimeout /\ handle[bus] = "broken")

FairSpec == Spec /\ Fairness

-----------------------------------------------------------------------------
TypeOK ==
    /\ pc \in [Tasks -> OwnerPCs \cup ReaderPCs]
    /\ pc["owner"] \in OwnerPCs
    /\ pc["reader"] \in ReaderPCs
    /\ job \in [Tasks -> Jobs \cup {None}]
    /\ bus \in Handles \cup {None}
    /\ notifier \in Handles \cup {None}
    /\ backoff \in 1..BackoffMax
    /\ repairActive \in BOOLEAN
    /\ issue \in BOOLEAN
    /\ gateway \in {"up", "down"}
    /\ handle \in [Handles -> {"free", "live", "broken"}]
    /\ threads \subseteq Handles
    /\ strays \subseteq Strays
    /\ cut \subseteq Cuts
    /\ lives \in 1..MaxLives

Open == {b \in Handles : handle[b] # "free"}

\* Handles somebody will still close: the controller, a task's job, a stray close.
Held == {bus} \cup {job[t].bus : t \in {u \in Tasks : Busy(u) /\ job[u].op # "send"}}
              \cup {s.bus : s \in {r \in strays : r.op = "close"}}

\* The cancellations after which the controller can lose track of a handle.
LosingCuts == {<<"make", "running">>, <<"make", "returned">>, <<"close", "queued">>, <<"setup", "cancelled">>}

\* The cancellations after which async_shutdown returns before the bus is closed.
HastyCuts == LosingCuts \cup {<<"close", "running">>}

\* The cancellations after which a notifier outlives the teardown.
DeafCuts == {<<"stop", "queued">>, <<"stop", "running">>, <<"setup", "cancelled">>}

\* Every open handle is one that somebody will close, unless a cancellation
\* landed while make_bus ran (or its result was on the way), while a close was
\* still queued, or during a setup: these are all the ways to leak a bus
\* (_open_bus, async_shutdown).
NoLeak == (cut \cap LosingCuts = {}) => (Open \subseteq Held)

\* _open_bus closes the old bus before it makes the next one, over reconnects,
\* failed setups and reloads alike: an exclusive serial adapter is never opened
\* twice, unless a cancellation landed inside an open or a close.
OneBusAtATime == (cut \cap HastyCuts = {}) => \A b, c \in Open : b = c

\* The notifier is stopped before the bus it reads is closed (the comment in
\* _open_bus), unless the cancellation dropped or overtook that stop.
StopBeforeClose ==
    [][\A b \in Handles :
          (handle[b] # "free" /\ handle'[b] = "free") =>
              (b \notin threads \/ cut' \cap DeafCuts # {})]_vars

\* Frames are only ever read from the bus that writes go to: no notifier is
\* left over from an earlier bus, and while discovery or the read loop waits
\* for frames there is one, so the defensive branch of _read_frames is dead.
\* There is none when a bus is about to be opened (_open_bus).
ReadsItsBus ==
    /\ notifier \in {None, bus}
    /\ (pc["owner"] = "collect" \/ pc["reader"] = "reading") => notifier # None
    /\ (pc["owner"] = "new" \/ pc["reader"] = "backoff") => notifier = None

\* The controller's flag for the repair issue is set exactly while the back-off is
\* at its ceiling (_read_loop: set the first time it gets there, reset on success);
\* the issue itself may outlive the flag (RepairClearsOnReconnection).
RepairAtCeiling == repairActive <=> backoff = BackoffMax

Hearing == pc["reader"] = "reading" /\ bus # None /\ handle[bus] = "live"

\* During one controller's life the issue is gone whenever the read loop
\* listens on a working bus, also after a reconnect whose dump failed.
IssueGoneWhenHearing == (Hearing /\ lives = 1) => ~issue

\* README, Automatic reconnection: "the repair clears automatically on
\* reconnection", whoever reconnects.
RepairClearsOnReconnection == Hearing => ~issue

\* The refinement mapping: what the two tasks do together.
LinkPhase ==
    CASE pc["owner"] \in ConnectPCs \cup {"new", "collect"} -> "starting"
      [] pc["owner"] \in {"down_reader", "down_stop", "down_close"} -> "stopping"
      [] pc["owner"] \in {"down", "abandoned"} -> "stopped"
      [] pc["owner"] = "running" /\ pc["reader"] \in ConnectPCs -> "retrying"
      [] pc["owner"] = "running" /\ pc["reader"] \in {"frames_stop", "backoff"} -> "waiting"
      [] OTHER -> "listening"

Supervisor == INSTANCE LinkSupervisor
    WITH phase <- LinkPhase, delay <- backoff, alarm <- repairActive,
         DelayInitial <- BackoffInitial, DelayMax <- BackoffMax

\* Through all its jobs and fields the controller behaves like the supervisor:
\* one retry per wait, waits that double up to the ceiling, the alarm there.
ImplementsSupervisor == Supervisor!SSafe

\* ... and it never stays in a wait, a retry, a start or a stop for ever.
KeepsSupervising == Supervisor!SFairness

\* While the gateway stays reachable and nobody unloads the entry, the read
\* loop always comes back to listening on a working bus.
Recovers == <>[](gateway = "up" /\ pc["owner"] = "running") => []<>Hearing

\* A gateway that stays away is reported.
LossIsReported == <>[](gateway = "down" /\ pc["owner"] = "running") => <>[]issue

\* A setup ends, whatever fails in it.
SetupEnds == pc["owner"] = "new" ~> pc["owner"] \in {"running", "down", "abandoned"}

\* async_shutdown, wherever its cancellation finds the read loop, gets past the
\* await of the reader and ends, and then the bus is closed and no notifier
\* thread listens, but for those that a cancellation took away from it.
Released == /\ (cut \cap HastyCuts = {} => Open = {})
            /\ (cut \cap DeafCuts = {} => threads = {})
ShutdownEnds ==
    pc["owner"] = "down_reader" ~> (pc["owner"] = "down" /\ pc["reader"] = "none" /\ Released)

=============================================================================
