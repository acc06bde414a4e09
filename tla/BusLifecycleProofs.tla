------------------------- MODULE BusLifecycleProofs -------------------------
(* Theorems about BusLifecycle, for every set of handles, every back-off     *)
(* ceiling and every number of controllers.                                  *)
EXTENDS BusLifecycle, TLAPS

(* Where each task may be suspended, and what it then holds.  A task that    *)
(* awaits a job has already taken the bus or the notifier it works on out of *)
(* the controller's fields.                                                  *)
Stopping(t) ==
    pc[t] \in {"frames_stop", "down_stop"} =>
        /\ Busy(t) /\ job[t].op = "stop"
        /\ notifier = None /\ bus # None /\ job[t].bus = bus

Closing(t) ==
    pc[t] \in {"open_close", "down_close"} =>
        /\ Busy(t) /\ job[t].op = "close"
        /\ notifier = None /\ bus = None /\ job[t].bus # None

MakeResult(j) ==
    /\ j.phase \in {"queued", "running"} => j.ok /\ j.bus = None
    /\ j.phase \in {"returned", "delivered"} => (j.bus # None <=> j.ok)

Making(t) ==
    pc[t] = "open_make" =>
        /\ Busy(t) /\ job[t].op = "make"
        /\ notifier = None /\ bus = None
        /\ MakeResult(job[t])

Sending(t) ==
    pc[t] = "dump" =>
        /\ Busy(t) /\ job[t].op = "send"
        /\ bus # None /\ notifier = bus /\ job[t].bus = bus

Resting(t) ==
    /\ pc[t] \in {"collect", "reading"} => bus # None /\ notifier = bus
    /\ pc[t] \in {"new", "down", "backoff"} => notifier = None
    /\ pc[t] \in {"new", "down"} => bus = None
    /\ pc[t] \in {"new", "down", "backoff", "collect", "reading", "none",
                  "running", "down_reader", "abandoned"} => job[t] = None

\* The read loop lives from the end of a setup until a shutdown has awaited it.
Alone ==
    /\ pc["reader"] # "none" => pc["owner"] \in {"running", "down_reader"}
    /\ pc["owner"] = "running" => pc["reader"] # "none"

Structure ==
    /\ Alone
    /\ notifier \in {None, bus}
    /\ \A t \in Tasks : Stopping(t) /\ Closing(t) /\ Making(t) /\ Sending(t) /\ Resting(t)

(* A close whose thread has ended did close its handle.                     *)
ClosedIsFree ==
    (cut \cap LosingCuts = {}) =>
        \A t \in Tasks : (/\ Busy(t) /\ job[t].op = "close"
                          /\ job[t].phase \in {"returned", "delivered"})
                         => handle[job[t].bus] = "free"

-----------------------------------------------------------------------------
(* Facts about the pieces the actions are made of.                           *)

LEMMA DelayBounds ==
    ASSUME backoff \in 1..BackoffMax
    PROVE  Longer \in 1..BackoffMax
BY BackoffAssumption DEF Longer, Lesser

LEMMA TasksSplit == \A t \in Tasks : t = "owner" \/ t = "reader"
BY DEF Tasks

\* Every job a task can be given is a well-formed one.
LEMMA JobTyped ==
    ASSUME NEW op \in Ops, NEW b \in Handles \cup {None}
    PROVE  Job(op, b) \in Jobs
BY DEF Job, Jobs, Phases

USE DEF Tasks, Ops

(* Each operator that moves a task keeps the types of pc and job.            *)
TaskTypes ==
    /\ pc \in [Tasks -> OwnerPCs \cup ReaderPCs]
    /\ pc["owner"] \in OwnerPCs
    /\ pc["reader"] \in ReaderPCs
    /\ job \in [Tasks -> Jobs \cup {None}]
    /\ bus \in Handles \cup {None}
    /\ notifier \in Handles \cup {None}

LEMMA AwaitTyped ==
    ASSUME TaskTypes, NEW t \in Tasks, NEW at \in OwnerPCs \cup ReaderPCs,
           t = "owner" => at \in OwnerPCs, t = "reader" => at \in ReaderPCs,
           NEW op \in Ops, NEW b \in Handles \cup {None},
           Await(t, at, op, b)
    PROVE  /\ pc' \in [Tasks -> OwnerPCs \cup ReaderPCs]
           /\ pc'["owner"] \in OwnerPCs
           /\ pc'["reader"] \in ReaderPCs
           /\ job' \in [Tasks -> Jobs \cup {None}]
<1>1. Job(op, b) \in Jobs
  BY JobTyped
<1>2. job' \in [Tasks -> Jobs \cup {None}]
  BY <1>1 DEF TaskTypes, Await
<1>3. QED
  BY <1>2 DEF TaskTypes, Await

LEMMA GotoTyped ==
    ASSUME TaskTypes, NEW t \in Tasks, NEW at \in OwnerPCs \cup ReaderPCs,
           t = "owner" => at \in OwnerPCs, t = "reader" => at \in ReaderPCs,
           Goto(t, at)
    PROVE  /\ pc' \in [Tasks -> OwnerPCs \cup ReaderPCs]
           /\ pc'["owner"] \in OwnerPCs
           /\ pc'["reader"] \in ReaderPCs
           /\ job' \in [Tasks -> Jobs \cup {None}]
BY DEF TaskTypes, Goto

LEMMA CloseOrMakeTyped ==
    ASSUME TaskTypes, NEW t \in Tasks, CloseOrMake(t)
    PROVE  TaskTypes'
<1>1. CASE bus # None
  <2>1. Await(t, "open_close", "close", bus)
    BY <1>1 DEF CloseOrMake
  <2>2. QED
    BY <2>1, AwaitTyped DEF CloseOrMake, TaskTypes, OwnerPCs, ReaderPCs, ConnectPCs
<1>2. CASE bus = None
  <2>1. Await(t, "open_make", "make", None)
    BY <1>2 DEF CloseOrMake
  <2>2. QED
    BY <2>1, AwaitTyped DEF CloseOrMake, TaskTypes, OwnerPCs, ReaderPCs, ConnectPCs
<1>3. QED
  BY <1>1, <1>2

LEMMA OpenBusTyped ==
    ASSUME TaskTypes, NEW t \in Tasks, OpenBus(t)
    PROVE  TaskTypes'
BY CloseOrMakeTyped DEF OpenBus

LEMMA CloseOrFinishTyped ==
    ASSUME TaskTypes, CloseOrFinish
    PROVE  TaskTypes'
<1>1. CASE bus # None
  <2>1. Await("owner", "down_close", "close", bus)
    BY <1>1 DEF CloseOrFinish
  <2>2. QED
    BY <2>1, AwaitTyped DEF CloseOrFinish, TaskTypes, OwnerPCs
<1>2. CASE bus = None
  <2>1. Goto("owner", "down")
    BY <1>2 DEF CloseOrFinish
  <2>2. QED
    BY <2>1, GotoTyped DEF CloseOrFinish, TaskTypes, OwnerPCs
<1>3. QED
  BY <1>1, <1>2

LEMMA StopThenCloseTyped ==
    ASSUME TaskTypes, StopThenClose
    PROVE  TaskTypes'
<1>1. CASE notifier # None
  <2>1. Await("owner", "down_stop", "stop", notifier)
    BY <1>1 DEF StopThenClose
  <2>2. QED
    BY <1>1, <2>1, AwaitTyped DEF TaskTypes, StopThenClose, OwnerPCs
<1>2. CASE notifier = None
  BY <1>2, CloseOrFinishTyped DEF StopThenClose
<1>3. QED
  BY <1>1, <1>2

LEMMA AbortTyped ==
    ASSUME TypeOK, NEW t \in Tasks, NEW reasons \in SUBSET Cuts, Abort(t, reasons)
    PROVE  /\ handle' \in [Handles -> {"free", "live", "broken"}]
           /\ strays' \subseteq Strays
           /\ cut' \subseteq Cuts
<1>1. handle' \in [Handles -> {"free", "live", "broken"}]
  BY DEF TypeOK, Abort
<1>2. Busy(t) => job[t] \in Jobs
  BY DEF TypeOK, Busy
<1>3. cut' \subseteq Cuts
  BY <1>2 DEF TypeOK, Abort, Cuts, Jobs
<1>4. strays' \subseteq Strays
  BY <1>2 DEF TypeOK, Abort, Strays, Jobs
<1>5. QED
  BY <1>1, <1>3, <1>4

LEMMA JobActionsTyped ==
    ASSUME TypeOK, NEW t \in Tasks, Executor(t)
    PROVE  TypeOK'
<1>1. CASE JobStarts(t)
  BY <1>1 DEF TypeOK, JobStarts, Busy, Jobs, Phases, controllerVars, worldVars
<1>2. CASE MakeReturns(t)
  <2>1. job[t] \in Jobs /\ Unused \subseteq Handles
    BY <1>2 DEF TypeOK, MakeReturns, Busy, Unused
  <2>2. \A b \in Unused : [job[t] EXCEPT !.phase = "returned", !.bus = b] \in Jobs
    BY <2>1 DEF Jobs, Phases
  <2>3. [job[t] EXCEPT !.phase = "returned", !.ok = FALSE] \in Jobs
    BY <2>1 DEF Jobs, Phases
  <2>4. CASE gateway = "up"
    <3>1. PICK b \in Unused : /\ handle' = [handle EXCEPT ![b] = "live"]
                             /\ job' = [job EXCEPT ![t] = [@ EXCEPT !.phase = "returned", !.bus = b]]
      BY <1>2, <2>4 DEF MakeReturns
    <3>2. job' \in [Tasks -> Jobs \cup {None}]
      BY <2>2, <3>1 DEF TypeOK
    <3>3. QED
      BY <1>2, <2>1, <3>1, <3>2 DEF TypeOK, MakeReturns, controllerVars
  <2>5. CASE gateway = "down"
    <3>1. job' = [job EXCEPT ![t] = [@ EXCEPT !.phase = "returned", !.ok = FALSE]] /\ handle' = handle
      BY <1>2, <2>5 DEF MakeReturns
    <3>2. job' \in [Tasks -> Jobs \cup {None}]
      BY <2>3, <3>1 DEF TypeOK
    <3>3. QED
      BY <1>2, <3>1, <3>2 DEF TypeOK, MakeReturns, controllerVars
  <2>6. QED
    BY <1>2, <2>4, <2>5 DEF MakeReturns
<1>3. CASE ReleaseReturns(t)
  BY <1>3 DEF TypeOK, ReleaseReturns, Busy, Jobs, Phases, controllerVars
<1>4. CASE SendReturns(t)
  BY <1>4 DEF TypeOK, SendReturns, Busy, Jobs, Phases, controllerVars, worldVars
<1>5. CASE JobDelivered(t)
  BY <1>5 DEF TypeOK, JobDelivered, Busy, Jobs, Phases, controllerVars, worldVars
<1>6. QED
  BY <1>1, <1>2, <1>3, <1>4, <1>5 DEF Executor

LEMMA ConnectingTyped ==
    ASSUME TypeOK, Structure, NEW t \in Tasks, Connecting(t)
    PROVE  TypeOK'
<1> USE DEF controllerVars, worldVars
<1>0. TaskTypes
  BY DEF TypeOK, TaskTypes
<1>1. CASE StaleBusClosed(t)
  <2>1. Await(t, "open_make", "make", None)
    BY <1>1 DEF StaleBusClosed
  <2>2. QED
    BY <1>0, <1>1, <2>1, AwaitTyped
    DEF StaleBusClosed, TypeOK, OwnerPCs, ReaderPCs, ConnectPCs
<1>2. CASE BusOpened(t)
  <2>1. job[t].bus \in Handles \cup {None}
    BY <1>2 DEF BusOpened, Delivered, Busy, TypeOK, Jobs
  <2>2. Await(t, "dump", "send", job[t].bus)
    BY <1>2 DEF BusOpened
  <2>3. /\ pc' \in [Tasks -> OwnerPCs \cup ReaderPCs]
        /\ pc'["owner"] \in OwnerPCs
        /\ pc'["reader"] \in ReaderPCs
        /\ job' \in [Tasks -> Jobs \cup {None}]
    BY <1>0, <2>1, <2>2, AwaitTyped DEF OwnerPCs, ReaderPCs, ConnectPCs
  <2>4. job[t].bus # None
    BY <1>2 DEF BusOpened, Delivered, Structure, Making, MakeResult
  <2>5. QED
    BY <1>2, <2>1, <2>3, <2>4 DEF BusOpened, TypeOK
<1>3. QED
  BY <1>1, <1>2 DEF Connecting

LEMMA OwnerTyped ==
    ASSUME TypeOK, Owner
    PROVE  TypeOK'
<1> USE DEF controllerVars, worldVars
<1>0. TaskTypes
  BY DEF TypeOK, TaskTypes
<1>1. CASE BeginSetup
  BY <1>0, <1>1, OpenBusTyped DEF BeginSetup, TypeOK, TaskTypes
<1>2. CASE SetupFails \/ ReaderAwaited
  BY <1>0, <1>2, StopThenCloseTyped DEF SetupFails, ReaderAwaited, TypeOK, TaskTypes
<1>3. CASE SetupDumpSent
  BY <1>0, <1>3, GotoTyped DEF SetupDumpSent, TypeOK, OwnerPCs
<1>4. CASE CollectEnds
  BY <1>4, BackoffAssumption DEF CollectEnds, TypeOK, OwnerPCs, ReaderPCs
<1>5. CASE NotifierStopped
  BY <1>0, <1>5, CloseOrFinishTyped DEF NotifierStopped, TypeOK, TaskTypes
<1>6. CASE BusClosed
  BY <1>0, <1>6, GotoTyped DEF BusClosed, TypeOK, OwnerPCs
<1>7. QED
  BY <1>1, <1>2, <1>3, <1>4, <1>5, <1>6 DEF Owner

LEMMA ReadLoopTyped ==
    ASSUME TypeOK, ReadLoop \/ LivenessTimeout
    PROVE  TypeOK'
<1> USE DEF controllerVars, worldVars
<1>0. TaskTypes
  BY DEF TypeOK, TaskTypes
<1>1. CASE BackoffElapses
  BY <1>0, <1>1, OpenBusTyped DEF BackoffElapses, TypeOK, TaskTypes
<1>2. CASE FramesStopped
  BY <1>0, <1>2, GotoTyped DEF FramesStopped, TypeOK, ReaderPCs
<1>3. CASE ReconnectFails
  <2>1. Longer \in 1..BackoffMax
    BY DelayBounds DEF TypeOK
  <2>2. Resume \in ReaderPCs
    BY DEF Resume, ReaderPCs
  <2>3. Goto("reader", Resume)
    BY <1>3 DEF ReconnectFails
  <2>4. /\ pc' \in [Tasks -> OwnerPCs \cup ReaderPCs]
        /\ pc'["owner"] \in OwnerPCs
        /\ pc'["reader"] \in ReaderPCs
        /\ job' \in [Tasks -> Jobs \cup {None}]
    BY <1>0, <2>2, <2>3, GotoTyped
  <2>5. QED
    BY <1>3, <2>1, <2>4 DEF ReconnectFails, RaiseRepairIssue, TypeOK
<1>4. CASE Reconnected
  <2>1. issue' \in BOOLEAN /\ repairActive' \in BOOLEAN
    BY <1>4 DEF Reconnected, ClearRepairIssue, TypeOK
  <2>2. backoff' \in 1..BackoffMax
    BY <1>4, BackoffAssumption DEF Reconnected, ResetBackoff
  <2>3. Goto("reader", "reading")
    BY <1>4 DEF Reconnected
  <2>4. /\ pc' \in [Tasks -> OwnerPCs \cup ReaderPCs]
        /\ pc'["owner"] \in OwnerPCs
        /\ pc'["reader"] \in ReaderPCs
        /\ job' \in [Tasks -> Jobs \cup {None}]
    BY <1>0, <2>3, GotoTyped DEF ReaderPCs
  <2>5. QED
    BY <1>4, <2>1, <2>2, <2>4 DEF Reconnected, TypeOK
<1>5. CASE LivenessTimeout
  <2>1. Await("reader", "frames_stop", "stop", notifier)
    BY <1>5 DEF LivenessTimeout
  <2>2. QED
    BY <1>0, <1>5, <2>1, AwaitTyped DEF LivenessTimeout, TypeOK, ReaderPCs
<1>6. QED
  BY <1>1, <1>2, <1>3, <1>4, <1>5 DEF ReadLoop

LEMMA OutsideTyped ==
    ASSUME TypeOK, Environment \/ ReaderEnds \/ (\E s \in strays : StrayReturns(s))
    PROVE  TypeOK'
<1> USE DEF controllerVars, worldVars
<1>0. TaskTypes
  BY DEF TypeOK, TaskTypes
<1>1. CASE GatewayDrops
  BY <1>1 DEF GatewayDrops, TypeOK
<1>2. CASE GatewayReturns
  BY <1>2 DEF GatewayReturns, TypeOK
<1>3. CASE Shutdown
  BY <1>3 DEF Shutdown, TypeOK, OwnerPCs
<1>4. CASE SetupCancelled
  <2>1. Abort("owner", {<<"setup", "cancelled">>}) /\ Goto("owner", "abandoned")
    BY <1>4 DEF SetupCancelled
  <2>2. {<<"setup", "cancelled">>} \in SUBSET Cuts
    BY DEF Cuts
  <2>3. /\ handle' \in [Handles -> {"free", "live", "broken"}]
        /\ strays' \subseteq Strays
        /\ cut' \subseteq Cuts
    BY <2>1, <2>2, AbortTyped
  <2>4. /\ pc' \in [Tasks -> OwnerPCs \cup ReaderPCs]
        /\ pc'["owner"] \in OwnerPCs
        /\ pc'["reader"] \in ReaderPCs
        /\ job' \in [Tasks -> Jobs \cup {None}]
    BY <1>0, <2>1, GotoTyped DEF OwnerPCs
  <2>5. QED
    BY <1>4, <2>3, <2>4 DEF SetupCancelled, TypeOK
<1>5. CASE NewController
  <2>1. lives' \in 1..MaxLives
    BY <1>5, LivesAssumption DEF NewController, TypeOK
  <2>2. /\ pc' \in [Tasks -> OwnerPCs \cup ReaderPCs]
        /\ pc'["owner"] \in OwnerPCs
        /\ pc'["reader"] \in ReaderPCs
        /\ job' \in [Tasks -> Jobs \cup {None}]
    BY <1>5 DEF NewController, FreshPC, OwnerPCs, ReaderPCs
  <2>3. backoff' \in 1..BackoffMax
    BY <1>5, BackoffAssumption DEF NewController
  <2>4. QED
    BY <1>5, <2>1, <2>2, <2>3 DEF NewController, TypeOK
<1>6. CASE \E s \in strays : StrayReturns(s)
  BY <1>6 DEF StrayReturns, Unused, TypeOK
<1>7. CASE ReaderEnds
  <2>1. Abort("reader", {}) /\ Goto("reader", "none")
    BY <1>7 DEF ReaderEnds
  <2>2. /\ handle' \in [Handles -> {"free", "live", "broken"}]
        /\ strays' \subseteq Strays
        /\ cut' \subseteq Cuts
    BY <2>1, AbortTyped
  <2>3. /\ pc' \in [Tasks -> OwnerPCs \cup ReaderPCs]
        /\ pc'["owner"] \in OwnerPCs
        /\ pc'["reader"] \in ReaderPCs
        /\ job' \in [Tasks -> Jobs \cup {None}]
    BY <1>0, <2>1, GotoTyped DEF ReaderPCs
  <2>4. QED
    BY <1>7, <2>2, <2>3 DEF ReaderEnds, TypeOK
<1>8. QED
  BY <1>1, <1>2, <1>3, <1>4, <1>5, <1>6, <1>7 DEF Environment

LEMMA TypeInductive ==
    ASSUME TypeOK, Structure, [Next]_vars
    PROVE  TypeOK'
<1>1. CASE \E t \in Tasks : Executor(t) \/ Connecting(t)
  BY <1>1, JobActionsTyped, ConnectingTyped
<1>2. CASE Owner
  BY <1>2, OwnerTyped
<1>3. CASE ReadLoop \/ LivenessTimeout
  BY <1>3, ReadLoopTyped
<1>4. CASE Environment \/ ReaderEnds \/ \E s \in strays : StrayReturns(s)
  BY <1>4, OutsideTyped
<1>5. CASE UNCHANGED vars
  BY <1>5 DEF vars, TypeOK
<1>6. QED
  BY <1>1, <1>2, <1>3, <1>4, <1>5 DEF Next

-----------------------------------------------------------------------------
(* The structure of the two tasks is kept.  A step of one task finds the     *)
(* other one at rest (Alone), so that it may change bus and notifier.        *)

PerTask(t) == Stopping(t) /\ Closing(t) /\ Making(t) /\ Sending(t) /\ Resting(t)

\* What every executor step does to the job of task t, and to nothing else of
\* the controller.
JobStep(t) ==
    /\ pc' = pc /\ bus' = bus /\ notifier' = notifier
    /\ Busy(t) /\ job'[t] # None
    /\ job'[t].op = job[t].op
    /\ \A u \in Tasks : u # t => job'[u] = job[u]
    /\ IF job[t].op = "make"
       THEN MakeResult(job[t]) => MakeResult(job'[t]) /\ job[t].bus \in {None, job'[t].bus}
       ELSE job'[t].bus = job[t].bus

\* The job of t changes its phase, and perhaps its handle and its outcome.
Moves(t, p, b, ok) ==
    /\ pc' = pc /\ bus' = bus /\ notifier' = notifier
    /\ job[t] \in Jobs /\ job[t] # None
    /\ job' = [job EXCEPT ![t] = [job[t] EXCEPT !.phase = p, !.bus = b, !.ok = ok]]

LEMMA MovesIsJobStep ==
    ASSUME TypeOK, NEW t \in Tasks,
           NEW p \in Phases, NEW b \in Handles \cup {None}, NEW ok \in BOOLEAN,
           Moves(t, p, b, ok),
           job[t].op # "make" => b = job[t].bus,
           (job[t].op = "make" /\ MakeResult(job[t])) =>
              /\ MakeResult([op |-> "make", bus |-> b, phase |-> p, ok |-> ok])
              /\ job[t].bus \in {None, b}
    PROVE  JobStep(t)
<1> DEFINE k == [job[t] EXCEPT !.phase = p, !.bus = b, !.ok = ok]
<1>0. job[t] \in Jobs
  BY DEF Moves
<1>2. k.op = job[t].op /\ k.phase = p /\ k.bus = b /\ k.ok = ok
  BY <1>0 DEF Jobs
<1>3. k \in Jobs
  BY <1>0 DEF Jobs
<1>4. k # None
  BY <1>3, NoneAssumption
<1>5. job'[t] = k /\ \A u \in Tasks : u # t => job'[u] = job[u]
  BY DEF TypeOK, Moves
<1>6. QED
  BY <1>2, <1>4, <1>5 DEF JobStep, MakeResult, Moves, Busy

LEMMA ExecutorIsJobStep ==
    ASSUME TypeOK, NEW t \in Tasks, Executor(t)
    PROVE  JobStep(t)
<1> USE DEF controllerVars, worldVars
<1>0. job[t] \in Jobs /\ job[t] # None
  BY DEF TypeOK, Busy, Executor, JobStarts, MakeReturns, ReleaseReturns,
         SendReturns, JobDelivered
<1>1. job[t].bus \in Handles \cup {None} /\ job[t].ok \in BOOLEAN
  BY <1>0 DEF Jobs
<1>2. CASE JobStarts(t)
  <2>1. Moves(t, "running", job[t].bus, job[t].ok) /\ job[t].phase = "queued"
    BY <1>0, <1>2 DEF JobStarts, Moves, TypeOK, Jobs
  <2>2. QED
    BY <1>1, <2>1, MovesIsJobStep DEF Phases, MakeResult
<1>3. CASE MakeReturns(t)
  <2>1. job[t].op = "make" /\ job[t].phase = "running"
    BY <1>3 DEF MakeReturns
  <2>2. CASE gateway = "up"
    <3>1. PICK b \in Unused :
               job' = [job EXCEPT ![t] = [@ EXCEPT !.phase = "returned", !.bus = b]]
      BY <1>3, <2>2 DEF MakeReturns
    <3>2. b \in Handles /\ b # None
      BY HandlesAssumption DEF Unused
    <3>3. Moves(t, "returned", b, job[t].ok)
      <4>1. [job[t] EXCEPT !.phase = "returned", !.bus = b]
              = [job[t] EXCEPT !.phase = "returned", !.bus = b, !.ok = job[t].ok]
        BY <1>0 DEF Jobs
      <4>2. QED
        BY <1>0, <1>3, <3>1, <4>1 DEF MakeReturns, Moves
    <3>4. MakeResult(job[t]) =>
            /\ MakeResult([op |-> "make", bus |-> b, phase |-> "returned", ok |-> job[t].ok])
            /\ job[t].bus \in {None, b}
      BY <2>1, <3>2 DEF MakeResult
    <3>5. QED
      BY <1>1, <2>1, <3>2, <3>3, <3>4, MovesIsJobStep DEF Phases
  <2>3. CASE gateway = "down"
    <3>1. Moves(t, "returned", job[t].bus, FALSE)
      BY <1>0, <1>3, <2>3 DEF MakeReturns, Moves, TypeOK, Jobs
    <3>2. QED
      BY <1>1, <2>1, <3>1, MovesIsJobStep DEF Phases, MakeResult
  <2>4. QED
    BY <1>3, <2>2, <2>3 DEF MakeReturns
<1>4. CASE ReleaseReturns(t)
  <2>1. Moves(t, "returned", job[t].bus, job[t].ok) /\ job[t].op # "make"
    BY <1>0, <1>4 DEF ReleaseReturns, Moves, TypeOK, Jobs
  <2>2. QED
    BY <1>1, <2>1, MovesIsJobStep DEF Phases, MakeResult
<1>5. CASE SendReturns(t)
  <2>1. PICK ok \in BOOLEAN : job' = [job EXCEPT ![t].phase = "returned", ![t].ok = ok]
    BY <1>5 DEF SendReturns
  <2>2. Moves(t, "returned", job[t].bus, ok) /\ job[t].op # "make"
    BY <1>0, <1>5, <2>1 DEF SendReturns, Moves, TypeOK, Jobs
  <2>3. QED
    BY <1>1, <2>2, MovesIsJobStep DEF Phases, MakeResult
<1>6. CASE JobDelivered(t)
  <2>1. Moves(t, "delivered", job[t].bus, job[t].ok) /\ job[t].phase = "returned"
    BY <1>0, <1>6 DEF JobDelivered, Moves, TypeOK, Jobs
  <2>2. QED
    BY <1>1, <2>1, MovesIsJobStep DEF Phases, MakeResult
<1>7. QED
  BY <1>2, <1>3, <1>4, <1>5, <1>6 DEF Executor

LEMMA JobStepStructured ==
    ASSUME Structure, NEW t \in Tasks, JobStep(t)
    PROVE  Structure'
BY DEF Structure, Alone, Stopping, Closing, Making, Sending, Resting, Busy, JobStep

LEMMA OwnerStructured ==
    ASSUME TypeOK, Structure, Owner
    PROVE  Structure'
<1> USE DEF Structure, Alone, Stopping, Closing, Making, MakeResult, Sending, Resting,
            Busy, Delivered, Await, Goto, TypeOK, Job
<1>1. CASE BeginSetup
  BY <1>1, NoneAssumption, JobTyped DEF BeginSetup, OpenBus, CloseOrMake
<1>2. CASE SetupFails \/ ReaderAwaited
  BY <1>2, NoneAssumption, JobTyped
  DEF SetupFails, Refused, ReaderAwaited, StopThenClose, CloseOrFinish
<1>3. CASE SetupDumpSent
  BY <1>3 DEF SetupDumpSent, controllerVars
<1>4. CASE CollectEnds
  BY <1>4 DEF CollectEnds
<1>5. CASE NotifierStopped
  BY <1>5, NoneAssumption, JobTyped DEF NotifierStopped, CloseOrFinish
<1>6. CASE BusClosed
  BY <1>6 DEF BusClosed, controllerVars
<1>7. QED
  BY <1>1, <1>2, <1>3, <1>4, <1>5, <1>6 DEF Owner

LEMMA ConnectingStructured ==
    ASSUME TypeOK, Structure, NEW t \in Tasks, Connecting(t)
    PROVE  Structure'
<1> USE DEF Structure, Alone, Stopping, Closing, Making, MakeResult, Sending, Resting,
            Busy, Delivered, Await, TypeOK, Job
<1>1. CASE StaleBusClosed(t)
  BY <1>1, NoneAssumption, JobTyped DEF StaleBusClosed, controllerVars
<1>2. CASE BusOpened(t)
  <2>1. job[t] \in Jobs /\ job[t].bus # None
    BY <1>2 DEF BusOpened
  <2>2. Job("send", job[t].bus) \in Jobs
    BY <2>1, JobTyped DEF Jobs
  <2>3. QED
    BY <1>2, <2>1, <2>2, NoneAssumption DEF BusOpened
<1>3. QED
  BY <1>1, <1>2 DEF Connecting

LEMMA ReadLoopStructured ==
    ASSUME TypeOK, Structure, ReadLoop \/ LivenessTimeout
    PROVE  Structure'
<1> USE DEF Structure, Alone, Stopping, Closing, Making, MakeResult, Sending, Resting,
            Busy, Delivered, Await, Goto, TypeOK, Job
<1>1. CASE BackoffElapses
  BY <1>1, NoneAssumption, JobTyped DEF BackoffElapses, OpenBus, CloseOrMake
<1>2. CASE FramesStopped
  BY <1>2 DEF FramesStopped, controllerVars
<1>3. CASE ReconnectFails
  BY <1>3 DEF ReconnectFails, Refused, Resume
<1>4. CASE Reconnected
  BY <1>4 DEF Reconnected
<1>5. CASE LivenessTimeout
  BY <1>5, NoneAssumption, JobTyped DEF LivenessTimeout
<1>6. QED
  BY <1>1, <1>2, <1>3, <1>4, <1>5 DEF ReadLoop

LEMMA OutsideStructured ==
    ASSUME TypeOK, Structure, Environment \/ ReaderEnds \/ (\E s \in strays : StrayReturns(s))
    PROVE  Structure'
<1> USE DEF Structure, Alone, Stopping, Closing, Making, MakeResult, Sending, Resting,
            Busy, Delivered, Await, Goto, TypeOK, Job, controllerVars
<1>1. CASE GatewayDrops
  BY <1>1 DEF GatewayDrops
<1>2. CASE GatewayReturns
  BY <1>2 DEF GatewayReturns
<1>3. CASE Shutdown
  BY <1>3 DEF Shutdown
<1>4. CASE SetupCancelled
  BY <1>4 DEF SetupCancelled, ConnectPCs
<1>5. CASE NewController
  BY <1>5 DEF NewController, FreshPC
<1>6. CASE \E s \in strays : StrayReturns(s)
  BY <1>6 DEF StrayReturns
<1>7. CASE ReaderEnds
  BY <1>7 DEF ReaderEnds, Cancelled
<1>8. QED
  BY <1>1, <1>2, <1>3, <1>4, <1>5, <1>6, <1>7 DEF Environment

LEMMA StructureInductive ==
    ASSUME TypeOK, Structure, [Next]_vars
    PROVE  Structure'
<1>1. CASE \E t \in Tasks : Executor(t) \/ Connecting(t)
  BY <1>1, ExecutorIsJobStep, JobStepStructured, ConnectingStructured
<1>2. CASE Owner
  BY <1>2, OwnerStructured
<1>3. CASE ReadLoop \/ LivenessTimeout
  BY <1>3, ReadLoopStructured
<1>4. CASE Environment \/ ReaderEnds \/ \E s \in strays : StrayReturns(s)
  BY <1>4, OutsideStructured
<1>5. CASE UNCHANGED vars
  BY <1>5 DEF vars, Structure, Alone, Stopping, Closing, Making, MakeResult, Sending,
              Resting, Busy
<1>6. QED
  BY <1>1, <1>2, <1>3, <1>4, <1>5 DEF Next

LEMMA InitialStructure == Init => TypeOK /\ Structure
<1> SUFFICES ASSUME Init PROVE TypeOK /\ Structure
  OBVIOUS
<1>1. TypeOK
  <2>1. /\ pc \in [Tasks -> OwnerPCs \cup ReaderPCs]
        /\ pc["owner"] \in OwnerPCs
        /\ pc["reader"] \in ReaderPCs
    BY DEF Init, FreshPC, OwnerPCs, ReaderPCs
  <2>2. backoff \in 1..BackoffMax /\ lives \in 1..MaxLives
    BY BackoffAssumption, LivesAssumption DEF Init
  <2>3. QED
    BY <2>1, <2>2 DEF Init, TypeOK
<1>2. Structure
  BY DEF Init, FreshPC, Structure, Alone, Stopping, Closing, Making, Sending, Resting
<1>3. QED
  BY <1>1, <1>2

-----------------------------------------------------------------------------
\* Every variable of the connection keeps its type: the back-off stays between
\* one second and its ceiling, jobs and handles are well formed (controller.py,
\* every handler of the connection's life).
THEOREM TypeCorrect == Spec => []TypeOK
<1>1. TypeOK /\ Structure /\ [Next]_vars => (TypeOK /\ Structure)'
  BY TypeInductive, StructureInductive
<1>2. QED
  BY <1>1, InitialStructure, PTL DEF Spec

\* Frames are only read from the bus that writes go to, and the read loop never
\* waits without a notifier (_open_bus, _setup_notifier, _read_frames).
THEOREM ReadingFromOwnBus == Spec => []ReadsItsBus
<1>1. TypeOK /\ Structure /\ [Next]_vars => (TypeOK /\ Structure)'
  BY TypeInductive, StructureInductive
<1>2. Structure => ReadsItsBus
  BY DEF Structure, Resting, ReadsItsBus
<1>3. QED
  BY <1>1, <1>2, InitialStructure, PTL DEF Spec

-----------------------------------------------------------------------------
(* The repair issue and the back-off.                                        *)

\* Until the read loop starts, the back-off is where __init__ left it.
StartsPatient ==
    pc["owner"] \in ConnectPCs \cup {"new", "collect"} => backoff = BackoffInitial

LEMMA PatienceInductive ==
    ASSUME TypeOK, Structure, StartsPatient, [Next]_vars
    PROVE  StartsPatient'
<1> USE DEF StartsPatient, Structure, Alone, TypeOK, controllerVars, Await, Goto
<1>1. CASE \E t \in Tasks : Executor(t)
  BY <1>1, ExecutorIsJobStep
  DEF JobStep, Executor, JobStarts, MakeReturns, ReleaseReturns, SendReturns, JobDelivered
<1>2. CASE \E t \in Tasks : Connecting(t)
  BY <1>2 DEF Connecting, StaleBusClosed, BusOpened, CloseOrMake, ConnectPCs
<1>3. CASE BeginSetup \/ SetupDumpSent \/ CollectEnds
  BY <1>3 DEF BeginSetup, SetupDumpSent, CollectEnds, OpenBus, CloseOrMake, ConnectPCs
<1>4. CASE SetupFails \/ ReaderAwaited \/ NotifierStopped \/ BusClosed
  BY <1>4 DEF SetupFails, ReaderAwaited, NotifierStopped, BusClosed, StopThenClose,
              CloseOrFinish, ConnectPCs
<1>5. CASE BackoffElapses \/ FramesStopped \/ LivenessTimeout
  BY <1>5 DEF BackoffElapses, FramesStopped, LivenessTimeout, OpenBus, CloseOrMake
<1>6. CASE ReconnectFails \/ Reconnected
  <2>1. pc["owner"] \in {"running", "down_reader"} /\ pc'["owner"] = pc["owner"]
    BY <1>6 DEF ReconnectFails, Reconnected, Refused
  <2>2. QED
    BY <2>1 DEF ConnectPCs
<1>7. CASE GatewayDrops \/ GatewayReturns \/ (\E s \in strays : StrayReturns(s))
  BY <1>7 DEF GatewayDrops, GatewayReturns, StrayReturns
<1>8. CASE Shutdown \/ ReaderEnds \/ SetupCancelled \/ NewController
  BY <1>8 DEF Shutdown, ReaderEnds, SetupCancelled, NewController, ConnectPCs
<1>9. CASE UNCHANGED vars
  BY <1>9 DEF vars
<1>10. QED
  BY <1>1, <1>2, <1>3, <1>4, <1>5, <1>6, <1>7, <1>8, <1>9
  DEF Next, Owner, ReadLoop, Environment

LEMMA CeilingInductive ==
    ASSUME TypeOK, StartsPatient, RepairAtCeiling, [Next]_vars
    PROVE  RepairAtCeiling'
<1> USE BackoffAssumption DEF RepairAtCeiling, controllerVars
<1>1. CASE backoff' = backoff /\ repairActive' = repairActive
  BY <1>1
<1>2. CASE ReconnectFails
  <2>1. backoff' = Longer /\ Longer \in 1..BackoffMax
    BY <1>2, DelayBounds DEF ReconnectFails, TypeOK
  <2>2. CASE Longer >= BackoffMax
    BY <1>2, <2>1, <2>2 DEF ReconnectFails, AtCeiling, RaiseRepairIssue
  <2>3. CASE ~(Longer >= BackoffMax)
    <3>1. repairActive' = repairActive
      BY <1>2, <2>3 DEF ReconnectFails, AtCeiling
    <3>2. backoff # BackoffMax /\ Longer # BackoffMax
      BY <2>1, <2>3 DEF Longer, Lesser, TypeOK
    <3>3. QED
      BY <2>1, <3>1, <3>2
  <2>4. QED
    BY <2>2, <2>3
<1>3. CASE backoff' = BackoffInitial /\ repairActive' = FALSE
  BY <1>3
<1>4. CASE CollectEnds
  <2>1. backoff = BackoffInitial
    BY <1>4 DEF CollectEnds, StartsPatient
  <2>2. QED
    BY <1>1, <1>4, <2>1 DEF CollectEnds
<1>5. CASE Reconnected \/ NewController
  BY <1>3, <1>5 DEF Reconnected, ResetBackoff, ClearRepairIssue, NewController
<1>6. CASE \E t \in Tasks : Executor(t) \/ Connecting(t)
  BY <1>1, <1>6
  DEF Executor, JobStarts, MakeReturns, ReleaseReturns, SendReturns, JobDelivered,
      Connecting, StaleBusClosed, BusOpened
<1>7. CASE \/ BeginSetup \/ SetupFails \/ SetupDumpSent \/ ReaderAwaited \/ NotifierStopped
           \/ BusClosed \/ BackoffElapses \/ FramesStopped \/ LivenessTimeout
  BY <1>1, <1>7 DEF BeginSetup, SetupFails, SetupDumpSent, ReaderAwaited, NotifierStopped,
                    BusClosed, BackoffElapses, FramesStopped, LivenessTimeout
<1>8. CASE \/ GatewayDrops \/ GatewayReturns \/ Shutdown \/ ReaderEnds \/ SetupCancelled
           \/ (\E s \in strays : StrayReturns(s)) \/ UNCHANGED vars
  BY <1>1, <1>8 DEF GatewayDrops, GatewayReturns, Shutdown, ReaderEnds, SetupCancelled,
                    StrayReturns, vars
<1>9. QED
  BY <1>2, <1>4, <1>5, <1>6, <1>7, <1>8 DEF Next, Owner, ReadLoop, Environment

\* The controller's flag for the repair issue is set exactly while the back-off is
\* at its ceiling, for every initial value and ceiling of the back-off (_read_loop).
THEOREM RepairRaisedAtCeiling == Spec => []RepairAtCeiling
<1> DEFINE Inv == TypeOK /\ Structure /\ StartsPatient /\ RepairAtCeiling
<1>1. Init => Inv
  BY InitialStructure, BackoffAssumption DEF Init, StartsPatient, RepairAtCeiling
<1>2. Inv /\ [Next]_vars => Inv'
  BY TypeInductive, StructureInductive, PatienceInductive, CeilingInductive
<1>3. QED
  BY <1>1, <1>2, PTL DEF Spec

-----------------------------------------------------------------------------
(* No handle is lost.  "Lossless" says that no cancellation so far could     *)
(* lose one; it can only turn false.                                         *)

Lossless == cut \cap LosingCuts = {}

Kept ==
    Lossless => /\ \A s \in strays : s.op # "make"
                /\ pc["owner"] # "abandoned"
                /\ ClosedIsFree
                /\ Open \subseteq Held

\* Held, by its three sources.
LEMMA HeldSplit ==
    \A b : b \in Held <=> \/ b = bus
                          \/ \E t \in Tasks : Busy(t) /\ job[t].op # "send" /\ b = job[t].bus
                          \/ \E s \in strays : s.op = "close" /\ b = s.bus
BY DEF Held

LEMMA HeldSplitPrime ==
    \A b : b \in Held' <=> \/ b = bus'
                           \/ \E t \in Tasks : Busy(t)' /\ job'[t].op # "send" /\ b = job'[t].bus
                           \/ \E s \in strays' : s.op = "close" /\ b = s.bus
BY DEF Held

\* Which job a task awaits tells where it is.
LEMMA JobPlaces ==
    ASSUME TypeOK, Structure, NEW t \in Tasks, Busy(t)
    PROVE  /\ job[t].op = "make" => pc[t] = "open_make"
           /\ job[t].op = "close" => pc[t] \in {"open_close", "down_close"}
           /\ job[t].op = "stop" => pc[t] \in {"frames_stop", "down_stop"}
           /\ job[t].op = "send" => pc[t] = "dump"
<1>1. pc[t] \in OwnerPCs \cup ReaderPCs
  BY DEF TypeOK
<1>2. QED
  BY <1>1 DEF Structure, Stopping, Closing, Making, Sending, Resting, Busy,
              OwnerPCs, ReaderPCs, ConnectPCs

LEMMA OneBusy ==
    ASSUME TypeOK, Structure, NEW t \in Tasks, NEW u \in Tasks, Busy(t), Busy(u)
    PROVE  t = u
BY DEF Structure, Alone, Resting, Busy

LEMMA KeptByExecutor ==
    ASSUME TypeOK, Structure, Kept, NEW t \in Tasks, Executor(t)
    PROVE  Kept'
<1> SUFFICES ASSUME Lossless' PROVE Kept'
  BY DEF Kept
<1>1. cut' = cut /\ strays' = strays /\ pc' = pc /\ bus' = bus
  BY DEF Executor, JobStarts, MakeReturns, ReleaseReturns, SendReturns, JobDelivered,
         controllerVars, worldVars
<1>2. Lossless /\ (\A s \in strays : s.op # "make") /\ pc["owner"] # "abandoned"
      /\ ClosedIsFree /\ Open \subseteq Held
  BY <1>1 DEF Lossless, Kept
<1>3. JobStep(t)
  BY ExecutorIsJobStep
<1>4. \A b : b \in Held => b = None \/ b \in Held'
  <2>1. job[t].op = "make" => job[t].bus \in {None, job'[t].bus}
    BY <1>3, JobPlaces DEF JobStep, Structure, Making
  <2>2. \A u \in Tasks : Busy(u) /\ job[u].op # "send" =>
           /\ Busy(u)' /\ job'[u].op # "send"
           /\ job[u].bus \in {None, job'[u].bus}
    BY <1>3, <2>1 DEF JobStep, Busy
  <2>3. QED
    BY <1>1, <2>2, HeldSplit, HeldSplitPrime
<1>5. \A u \in Tasks : Busy(u)' => u = t
  BY <1>3, OneBusy DEF JobStep, Busy
<1>6. Open' \subseteq Held' /\ ClosedIsFree'
  <2>1. CASE JobStarts(t) \/ SendReturns(t)
    <3>1. handle' = handle /\ job[t].phase \in {"queued", "running"}
      BY <2>1 DEF JobStarts, SendReturns, worldVars
    <3>2. Open' \subseteq Held'
      BY <1>2, <1>4, <3>1, HandlesAssumption DEF Open
    <3>3. job'[t].phase = "running" \/ job'[t].op = "send"
      BY <2>1, <1>3 DEF JobStarts, SendReturns, JobStep, TypeOK, Jobs, Busy
    <3>4. ClosedIsFree'
      BY <1>5, <3>3 DEF ClosedIsFree
    <3>5. QED
      BY <3>2, <3>4
  <2>2. CASE JobDelivered(t)
    <3>1. handle' = handle /\ job[t].phase = "returned"
      BY <2>2 DEF JobDelivered, worldVars
    <3>2. Open' \subseteq Held'
      BY <1>2, <1>4, <3>1, HandlesAssumption DEF Open
    <3>3. ClosedIsFree'
      BY <1>2, <1>3, <3>1 DEF ClosedIsFree, Lossless, JobStep, Busy
    <3>4. QED
      BY <3>2, <3>3
  <2>3. CASE MakeReturns(t)
    <3>1. job'[t].op = "make" /\ job'[t] # None
      BY <1>3, <2>3 DEF MakeReturns, JobStep
    <3>2. ClosedIsFree'
      BY <1>5, <3>1 DEF ClosedIsFree
    <3>3. CASE gateway = "up"
      <4>1. PICK b \in Unused :
                 /\ handle' = [handle EXCEPT ![b] = "live"]
                 /\ job' = [job EXCEPT ![t] = [@ EXCEPT !.phase = "returned", !.bus = b]]
        BY <2>3, <3>3 DEF MakeReturns
      <4>2. job'[t].bus = b
        BY <2>3, <4>1 DEF MakeReturns, TypeOK, Jobs, Busy
      <4>3. b \in Held'
        BY <3>1, <4>2, HeldSplitPrime DEF Busy
      <4>4. Open' \subseteq Open \cup {b}
        BY <4>1 DEF Open, TypeOK
      <4>5. QED
        BY <1>2, <1>4, <3>2, <4>3, <4>4, HandlesAssumption DEF Open
    <3>4. CASE gateway = "down"
      <4>1. handle' = handle
        BY <2>3, <3>4 DEF MakeReturns
      <4>2. QED
        BY <1>2, <1>4, <3>2, <4>1, HandlesAssumption DEF Open
    <3>5. QED
      BY <2>3, <3>3, <3>4 DEF MakeReturns
  <2>4. CASE ReleaseReturns(t)
    <3>1. Open' \subseteq Open
      BY <2>4 DEF ReleaseReturns, Open, TypeOK
    <3>2. Open' \subseteq Held'
      BY <1>2, <1>4, <3>1, HandlesAssumption DEF Open
    <3>3. CASE job[t].op = "close"
      <4>1. job'[t].bus \in Handles /\ handle' = [handle EXCEPT ![job'[t].bus] = "free"]
        BY <1>3, <2>4, <3>3, JobPlaces
        DEF ReleaseReturns, JobStep, Structure, Closing, TypeOK, Jobs, Busy
      <4>2. handle'[job'[t].bus] = "free"
        BY <4>1 DEF TypeOK
      <4>3. QED
        BY <1>5, <3>2, <4>2 DEF ClosedIsFree
    <3>4. CASE job[t].op # "close"
      BY <1>3, <1>5, <3>2, <3>4 DEF ClosedIsFree, JobStep
    <3>5. QED
      BY <3>3, <3>4
  <2>5. QED
    BY <2>1, <2>2, <2>3, <2>4 DEF Executor
<1>7. QED
  BY <1>1, <1>2, <1>6 DEF Kept

\* A step of a task leaves the world alone, starts jobs from "queued", and
\* hands on what it held.
TaskStep ==
    /\ handle' = handle /\ strays' = strays /\ cut' = cut
    /\ pc'["owner"] # "abandoned"
    /\ \A t \in Tasks : Busy(t)' => job'[t] = job[t] \/ job'[t].phase = "queued"
    /\ bus \in Handles => bus \in Held'
    /\ \A t \in Tasks :
          Busy(t) /\ job[t].op \in {"make", "stop", "close"} /\ job[t].bus # None
              => job[t].bus \in Held' \/ (job[t].op = "close" /\ Delivered(t))

LEMMA TaskStepKeeps ==
    ASSUME TypeOK, Kept, TaskStep
    PROVE  Kept'
<1> SUFFICES ASSUME Lossless' PROVE Kept'
  BY DEF Kept
<1>1. Lossless /\ (\A s \in strays : s.op # "make") /\ ClosedIsFree /\ Open \subseteq Held
  BY DEF TaskStep, Lossless, Kept
<1>2. ClosedIsFree'
  BY <1>1 DEF TaskStep, ClosedIsFree, Lossless, Busy
<1>3. Open' \subseteq Held'
  <2>1. SUFFICES ASSUME NEW b \in Open PROVE b \in Held'
    BY DEF TaskStep, Open
  <2>2. b \in Handles /\ b # None /\ handle[b] # "free" /\ b \in Held
    BY <1>1, HandlesAssumption DEF Open
  <2>3. CASE b = bus
    BY <2>2, <2>3 DEF TaskStep
  <2>4. CASE \E t \in Tasks : Busy(t) /\ job[t].op # "send" /\ b = job[t].bus
    <3>1. PICK t \in Tasks : Busy(t) /\ job[t].op # "send" /\ b = job[t].bus
      BY <2>4
    <3>2. job[t].op \in {"make", "stop", "close"}
      BY <3>1 DEF TypeOK, Jobs, Busy
    <3>3. CASE job[t].op = "close" /\ Delivered(t)
      BY <1>1, <2>2, <3>1, <3>3 DEF ClosedIsFree, Lossless, Delivered
    <3>4. QED
      BY <2>2, <3>1, <3>2, <3>3 DEF TaskStep
  <2>5. CASE \E s \in strays : s.op = "close" /\ b = s.bus
    BY <2>5, HeldSplitPrime DEF TaskStep
  <2>6. QED
    BY <2>2, <2>3, <2>4, <2>5, HeldSplit
<1>4. QED
  BY <1>1, <1>2, <1>3 DEF Kept, TaskStep

LEMMA TasksKeep ==
    ASSUME TypeOK, Structure, Kept,
           (\E t \in Tasks : Connecting(t)) \/ Owner \/ ReadLoop \/ LivenessTimeout
    PROVE  Kept'
<1> USE NoneAssumption, HandlesAssumption, JobTyped, HeldSplitPrime
    DEF TaskStep, Structure, Alone, Stopping, Closing, Making, MakeResult, Sending,
        Resting, Busy, Delivered, Await, Goto, Job, TypeOK, controllerVars, worldVars
<1>1. ASSUME NEW t \in Tasks, StaleBusClosed(t) PROVE TaskStep
  BY <1>1 DEF StaleBusClosed
<1>2. ASSUME NEW t \in Tasks, BusOpened(t) PROVE TaskStep
  BY <1>2 DEF BusOpened
<1>3. CASE BeginSetup
  BY <1>3, TaskStepKeeps DEF BeginSetup, OpenBus, CloseOrMake
<1>4. CASE SetupFails \/ ReaderAwaited
  BY <1>4, TaskStepKeeps DEF SetupFails, Refused, ReaderAwaited, StopThenClose, CloseOrFinish
<1>5. CASE SetupDumpSent
  BY <1>5, TaskStepKeeps DEF SetupDumpSent
<1>6. CASE CollectEnds
  BY <1>6, TaskStepKeeps DEF CollectEnds
<1>7. CASE NotifierStopped
  BY <1>7, TaskStepKeeps DEF NotifierStopped, CloseOrFinish
<1>8. CASE BusClosed
  BY <1>8, TaskStepKeeps DEF BusClosed
<1>9. CASE BackoffElapses
  BY <1>9, TaskStepKeeps DEF BackoffElapses, OpenBus, CloseOrMake
<1>10. CASE FramesStopped
  BY <1>10, TaskStepKeeps DEF FramesStopped
<1>11. CASE ReconnectFails
  BY <1>11, TaskStepKeeps DEF ReconnectFails, Refused, Resume
<1>12. CASE Reconnected
  BY <1>12, TaskStepKeeps DEF Reconnected
<1>13. CASE LivenessTimeout
  BY <1>13, TaskStepKeeps DEF LivenessTimeout
<1>14. QED
  BY <1>1, <1>2, <1>3, <1>4, <1>5, <1>6, <1>7, <1>8, <1>9, <1>10, <1>11, <1>12,
     <1>13, TaskStepKeeps DEF Connecting, Owner, ReadLoop

LEMMA ReaderEndsKeeps ==
    ASSUME TypeOK, Structure, Kept, ReaderEnds
    PROVE  Kept'
<1> DEFINE j == job["reader"]
<1> SUFFICES ASSUME Lossless' PROVE Kept'
  BY DEF Kept
<1>1. /\ Abort("reader", {}) /\ Goto("reader", "none")
      /\ pc["owner"] = "down_reader" /\ bus' = bus
  BY DEF ReaderEnds, Cancelled, controllerVars
<1>2. cut \subseteq cut' /\ (Busy("reader") => <<j.op, j.phase>> \in cut')
  BY <1>1 DEF Abort
<1>3. Lossless /\ (\A s \in strays : s.op # "make") /\ ClosedIsFree /\ Open \subseteq Held
  BY <1>2 DEF Lossless, Kept
<1>4. ~Busy("owner") /\ (Busy("reader") => j \in Jobs)
  BY <1>1 DEF Structure, Resting, Busy, TypeOK
<1>5. pc'["owner"] # "abandoned" /\ ~Busy("reader")' /\ ~Busy("owner")'
  BY <1>1, <1>4 DEF Goto, TypeOK, Busy
<1>7. ClosedIsFree'
  BY <1>5 DEF ClosedIsFree
<1>8. \A s \in strays' : s.op # "make"
  <2>1. Busy("reader") => ~(j.op = "make" /\ j.phase = "running")
    BY <1>2 DEF Lossless, LosingCuts
  <2>2. QED
    BY <1>1, <1>3, <2>1 DEF Abort
<1>9. bus \in Held'
  BY <1>1, HeldSplitPrime
<1>10. Open' \subseteq Held'
  <2>1. SUFFICES ASSUME NEW b \in Handles, handle'[b] # "free" PROVE b \in Held'
    BY DEF Open
  <2>2. handle[b] # "free"
    BY <1>1, <2>1 DEF Abort, TypeOK
  <2>3. b \in Held /\ b # None
    BY <1>3, <2>2, HandlesAssumption DEF Open
  <2>4. CASE b = bus
    BY <1>9, <2>4
  <2>5. CASE \E s \in strays : s.op = "close" /\ b = s.bus
    <3>1. strays \subseteq strays'
      BY <1>1 DEF Abort
    <3>2. QED
      BY <2>5, <3>1, HeldSplitPrime
  <2>6. CASE Busy("reader") /\ j.op # "send" /\ b = j.bus
    <3>1. CASE j.op = "stop"
      BY <1>9, <2>6, <3>1, JobPlaces DEF Structure, Stopping
    <3>2. CASE j.op = "close"
      <4>1. j.phase # "queued"
        BY <1>2, <2>6, <3>2 DEF Lossless, LosingCuts
      <4>2. CASE j.phase = "running"
        <5>1. [op |-> j.op, bus |-> j.bus, life |-> lives] \in strays'
          BY <1>1, <2>6, <4>2 DEF Abort
        <5>2. QED
          BY <2>6, <3>2, <5>1, HeldSplitPrime
      <4>3. CASE j.phase \in {"returned", "delivered"}
        BY <1>3, <2>2, <2>6, <3>2, <4>3 DEF ClosedIsFree, Lossless
      <4>4. QED
        BY <1>4, <2>6, <4>1, <4>2, <4>3 DEF Jobs, Phases
    <3>3. CASE j.op = "make"
      <4>1. MakeResult(j)
        BY <2>6, <3>3, JobPlaces DEF Structure, Making
      <4>2. j.phase = "delivered" /\ j.ok
        BY <1>2, <1>4, <2>3, <2>6, <3>3, <4>1
        DEF MakeResult, Lossless, LosingCuts, Jobs, Phases
      <4>3. handle' = [handle EXCEPT ![b] = "free"]
        BY <1>1, <2>6, <3>3, <4>2 DEF Abort, Orphan
      <4>4. QED
        BY <2>1, <4>3 DEF TypeOK
    <3>4. QED
      BY <1>4, <2>6, <3>1, <3>2, <3>3 DEF Jobs
  <2>7. QED
    BY <1>4, <2>3, <2>4, <2>5, <2>6, HeldSplit
<1>11. QED
  BY <1>5, <1>7, <1>8, <1>10 DEF Kept

LEMMA OutsideKeeps ==
    ASSUME TypeOK, Structure, Kept,
           Environment \/ ReaderEnds \/ (\E s \in strays : StrayReturns(s))
    PROVE  Kept'
<1> SUFFICES ASSUME Lossless' PROVE Kept'
  BY DEF Kept
<1>1. CASE GatewayDrops \/ GatewayReturns
  <2>1. /\ strays' = strays /\ cut' = cut /\ pc' = pc /\ job' = job /\ bus' = bus
        /\ \A b \in Handles : handle'[b] = "free" <=> handle[b] = "free"
    BY <1>1 DEF GatewayDrops, GatewayReturns, TypeOK, controllerVars, worldVars
  <2>2. Held' = Held /\ Open' = Open
    BY <2>1 DEF Held, Open, Busy
  <2>3. ClosedIsFree => ClosedIsFree'
    BY <2>1, JobPlaces DEF ClosedIsFree, Busy, Structure, Closing, TypeOK, Jobs
  <2>4. QED
    BY <2>1, <2>2, <2>3 DEF Kept, Lossless
<1>2. CASE Shutdown
  <2>1. /\ pc'["owner"] # "abandoned"
        /\ UNCHANGED <<job, bus, handle, strays, cut>>
    BY <1>2 DEF Shutdown, TypeOK, controllerVars, worldVars
  <2>2. Held' = Held /\ Open' = Open /\ (ClosedIsFree => ClosedIsFree')
    BY <2>1 DEF Held, Open, Busy, ClosedIsFree
  <2>3. QED
    BY <2>1, <2>2 DEF Kept, Lossless
<1>3. CASE SetupCancelled
  <2>1. <<"setup", "cancelled">> \in cut'
    BY <1>3 DEF SetupCancelled, Abort
  <2>2. QED
    BY <2>1 DEF Lossless, LosingCuts
<1>4. CASE NewController
  <2>1. Lossless /\ pc["owner"] = "down"
    BY <1>4 DEF NewController, Kept, Lossless
  <2>2. bus = None /\ \A t \in Tasks : ~Busy(t)
    BY <2>1 DEF Structure, Alone, Resting, Busy
  <2>3. Held \subseteq Held' \cup {None}
    BY <1>4, <2>2, HeldSplit, HeldSplitPrime DEF NewController, worldVars
  <2>4. ClosedIsFree' /\ pc'["owner"] # "abandoned"
    BY <1>4 DEF NewController, ClosedIsFree, Busy, FreshPC
  <2>5. QED
    BY <1>4, <2>1, <2>3, <2>4, HandlesAssumption DEF NewController, Kept, Open, worldVars
<1>5. CASE \E s \in strays : StrayReturns(s)
  <2>1. PICK s \in strays : StrayReturns(s)
    BY <1>5
  <2>2. Lossless /\ (s.op = "close" \/ s.op = "stop")
    BY <2>1 DEF StrayReturns, Kept, Lossless
  <2>3. /\ pc' = pc /\ job' = job /\ bus' = bus /\ strays' = strays \ {s} /\ cut' = cut
        /\ handle' = IF s.op = "close" THEN [handle EXCEPT ![s.bus] = "free"] ELSE handle
    BY <2>1, <2>2 DEF StrayReturns, controllerVars
  <2>4. \A b \in Handles : handle'[b] # "free" => handle[b] # "free" /\ ~(s.op = "close" /\ b = s.bus)
    BY <2>3 DEF TypeOK
  <2>5. Open' \subseteq Held'
    <3>1. SUFFICES ASSUME NEW b \in Open' PROVE b \in Held'
      OBVIOUS
    <3>2. b \in Held /\ ~(s.op = "close" /\ b = s.bus)
      BY <2>3, <2>4 DEF Open, Kept, Lossless
    <3>3. QED
      BY <2>3, <3>2, HeldSplit, HeldSplitPrime DEF Busy
  <2>6. ClosedIsFree'
    BY <2>3, <2>4, JobPlaces DEF Kept, ClosedIsFree, Lossless, Busy, Structure, Closing, TypeOK, Jobs
  <2>7. QED
    BY <2>3, <2>5, <2>6 DEF Kept, Lossless
<1>6. CASE ReaderEnds
  BY <1>6, ReaderEndsKeeps
<1>7. QED
  BY <1>1, <1>2, <1>3, <1>4, <1>5, <1>6 DEF Environment

LEMMA KeptInductive ==
    ASSUME TypeOK, Structure, Kept, [Next]_vars
    PROVE  Kept'
<1>1. CASE \E t \in Tasks : Executor(t)
  BY <1>1, KeptByExecutor
<1>2. CASE (\E t \in Tasks : Connecting(t)) \/ Owner \/ ReadLoop \/ LivenessTimeout
  BY <1>2, TasksKeep
<1>3. CASE Environment \/ ReaderEnds \/ \E s \in strays : StrayReturns(s)
  BY <1>3, OutsideKeeps
<1>4. CASE UNCHANGED vars
  <2>1. Held' = Held /\ Open' = Open
    BY <1>4 DEF vars, Held, Open, Busy
  <2>2. ClosedIsFree => ClosedIsFree'
    BY <1>4 DEF vars, ClosedIsFree, Busy
  <2>3. QED
    BY <1>4, <2>1, <2>2 DEF vars, Kept, Lossless
<1>5. QED
  BY <1>1, <1>2, <1>3, <1>4 DEF Next

\* No bus handle is leaked, over any number of reconnects and controllers,
\* except by a cancellation that interrupts an open, a queued close or a setup
\* (_open_bus, async_shutdown, the coordinator's handling of a failed setup).
THEOREM NoHandleLeaks == Spec => []NoLeak
<1> DEFINE Inv == TypeOK /\ Structure /\ Kept
<1>1. Init => Inv
  <2>1. Init => Kept
    BY DEF Init, Kept, ClosedIsFree, Open, FreshPC, Busy
  <2>2. QED
    BY <2>1, InitialStructure
<1>2. Inv /\ [Next]_vars => Inv'
  BY TypeInductive, StructureInductive, KeptInductive
<1>3. Inv => NoLeak
  BY DEF Kept, NoLeak, Lossless
<1>4. QED
  BY <1>1, <1>2, <1>3, PTL DEF Spec

\* An interrupted close leaves a trace in the history.
Traced ==
    cut \cap HastyCuts = {} => \A s \in strays : s.op \notin {"make", "close"}

LEMMA TracedInductive ==
    ASSUME TypeOK, Structure, Traced, [Next]_vars
    PROVE  Traced'
<1>1. ASSUME NEW t \in Tasks, NEW reasons, Abort(t, reasons) PROVE Traced'
  <2>1. \A s \in strays' : s \in strays \/ (/\ Busy(t) /\ job[t].phase = "running"
                                            /\ s.op = job[t].op)
    BY <1>1 DEF Abort
  <2>2. cut \subseteq cut' /\ (Busy(t) => <<job[t].op, job[t].phase>> \in cut')
    BY <1>1 DEF Abort
  <2>3. QED
    BY <2>1, <2>2 DEF Traced, HastyCuts, LosingCuts
<1>2. CASE strays' \subseteq strays /\ cut' = cut
  BY <1>2 DEF Traced
<1>3. CASE ReaderEnds \/ SetupCancelled
  BY <1>1, <1>3 DEF ReaderEnds, SetupCancelled
<1>4. CASE \E t \in Tasks : Executor(t) \/ Connecting(t)
  BY <1>2, <1>4
  DEF Executor, JobStarts, MakeReturns, ReleaseReturns, SendReturns, JobDelivered,
      Connecting, StaleBusClosed, BusOpened, worldVars
<1>5. CASE Owner \/ ReadLoop \/ LivenessTimeout
  BY <1>2, <1>5
  DEF Owner, ReadLoop, BeginSetup, SetupFails, SetupDumpSent, CollectEnds, ReaderAwaited,
      NotifierStopped, BusClosed, BackoffElapses, FramesStopped, ReconnectFails, Reconnected,
      LivenessTimeout, worldVars
<1>6. CASE \/ GatewayDrops \/ GatewayReturns \/ Shutdown \/ NewController
           \/ (\E s \in strays : StrayReturns(s)) \/ UNCHANGED vars
  BY <1>2, <1>6
  DEF GatewayDrops, GatewayReturns, Shutdown, NewController, StrayReturns, vars, worldVars
<1>7. QED
  BY <1>3, <1>4, <1>5, <1>6 DEF Next, Environment

\* At most one bus is open at any time, so that an exclusive serial adapter is
\* never opened twice, unless a cancellation interrupted an open or a close.
THEOREM OneBus == Spec => []OneBusAtATime
<1> DEFINE Inv == TypeOK /\ Structure /\ Kept /\ Traced
<1>1. Init => Inv
  <2>1. Init => Kept /\ Traced
    BY DEF Init, Kept, ClosedIsFree, Open, FreshPC, Busy, Traced
  <2>2. QED
    BY <2>1, InitialStructure
<1>2. Inv /\ [Next]_vars => Inv'
  BY TypeInductive, StructureInductive, KeptInductive, TracedInductive
<1>3. Inv => OneBusAtATime
  <2> SUFFICES ASSUME Inv, cut \cap HastyCuts = {}, NEW b \in Open, NEW c \in Open PROVE b = c
    BY DEF OneBusAtATime
  <2>1. Open \subseteq Held /\ Open \subseteq Handles /\ \A s \in strays : s.op # "close"
    BY DEF Kept, Lossless, HastyCuts, Traced, Open
  <2>2. \A d \in Open : d = bus \/ \E t \in Tasks : Busy(t) /\ job[t].op # "send" /\ d = job[t].bus
    BY <2>1, HeldSplit
  <2>3. \A t \in Tasks : Busy(t) /\ job[t].op # "send" => bus = None \/ job[t].bus = bus
    BY JobPlaces DEF Structure, Stopping, Closing, Making, TypeOK, Jobs, Busy
  <2>4. QED
    BY <2>1, <2>2, <2>3, OneBusy, HandlesAssumption
<1>4. QED
  BY <1>1, <1>2, <1>3, PTL DEF Spec

-----------------------------------------------------------------------------
(* The controller implements LinkSupervisor.  LinkPhase reads both program   *)
(* counters; the following lemmas say what it is for each of them.           *)

OwnerPhase(p) ==
    CASE p \in ConnectPCs \cup {"new", "collect"} -> "starting"
      [] p \in {"down_reader", "down_stop", "down_close"} -> "stopping"
      [] p \in {"down", "abandoned"} -> "stopped"
      [] OTHER -> "running"

ReaderPhase(p) ==
    CASE p \in ConnectPCs -> "retrying"
      [] p \in {"frames_stop", "backoff"} -> "waiting"
      [] OTHER -> "listening"

LEMMA PhaseOfTasks ==
    ASSUME TypeOK
    PROVE  LinkPhase = IF pc["owner"] = "running" THEN ReaderPhase(pc["reader"])
                                                  ELSE OwnerPhase(pc["owner"])
BY DEF TypeOK, LinkPhase, OwnerPhase, ReaderPhase, OwnerPCs, ConnectPCs

\* A step that leaves the supervisor where it is.
Unnoticed == LinkPhase' = LinkPhase /\ backoff' = backoff /\ repairActive' = repairActive

LEMMA UnnoticedStutters == Unnoticed => UNCHANGED Supervisor!svars
BY DEF Unnoticed, Supervisor!svars

\* A step on which both tasks stay within their phases is unnoticed.
LEMMA SamePhases ==
    ASSUME TypeOK, TypeOK',
           OwnerPhase(pc'["owner"]) = OwnerPhase(pc["owner"]),
           pc["owner"] = "running" => ReaderPhase(pc'["reader"]) = ReaderPhase(pc["reader"]),
           backoff' = backoff, repairActive' = repairActive
    PROVE  UNCHANGED Supervisor!svars
<1>1. (pc["owner"] = "running") <=> (pc'["owner"] = "running")
  BY DEF TypeOK, OwnerPhase, OwnerPCs, ConnectPCs
<1>2. LinkPhase' = IF pc'["owner"] = "running" THEN ReaderPhase(pc'["reader"])
                                               ELSE OwnerPhase(pc'["owner"])
  BY DEF TypeOK, LinkPhase, OwnerPhase, ReaderPhase, OwnerPCs, ConnectPCs
<1>3. LinkPhase' = LinkPhase
  BY <1>1, <1>2, PhaseOfTasks
<1>4. QED
  BY <1>3, UnnoticedStutters DEF Unnoticed

\* async_shutdown goes from any state to stopping or straight to stopped.
LEMMA ClosingPhases ==
    ASSUME TypeOK, StopThenClose \/ CloseOrFinish
    PROVE  LinkPhase' \in {"stopping", "stopped"}
BY DEF TypeOK, StopThenClose, CloseOrFinish, Await, Goto, LinkPhase, ConnectPCs

LEMMA StopImplemented ==
    ASSUME TypeOK, TypeOK', Structure,
           \/ SetupFails \/ Shutdown \/ ReaderAwaited \/ NotifierStopped \/ BusClosed
           \/ SetupCancelled
    PROVE  [Supervisor!Stop]_Supervisor!svars
<1> USE DEF Supervisor!Stop, Supervisor!svars, controllerVars
<1>1. CASE SetupFails
  <2>1. LinkPhase = "starting"
    BY <1>1 DEF SetupFails, Refused, LinkPhase, ConnectPCs
  <2>2. QED
    BY <1>1, <2>1, ClosingPhases DEF SetupFails
<1>2. CASE Shutdown
  <2>1. LinkPhase \in {"listening", "waiting", "retrying"} /\ LinkPhase' = "stopping"
    BY <1>2 DEF Shutdown, LinkPhase, ConnectPCs, TypeOK
  <2>2. QED
    BY <1>2, <2>1 DEF Shutdown
<1>3. CASE ReaderAwaited \/ NotifierStopped
  <2>1. LinkPhase = "stopping"
    BY <1>3 DEF ReaderAwaited, NotifierStopped, LinkPhase, ConnectPCs
  <2>2. QED
    BY <1>3, <2>1, ClosingPhases DEF ReaderAwaited, NotifierStopped
<1>4. CASE BusClosed
  <2>1. LinkPhase = "stopping" /\ LinkPhase' = "stopped"
    BY <1>4 DEF BusClosed, Goto, LinkPhase, ConnectPCs, TypeOK
  <2>2. QED
    BY <1>4, <2>1 DEF BusClosed
<1>5. CASE SetupCancelled
  <2>1. LinkPhase = "starting" /\ LinkPhase' = "stopped"
    BY <1>5 DEF SetupCancelled, Goto, LinkPhase, ConnectPCs, TypeOK
  <2>2. QED
    BY <1>5, <2>1 DEF SetupCancelled
<1>6. QED
  BY <1>1, <1>2, <1>3, <1>4, <1>5

\* A reconnect runs under a controller that is not being set up or shut down.
LEMMA RetryingWhileRunning ==
    ASSUME TypeOK, Structure, pc["reader"] # "none", ~Cancelled("reader")
    PROVE  pc["owner"] = "running" /\ LinkPhase = ReaderPhase(pc["reader"])
BY PhaseOfTasks DEF Structure, Alone, Cancelled

LEMMA LoopImplemented ==
    ASSUME TypeOK, TypeOK', Structure, RepairAtCeiling, ReadLoop \/ LivenessTimeout
    PROVE  [Supervisor!SNext]_Supervisor!svars
<1> USE BackoffAssumption
    DEF Supervisor!SNext, Supervisor!svars, controllerVars
<1>1. pc["reader"] # "none" /\ ~Cancelled("reader")
  BY DEF ReadLoop, LivenessTimeout, BackoffElapses, FramesStopped, ReconnectFails,
         Reconnected, Refused, Delivered
<1>2. /\ pc["owner"] = "running"
      /\ LinkPhase = ReaderPhase(pc["reader"])
  BY <1>1, RetryingWhileRunning
<1>3. CASE LivenessTimeout
  <2>1. LinkPhase = "listening" /\ LinkPhase' = "waiting"
    BY <1>2, <1>3 DEF LivenessTimeout, Await, LinkPhase, ConnectPCs, TypeOK
  <2>2. QED
    BY <1>3, <2>1 DEF LivenessTimeout, Supervisor!Lose
<1>4. CASE BackoffElapses
  <2>1. LinkPhase = "waiting" /\ LinkPhase' = "retrying"
    BY <1>2, <1>4 DEF BackoffElapses, OpenBus, CloseOrMake, Await, LinkPhase, ConnectPCs, TypeOK
  <2>2. QED
    BY <1>4, <2>1 DEF BackoffElapses, Supervisor!Retry
<1>5. CASE FramesStopped
  <2>1. ReaderPhase(pc'["reader"]) = ReaderPhase(pc["reader"]) /\ pc'["owner"] = pc["owner"]
    BY <1>5 DEF FramesStopped, Goto, ReaderPhase, ConnectPCs, TypeOK
  <2>2. QED
    BY <1>5, <2>1, SamePhases DEF FramesStopped
<1>6. CASE ReconnectFails
  <2>1. LinkPhase = "retrying" /\ LinkPhase' \in {"waiting", "listening"}
    BY <1>2, <1>6 DEF ReconnectFails, Refused, Resume, Goto, LinkPhase, ConnectPCs, TypeOK
  <2>2. backoff' = Supervisor!Doubled
    BY <1>6 DEF ReconnectFails, Longer, Lesser, Supervisor!Doubled
  <2>3. repairActive' = (Supervisor!Doubled = BackoffMax)
    <3>1. Longer = Supervisor!Doubled /\ Longer \in 1..BackoffMax
      BY DelayBounds DEF Longer, Lesser, Supervisor!Doubled, TypeOK
    <3>2. CASE Longer = BackoffMax
      <4>1. AtCeiling(Longer)
        BY <3>2 DEF AtCeiling
      <4>2. repairActive' = TRUE
        BY <1>6, <4>1 DEF ReconnectFails, RaiseRepairIssue
      <4>3. QED
        BY <3>1, <3>2, <4>2
    <3>3. CASE Longer # BackoffMax
      <4>1. ~AtCeiling(Longer)
        BY <3>1, <3>3 DEF AtCeiling
      <4>2. repairActive' = repairActive
        BY <1>6, <4>1 DEF ReconnectFails
      <4>3. backoff # BackoffMax
        BY <3>3 DEF Longer, Lesser, TypeOK
      <4>4. repairActive = FALSE
        BY <4>3 DEF RepairAtCeiling, TypeOK
      <4>5. QED
        BY <3>1, <3>3, <4>2, <4>4
    <3>4. QED
      BY <3>2, <3>3
  <2>4. QED
    BY <2>1, <2>2, <2>3 DEF Supervisor!Fail
<1>7. CASE Reconnected
  <2>1. LinkPhase = "retrying" /\ LinkPhase' = "listening"
    BY <1>2, <1>7 DEF Reconnected, Goto, LinkPhase, ConnectPCs, TypeOK
  <2>2. QED
    BY <1>7, <2>1 DEF Reconnected, ResetBackoff, ClearRepairIssue, Supervisor!Regain
<1>8. QED
  BY <1>3, <1>4, <1>5, <1>6, <1>7 DEF ReadLoop

LEMMA OpeningUnnoticed ==
    ASSUME TypeOK, TypeOK', Structure, NEW t \in Tasks,
           Executor(t) \/ Connecting(t)
    PROVE  UNCHANGED Supervisor!svars
<1> USE DEF controllerVars
<1>1. backoff' = backoff /\ repairActive' = repairActive
  BY DEF Executor, JobStarts, MakeReturns, ReleaseReturns, SendReturns, JobDelivered,
         Connecting, StaleBusClosed, BusOpened
<1>2. CASE Executor(t)
  <2>1. pc' = pc
    BY <1>2 DEF Executor, JobStarts, MakeReturns, ReleaseReturns, SendReturns, JobDelivered
  <2>2. QED
    BY <1>1, <2>1, SamePhases
<1>3. CASE Connecting(t)
  <2>1. \A u \in Tasks : \/ pc'[u] = pc[u]
                         \/ pc[u] \in ConnectPCs /\ pc'[u] \in ConnectPCs
    BY <1>3 DEF Connecting, StaleBusClosed, BusOpened, Await, ConnectPCs, TypeOK
  <2>2. /\ OwnerPhase(pc'["owner"]) = OwnerPhase(pc["owner"])
        /\ ReaderPhase(pc'["reader"]) = ReaderPhase(pc["reader"])
    BY <2>1 DEF OwnerPhase, ReaderPhase, ConnectPCs
  <2>3. QED
    BY <1>1, <2>2, SamePhases
<1>4. QED
  BY <1>2, <1>3

LEMMA StepImplemented ==
    ASSUME TypeOK, TypeOK', Structure, RepairAtCeiling, [Next]_vars
    PROVE  [Supervisor!SNext]_Supervisor!svars
<1> USE DEF controllerVars
<1>1. CASE \E t \in Tasks : Executor(t) \/ Connecting(t)
  BY <1>1, OpeningUnnoticed
<1>2. CASE ReadLoop \/ LivenessTimeout
  BY <1>2, LoopImplemented
<1>3. CASE \/ SetupFails \/ Shutdown \/ ReaderAwaited \/ NotifierStopped \/ BusClosed
           \/ SetupCancelled
  BY <1>3, StopImplemented DEF Supervisor!SNext
<1>4. CASE BeginSetup \/ SetupDumpSent
  <2>1. /\ OwnerPhase(pc'["owner"]) = OwnerPhase(pc["owner"])
        /\ pc["owner"] # "running"
    BY <1>4 DEF BeginSetup, SetupDumpSent, OpenBus, CloseOrMake, Await, Goto,
                OwnerPhase, ConnectPCs, TypeOK
  <2>2. QED
    BY <1>4, <2>1, SamePhases DEF BeginSetup, SetupDumpSent
<1>5. CASE CollectEnds
  <2>1. LinkPhase = "starting" /\ LinkPhase' = "listening"
    BY <1>5 DEF CollectEnds, LinkPhase, ConnectPCs, TypeOK
  <2>2. QED
    BY <1>5, <2>1 DEF CollectEnds, Supervisor!SNext, Supervisor!Listen
<1>6. CASE NewController
  <2>1. LinkPhase = "stopped" /\ LinkPhase' = "starting"
    BY <1>6 DEF NewController, FreshPC, LinkPhase, ConnectPCs
  <2>2. QED
    BY <1>6, <2>1 DEF NewController, Supervisor!SNext, Supervisor!Restart
<1>7. CASE GatewayDrops \/ GatewayReturns \/ (\E s \in strays : StrayReturns(s)) \/ UNCHANGED vars
  <2>1. pc' = pc /\ backoff' = backoff /\ repairActive' = repairActive
    BY <1>7 DEF GatewayDrops, GatewayReturns, StrayReturns, vars
  <2>2. QED
    BY <2>1, SamePhases
<1>8. CASE ReaderEnds
  <2>1. pc'["owner"] = pc["owner"] /\ pc["owner"] # "running"
    BY <1>8 DEF ReaderEnds, Cancelled, Goto, TypeOK
  <2>2. QED
    BY <1>8, <2>1, SamePhases DEF ReaderEnds
<1>9. QED
  BY <1>1, <1>2, <1>3, <1>4, <1>5, <1>6, <1>7, <1>8 DEF Next, Owner, Environment

\* Whatever its executor jobs, handles and notifiers do, the controller behaves
\* like the supervisor: it listens, waits after a loss, retries once per wait,
\* doubles the wait up to the ceiling and raises the repair issue exactly there
\* (_read_loop, async_setup, async_shutdown).
THEOREM ControllerImplementsSupervisor == Spec => ImplementsSupervisor
<1> DEFINE Inv == TypeOK /\ Structure /\ StartsPatient /\ RepairAtCeiling
<1>1. Init => Inv
  BY InitialStructure, BackoffAssumption DEF Init, StartsPatient, RepairAtCeiling
<1>2. Inv /\ [Next]_vars => Inv'
  BY TypeInductive, StructureInductive, PatienceInductive, CeilingInductive
<1>3. Init => Supervisor!SInit
  BY DEF Init, FreshPC, LinkPhase, Supervisor!SInit
<1>4. Inv /\ Inv' /\ [Next]_vars => [Supervisor!SNext]_Supervisor!svars
  BY StepImplemented
<1>5. QED
  BY <1>1, <1>2, <1>3, <1>4, PTL DEF Spec, ImplementsSupervisor, Supervisor!SSafe

\* What the supervisor promises about its alarm, the controller's flag for the
\* repair issue: whatever waits it has, it is set exactly while the next wait is
\* the longest.
THEOREM SupervisorAlarms == ImplementsSupervisor => []RepairAtCeiling
<1> DEFINE Inv == RepairAtCeiling /\ (LinkPhase = "starting" => ~repairActive)
<1>1. Supervisor!SInit => Inv
  BY BackoffAssumption DEF Supervisor!SInit, RepairAtCeiling
<1>2. ASSUME Inv, [Supervisor!SNext]_Supervisor!svars PROVE Inv'
  <2>1. CASE Supervisor!Listen \/ Supervisor!Regain \/ Supervisor!Restart
    BY <1>2, <2>1, BackoffAssumption
    DEF RepairAtCeiling, Supervisor!Listen, Supervisor!Regain, Supervisor!Restart
  <2>2. CASE Supervisor!Fail
    BY <2>2 DEF RepairAtCeiling, Supervisor!Fail
  <2>3. CASE Supervisor!Lose \/ Supervisor!Retry \/ Supervisor!Stop \/ UNCHANGED Supervisor!svars
    BY <1>2, <2>3
    DEF RepairAtCeiling, Supervisor!Lose, Supervisor!Retry, Supervisor!Stop, Supervisor!svars
  <2>4. QED
    BY <1>2, <2>1, <2>2, <2>3 DEF Supervisor!SNext
<1>3. QED
  BY <1>1, <1>2, PTL DEF ImplementsSupervisor, Supervisor!SSafe

-----------------------------------------------------------------------------
(* No bus is closed under a running notifier.  As long as no cancellation    *)
(* dropped or overtook a stop, every thread that listens on a bus is the     *)
(* notifier of the controller or one that a job is about to stop, and a      *)
(* close that runs on without its task is of a bus that nobody else knows.   *)

Undisturbed == cut \cap DeafCuts = {}

Stops(t, b) ==
    /\ Busy(t) /\ job[t].op = "stop" /\ job[t].bus = b
    /\ job[t].phase \in {"queued", "running"}

Known(b) == b \in {None, bus} \/ \E t \in Tasks : Busy(t) /\ job[t].bus = b

Tended ==
    /\ \A b \in threads : b = notifier \/ \E t \in Tasks : Stops(t, b)
    /\ \A s \in strays : s.op = "close" =>
          s.bus # None /\ ~Known(s.bus) /\ s.bus \notin threads
    /\ pc["owner"] # "abandoned"

\* What a task may do to the fields, the jobs and the threads in one step.
Handover ==
    /\ strays' = strays /\ cut' = cut
    /\ threads' \subseteq threads \cup {notifier'}
    /\ \A b \in threads : (b = notifier \/ \E t \in Tasks : Stops(t, b)) =>
                             (b = notifier' \/ \E t \in Tasks : Stops(t, b)')
    /\ Known(bus')
    /\ \A t \in Tasks : Busy(t)' => Known(job'[t].bus)
    /\ pc["owner"] # "abandoned" => pc'["owner"] # "abandoned"

LEMMA HandoverTends ==
    ASSUME TypeOK, Structure', Tended, Handover
    PROVE  Tended'
<1>1. notifier' \in {None, bus'}
  BY DEF Structure
<1>2. ASSUME NEW b \in threads' PROVE b = notifier' \/ \E t \in Tasks : Stops(t, b)'
  <2>1. CASE b \in threads
    BY <2>1 DEF Tended, Handover
  <2>2. QED
    BY <1>2, <2>1 DEF Handover
<1>3. ASSUME NEW s \in strays', s.op = "close"
      PROVE  s.bus # None /\ ~Known(s.bus)' /\ s.bus \notin threads'
  <2>1. s.bus # None /\ ~Known(s.bus) /\ s.bus \notin threads
    BY <1>3 DEF Handover, Tended
  <2>2. s.bus # bus' /\ s.bus # notifier'
    BY <1>1, <2>1 DEF Handover
  <2>3. QED
    BY <2>1, <2>2 DEF Handover, Known
<1>4. QED
  BY <1>2, <1>3 DEF Tended, Handover

\* While a bus is being closed or made nobody listens.
LEMMA Silence ==
    ASSUME TypeOK, Structure, Tended, NEW t \in Tasks, Busy(t), job[t].op \in {"close", "make"}
    PROVE  threads = {} /\ notifier = None /\ bus = None
<1>1. notifier = None /\ bus = None
  BY JobPlaces DEF Structure, Closing, Making
<1>2. \A b : \A u \in Tasks : ~Stops(u, b)
  BY OneBusy DEF Stops
<1>3. QED
  BY <1>1, <1>2, HandlesAssumption DEF Tended, TypeOK

LEMMA ExecutorTends ==
    ASSUME TypeOK, Structure, Tended, NEW t \in Tasks, Executor(t)
    PROVE  Tended'
<1> USE DEF controllerVars, worldVars
<1>1. JobStep(t)
  BY ExecutorIsJobStep
<1>2. strays' = strays /\ notifier' = notifier /\ bus' = bus
  BY DEF Executor, JobStarts, MakeReturns, ReleaseReturns, SendReturns, JobDelivered
<1>3. job[t] \in Jobs /\ job' \in [Tasks -> Jobs \cup {None}]
  BY TypeInductive DEF TypeOK, JobStep, Busy, Next, Executor, JobStarts, MakeReturns,
     ReleaseReturns, SendReturns, JobDelivered
<1>4. ASSUME NEW u \in Tasks, Busy(u)'
      PROVE  Known(job'[u].bus) \/ \A s \in strays : s.bus # job'[u].bus
  <2>1. CASE u # t
    BY <1>1, <1>4, <2>1 DEF JobStep, Known, Busy
  <2>2. CASE u = t /\ job[t].op # "make"
    BY <1>1, <2>2 DEF JobStep, Known
  <2>3. CASE u = t /\ job[t].op = "make"
    <3>1. CASE job'[t].bus = job[t].bus
      BY <1>1, <2>3, <3>1 DEF JobStep, Known
    <3>2. CASE MakeReturns(t) /\ gateway = "up"
      <4>1. PICK b \in Unused :
                 job' = [job EXCEPT ![t] = [@ EXCEPT !.phase = "returned", !.bus = b]]
        BY <3>2 DEF MakeReturns
      <4>2. job'[t].bus = b
        BY <1>3, <4>1 DEF TypeOK, Jobs
      <4>3. QED
        BY <2>3, <4>1, <4>2 DEF Unused
    <3>3. CASE MakeReturns(t) /\ gateway = "down"
      <4>1. job' = [job EXCEPT ![t] = [@ EXCEPT !.phase = "returned", !.ok = FALSE]]
        BY <3>3 DEF MakeReturns
      <4>2. job'[t].bus = job[t].bus
        BY <1>3, <4>1 DEF TypeOK, Jobs
      <4>3. QED
        BY <3>1, <4>2
    <3>4. CASE JobStarts(t) \/ JobDelivered(t)
      <4>1. job'[t].bus = job[t].bus
        BY <1>3, <3>4 DEF JobStarts, JobDelivered, TypeOK, Jobs
      <4>2. QED
        BY <3>1, <4>1
    <3>5. ~ReleaseReturns(t) /\ ~SendReturns(t)
      BY <2>3 DEF ReleaseReturns, SendReturns
    <3>6. QED
      BY <3>2, <3>3, <3>4, <3>5 DEF Executor, MakeReturns
  <2>4. QED
    BY <2>1, <2>2, <2>3
<1>5. threads' \subseteq threads
  BY DEF Executor, JobStarts, MakeReturns, ReleaseReturns, SendReturns, JobDelivered
<1>6. ASSUME NEW b \in threads', NEW u \in Tasks, Stops(u, b) PROVE Stops(u, b)'
  <2>1. CASE u # t
    BY <1>1, <1>6, <2>1 DEF JobStep, Stops, Busy
  <2>2. CASE u = t /\ JobStarts(t)
    <3>1. job'[t].phase = "running"
      BY <1>3, <2>2 DEF JobStarts, TypeOK, Jobs
    <3>2. Busy(t)' /\ job'[t].op = "stop" /\ job'[t].bus = b
      BY <1>1, <1>6, <2>2 DEF JobStep, Stops, Busy
    <3>3. QED
      BY <2>2, <3>1, <3>2 DEF Stops
  <2>3. CASE u = t /\ ReleaseReturns(t)
    BY <1>6, <2>3 DEF ReleaseReturns, Stops
  <2>4. QED
    BY <1>6, <2>1, <2>2, <2>3
    DEF Stops, Executor, MakeReturns, SendReturns, JobDelivered
<1>7. QED
  BY <1>1, <1>2, <1>4, <1>5, <1>6 DEF Tended, Known, JobStep

LEMMA TasksTend ==
    ASSUME TypeOK, Structure, Structure', Tended,
           (\E t \in Tasks : Connecting(t)) \/ Owner \/ ReadLoop \/ LivenessTimeout
    PROVE  Tended'
<1> USE NoneAssumption, HandlesAssumption, JobTyped
    DEF Handover, Known, Stops, Structure, Alone, Stopping, Closing, Making, MakeResult,
        Sending, Resting, Busy, Delivered, Await, Goto, Job, TypeOK, controllerVars, worldVars
<1>1. ASSUME NEW t \in Tasks, StaleBusClosed(t) PROVE Handover
  BY <1>1 DEF StaleBusClosed
<1>2. ASSUME NEW t \in Tasks, BusOpened(t) PROVE Handover
  BY <1>2 DEF BusOpened
<1>3. CASE BeginSetup
  BY <1>3, HandoverTends DEF BeginSetup, OpenBus, CloseOrMake
<1>4. CASE SetupFails \/ ReaderAwaited
  BY <1>4, HandoverTends DEF SetupFails, Refused, ReaderAwaited, StopThenClose, CloseOrFinish
<1>5. CASE SetupDumpSent
  BY <1>5, HandoverTends DEF SetupDumpSent
<1>6. CASE CollectEnds
  BY <1>6, HandoverTends DEF CollectEnds
<1>7. CASE NotifierStopped
  BY <1>7, HandoverTends DEF NotifierStopped, CloseOrFinish
<1>8. CASE BusClosed
  BY <1>8, HandoverTends DEF BusClosed
<1>9. CASE BackoffElapses
  BY <1>9, HandoverTends DEF BackoffElapses, OpenBus, CloseOrMake
<1>10. CASE FramesStopped
  BY <1>10, HandoverTends DEF FramesStopped
<1>11. CASE ReconnectFails
  BY <1>11, HandoverTends DEF ReconnectFails, Refused, Resume
<1>12. CASE Reconnected
  BY <1>12, HandoverTends DEF Reconnected
<1>13. CASE LivenessTimeout
  BY <1>13, HandoverTends DEF LivenessTimeout
<1>14. QED
  BY <1>1, <1>2, <1>3, <1>4, <1>5, <1>6, <1>7, <1>8, <1>9, <1>10, <1>11, <1>12,
     <1>13, HandoverTends DEF Connecting, Owner, ReadLoop

\* A reader that ends in the middle of a close leaves it running, of a bus that
\* the controller has already let go.
LEMMA ReaderEndsTends ==
    ASSUME TypeOK, Structure, Tended, Undisturbed', ReaderEnds
    PROVE  Tended'
<1> DEFINE j == job["reader"]
<1>1. /\ Abort("reader", {}) /\ Goto("reader", "none") /\ pc["owner"] = "down_reader"
      /\ UNCHANGED <<bus, notifier, threads>>
  BY DEF ReaderEnds, Cancelled, controllerVars
<1>2. ~Busy("owner")
  BY <1>1 DEF Structure, Resting, Busy
<1>3. Busy("reader") => ~(j.op = "stop" /\ j.phase \in {"queued", "running"})
  BY <1>1 DEF Abort, Undisturbed, DeafCuts
<1>4. \A b \in threads : b = notifier
  BY <1>2, <1>3 DEF Tended, Stops
<1>5. \A t \in Tasks : ~Busy(t)'
  BY <1>1, <1>2 DEF Goto, TypeOK, Busy
<1>6. ASSUME NEW s \in strays', s.op = "close"
      PROVE  s.bus # None /\ ~Known(s.bus)' /\ s.bus \notin threads'
  <2>1. CASE s \in strays
    BY <1>1, <1>5, <1>6, <2>1 DEF Tended, Known
  <2>2. CASE s \notin strays
    <3>1. Busy("reader") /\ j.op = "close" /\ s.bus = j.bus
      BY <1>1, <1>6, <2>2 DEF Abort
    <3>2. threads = {} /\ bus = None /\ j.bus # None
      BY <3>1, Silence, JobPlaces DEF Structure, Closing
    <3>3. QED
      BY <1>1, <1>5, <3>1, <3>2 DEF Known
  <2>3. QED
    BY <2>1, <2>2
<1>7. pc'["owner"] # "abandoned"
  BY <1>1 DEF Goto, TypeOK
<1>8. QED
  BY <1>1, <1>4, <1>6, <1>7 DEF Tended

\* A cancellation is never forgotten.
LEMMA CutsRemain ==
    ASSUME [Next]_vars
    PROVE  cut \subseteq cut'
BY DEF Next, Owner, ReadLoop, Environment, Executor, JobStarts, MakeReturns,
       ReleaseReturns, SendReturns, JobDelivered, Connecting, StaleBusClosed, BusOpened,
       BeginSetup, SetupFails, SetupDumpSent, CollectEnds, ReaderAwaited, NotifierStopped, BusClosed,
       BackoffElapses, FramesStopped, ReconnectFails, Reconnected, LivenessTimeout,
       GatewayDrops, GatewayReturns, Shutdown, ReaderEnds, SetupCancelled, NewController,
       StrayReturns, Abort, vars, worldVars

LEMMA TendedInductive ==
    ASSUME TypeOK, Structure, Undisturbed => Tended, [Next]_vars
    PROVE  (Undisturbed => Tended)'
<1> SUFFICES ASSUME Undisturbed' PROVE Tended'
  OBVIOUS
<1>1. Structure'
  BY StructureInductive
<1>2. cut \subseteq cut'
  BY CutsRemain
<1>3. Tended
  BY <1>2 DEF Undisturbed
<1>4. CASE \E t \in Tasks : Executor(t)
  BY <1>3, <1>4, ExecutorTends
<1>5. CASE (\E t \in Tasks : Connecting(t)) \/ Owner \/ ReadLoop \/ LivenessTimeout
  BY <1>1, <1>3, <1>5, TasksTend
<1>6. CASE ReaderEnds
  BY <1>3, <1>6, ReaderEndsTends
<1>7. CASE SetupCancelled
  BY <1>7 DEF SetupCancelled, Abort, Undisturbed, DeafCuts
<1>8. CASE NewController
  <2>1. threads' = threads /\ strays' = strays
    BY <1>8 DEF NewController, worldVars
  <2>2. notifier = None /\ \A t \in Tasks : ~Busy(t)
    BY <1>3, <1>8 DEF NewController, Tended, Structure, Alone, Resting, Busy
  <2>3. threads = {}
    BY <1>3, <2>2, HandlesAssumption DEF Tended, Stops, TypeOK
  <2>4. bus' = None /\ (\A t \in Tasks : ~Busy(t)') /\ pc'["owner"] # "abandoned"
    BY <1>8 DEF NewController, Busy, FreshPC
  <2>5. QED
    BY <1>3, <2>1, <2>3, <2>4 DEF Tended, Known
<1>9. CASE GatewayDrops \/ GatewayReturns \/ (\E s \in strays : StrayReturns(s)) \/ UNCHANGED vars
  <2>1. /\ pc' = pc /\ job' = job /\ bus' = bus /\ notifier' = notifier
        /\ strays' \subseteq strays /\ threads' \subseteq threads
    BY <1>9 DEF GatewayDrops, GatewayReturns, StrayReturns, vars, controllerVars, worldVars
  <2>2. QED
    BY <1>3, <2>1 DEF Tended, Known, Stops, Busy
<1>10. CASE Shutdown
  <2>1. pc'["owner"] # "abandoned" /\ UNCHANGED <<job, bus, notifier, strays, threads>>
    BY <1>10 DEF Shutdown, TypeOK, controllerVars, worldVars
  <2>2. QED
    BY <1>3, <2>1 DEF Tended, Known, Stops, Busy
<1>11. QED
  BY <1>4, <1>5, <1>6, <1>7, <1>8, <1>9, <1>10 DEF Next, Environment

\* A handle that is freed was not listened on when it was.
LEMMA FreedInSilence ==
    ASSUME TypeOK, Structure, Tended, Undisturbed', Next,
           NEW b \in Handles, handle[b] # "free", handle'[b] = "free"
    PROVE  b \notin threads
<1> USE DEF controllerVars, worldVars
<1>1. ASSUME NEW t \in Tasks, Executor(t) PROVE b \notin threads
  <2>1. CASE ReleaseReturns(t)
    <3>1. Busy(t) /\ job[t].op = "close"
      BY <2>1 DEF ReleaseReturns
    <3>2. QED
      BY <3>1, Silence
  <2>2. CASE ~ReleaseReturns(t)
    BY <1>1, <2>2 DEF Executor, JobStarts, MakeReturns, SendReturns, JobDelivered, TypeOK
  <2>3. QED
    BY <2>1, <2>2
<1>2. ASSUME NEW t \in Tasks, NEW reasons, Abort(t, reasons) PROVE b \notin threads
  <2>1. Orphan(t)
    BY <1>2 DEF Abort
  <2>2. QED
    BY <2>1, Silence DEF Orphan
<1>3. ASSUME NEW s \in strays, StrayReturns(s) PROVE b \notin threads
  <2>1. s.op = "close" /\ s.bus = b
    BY <1>3 DEF StrayReturns, TypeOK
  <2>2. QED
    BY <2>1 DEF Tended
<1>4. CASE ReaderEnds \/ SetupCancelled
  BY <1>2, <1>4 DEF ReaderEnds, SetupCancelled
<1>5. CASE (\E t \in Tasks : Connecting(t)) \/ Owner \/ ReadLoop \/ LivenessTimeout
  BY <1>5 DEF Connecting, StaleBusClosed, BusOpened, Owner, BeginSetup, SetupFails,
     SetupDumpSent, CollectEnds, ReaderAwaited, NotifierStopped, BusClosed, ReadLoop, BackoffElapses,
     FramesStopped, ReconnectFails, Reconnected, LivenessTimeout
<1>6. CASE GatewayDrops \/ GatewayReturns \/ Shutdown \/ NewController
  BY <1>6 DEF GatewayDrops, GatewayReturns, Shutdown, NewController
<1>7. QED
  BY <1>1, <1>3, <1>4, <1>5, <1>6 DEF Next, Environment

\* No notifier ever reads a bus that is being closed, over any number of
\* reconnects, failed setups and reloads, unless a cancellation dropped or
\* overtook the stop (_open_bus, async_shutdown).
THEOREM NotifierStopsFirst == Spec => StopBeforeClose
<1> DEFINE Inv == TypeOK /\ Structure /\ (Undisturbed => Tended)
           Safe == \A b \in Handles : (handle[b] # "free" /\ handle'[b] = "free") =>
                                         (b \notin threads \/ cut' \cap DeafCuts # {})
<1>1. Init => Inv
  <2>1. Init => Tended
    BY DEF Init, Tended, FreshPC
  <2>2. QED
    BY <2>1, InitialStructure
<1>2. Inv /\ [Next]_vars => Inv'
  BY TypeInductive, StructureInductive, TendedInductive
<1>3. Inv /\ [Next]_vars => [Safe]_vars
  <2> SUFFICES ASSUME Inv, Next, NEW b \in Handles, handle[b] # "free", handle'[b] = "free",
                      Undisturbed'
               PROVE  b \notin threads
    BY DEF Undisturbed
  <2>1. cut \subseteq cut'
    BY CutsRemain
  <2>2. Tended
    BY <2>1 DEF Undisturbed
  <2>3. QED
    BY <2>2, FreedInSilence
<1>4. QED
  BY <1>1, <1>2, <1>3, PTL DEF Spec, StopBeforeClose

-----------------------------------------------------------------------------
(* A bus that stopped working does not work again under the read loop: its   *)
(* name is not given to another bus while the controller, or a job that is   *)
(* not its close, still has it.                                              *)

Mine(b) == b = bus \/ \E t \in Tasks : Busy(t) /\ job[t].op # "close" /\ job[t].bus = b

Owned == \A b \in Handles : Mine(b) => handle[b] # "free"

Apart == \A s \in strays : s.op = "close" => s.bus # None /\ ~Mine(s.bus)

\* Only a bus that was just made becomes the controller's.
LEMMA MineByTasks ==
    ASSUME TypeOK, Structure, NEW b \in Handles, Mine(b)',
           \/ \E t \in Tasks : Connecting(t)
           \/ Owner \/ ReadLoop \/ LivenessTimeout
           \/ Shutdown \/ ReaderEnds \/ SetupCancelled \/ NewController
    PROVE  Mine(b)
<1> USE NoneAssumption, HandlesAssumption, JobTyped
    DEF Mine, Structure, Alone, Stopping, Closing, Making, MakeResult,
        Sending, Resting, Busy, Delivered, Await, Goto, Job, TypeOK, controllerVars, worldVars
<1>1. ASSUME NEW t \in Tasks, StaleBusClosed(t) PROVE Mine(b)
  BY <1>1 DEF StaleBusClosed
<1>2. ASSUME NEW t \in Tasks, BusOpened(t) PROVE Mine(b)
  BY <1>2 DEF BusOpened
<1>3. CASE BeginSetup
  BY <1>3 DEF BeginSetup, OpenBus, CloseOrMake
<1>4. CASE SetupFails \/ ReaderAwaited
  BY <1>4 DEF SetupFails, Refused, ReaderAwaited, StopThenClose, CloseOrFinish
<1>5. CASE SetupDumpSent \/ CollectEnds
  BY <1>5 DEF SetupDumpSent, CollectEnds
<1>6. CASE NotifierStopped
  BY <1>6 DEF NotifierStopped, CloseOrFinish
<1>7. CASE BusClosed \/ FramesStopped
  BY <1>7 DEF BusClosed, FramesStopped
<1>8. CASE BackoffElapses
  BY <1>8 DEF BackoffElapses, OpenBus, CloseOrMake
<1>9. CASE ReconnectFails
  BY <1>9 DEF ReconnectFails, Refused, Resume
<1>10. CASE Reconnected \/ LivenessTimeout
  BY <1>10 DEF Reconnected, LivenessTimeout
<1>11. CASE Shutdown
  BY <1>11 DEF Shutdown
<1>12. CASE ReaderEnds \/ SetupCancelled
  BY <1>12 DEF ReaderEnds, SetupCancelled
<1>13. CASE NewController
  BY <1>13 DEF NewController
<1>14. QED
  BY <1>1, <1>2, <1>3, <1>4, <1>5, <1>6, <1>7, <1>8, <1>9, <1>10, <1>11, <1>12, <1>13
  DEF Connecting, Owner, ReadLoop

LEMMA MineByExecutor ==
    ASSUME TypeOK, NEW t \in Tasks, Executor(t), NEW b \in Handles, Mine(b)'
    PROVE  Mine(b) \/ (b \in Unused /\ handle'[b] = "live")
<1>1. JobStep(t)
  BY ExecutorIsJobStep
<1>2. job[t] \in Jobs
  BY <1>1 DEF TypeOK, JobStep, Busy
<1>3. CASE MakeReturns(t) /\ gateway = "up"
  <2>1. PICK c \in Unused :
             /\ handle' = [handle EXCEPT ![c] = "live"]
             /\ job' = [job EXCEPT ![t] = [@ EXCEPT !.phase = "returned", !.bus = c]]
    BY <1>3 DEF MakeReturns
  <2>2. job'[t].bus = c /\ handle'[c] = "live"
    BY <1>2, <2>1 DEF TypeOK, Jobs, Unused
  <2>3. QED
    BY <1>1, <2>1, <2>2 DEF Mine, JobStep, Busy
<1>4. CASE ~(MakeReturns(t) /\ gateway = "up")
  <2>1. job'[t].bus = job[t].bus
    <3>1. CASE MakeReturns(t) /\ gateway = "down"
      <4>1. job' = [job EXCEPT ![t] = [@ EXCEPT !.phase = "returned", !.ok = FALSE]]
        BY <3>1 DEF MakeReturns
      <4>2. QED
        BY <1>2, <4>1 DEF TypeOK, Jobs
    <3>2. CASE JobStarts(t) \/ JobDelivered(t)
      BY <1>2, <3>2 DEF JobStarts, JobDelivered, TypeOK, Jobs
    <3>3. CASE ReleaseReturns(t) \/ SendReturns(t)
      BY <1>1, <3>3 DEF ReleaseReturns, SendReturns, JobStep
    <3>4. QED
      BY <1>4, <3>1, <3>2, <3>3 DEF Executor, MakeReturns
  <2>2. QED
    BY <1>1, <2>1 DEF Mine, JobStep, Busy
<1>5. QED
  BY <1>3, <1>4

LEMMA MineByStep ==
    ASSUME TypeOK, Structure, [Next]_vars, NEW b \in Handles, Mine(b)'
    PROVE  Mine(b) \/ (b \in Unused /\ handle'[b] = "live")
<1>1. CASE GatewayDrops \/ GatewayReturns \/ (\E s \in strays : StrayReturns(s)) \/ UNCHANGED vars
  BY <1>1 DEF GatewayDrops, GatewayReturns, StrayReturns, vars, controllerVars, Mine, Busy
<1>2. QED
  BY <1>1, MineByTasks, MineByExecutor DEF Next, Environment

\* What a cancelled task leaves behind when it awaited a make or a close.
LEMMA AbortLetsGo ==
    ASSUME TypeOK, Structure, NEW t \in Tasks, Busy(t), job[t].op \in {"make", "close"},
           (t = "reader" /\ ReaderEnds) \/ (t = "owner" /\ SetupCancelled)
    PROVE  bus' = None /\ \A u \in Tasks : ~Busy(u)'
<1>1. notifier = None /\ bus = None
  BY JobPlaces DEF Structure, Closing, Making
<1>2. \A u \in Tasks : u # t => ~Busy(u)
  BY OneBusy
<1>3. Goto(t, "none") \/ Goto(t, "abandoned")
  BY DEF ReaderEnds, SetupCancelled
<1>4. QED
  BY <1>1, <1>2, <1>3 DEF ReaderEnds, SetupCancelled, Goto, TypeOK, Busy, controllerVars

LEMMA FreedIsForeign ==
    ASSUME TypeOK, Structure, Apart, [Next]_vars,
           NEW b \in Handles, handle[b] # "free", handle'[b] = "free"
    PROVE  ~Mine(b)'
<1> USE DEF controllerVars, worldVars
<1>1. ASSUME NEW t \in Tasks, Executor(t) PROVE ~Mine(b)'
  <2>1. ReleaseReturns(t) /\ Busy(t) /\ job[t].op = "close"
    BY <1>1 DEF Executor, JobStarts, MakeReturns, ReleaseReturns, SendReturns, JobDelivered,
                TypeOK
  <2>2. bus = None /\ \A u \in Tasks : Busy(u) => u = t
    BY <2>1, JobPlaces, OneBusy DEF Structure, Closing
  <2>3. JobStep(t)
    BY <1>1, ExecutorIsJobStep
  <2>4. QED
    BY <2>1, <2>2, <2>3, HandlesAssumption DEF JobStep, Mine, Busy
<1>2. ASSUME NEW t \in Tasks, NEW reasons, Abort(t, reasons),
             (t = "reader" /\ ReaderEnds) \/ (t = "owner" /\ SetupCancelled)
      PROVE  ~Mine(b)'
  <2>1. Orphan(t)
    BY <1>2 DEF Abort
  <2>2. QED
    BY <1>2, <2>1, AbortLetsGo, HandlesAssumption DEF Orphan, Mine
<1>3. ASSUME NEW s \in strays, StrayReturns(s) PROVE ~Mine(b)'
  <2>1. s.op = "close" /\ s.bus = b /\ job' = job /\ bus' = bus
    BY <1>3 DEF StrayReturns, TypeOK
  <2>2. QED
    BY <2>1 DEF Apart, Mine, Busy
<1>4. CASE ReaderEnds
  BY <1>2, <1>4 DEF ReaderEnds
<1>5. CASE SetupCancelled
  BY <1>2, <1>5 DEF SetupCancelled
<1>6. CASE (\E t \in Tasks : Connecting(t)) \/ Owner \/ ReadLoop \/ LivenessTimeout
  BY <1>6 DEF Connecting, StaleBusClosed, BusOpened, Owner, BeginSetup, SetupFails,
     SetupDumpSent, CollectEnds, ReaderAwaited, NotifierStopped, BusClosed, ReadLoop, BackoffElapses,
     FramesStopped, ReconnectFails, Reconnected, LivenessTimeout
<1>7. CASE GatewayDrops \/ GatewayReturns \/ Shutdown \/ NewController \/ UNCHANGED vars
  BY <1>7 DEF GatewayDrops, GatewayReturns, Shutdown, NewController, vars
<1>8. QED
  BY <1>1, <1>3, <1>4, <1>5, <1>6, <1>7 DEF Next, Environment

LEMMA OwnedInductive ==
    ASSUME TypeOK, TypeOK', Structure, Owned, Apart, [Next]_vars
    PROVE  Owned'
BY MineByStep, FreedIsForeign DEF Owned

LEMMA ApartInductive ==
    ASSUME TypeOK, Structure, Apart, [Next]_vars
    PROVE  Apart'
<1> SUFFICES ASSUME NEW s \in strays', s.op = "close" PROVE s.bus # None /\ ~Mine(s.bus)'
  BY DEF Apart
<1>1. CASE s \in strays
  <2>1. s.bus # None /\ ~Mine(s.bus) /\ s.bus \notin Unused /\ s.bus \in Handles
    BY <1>1 DEF Apart, Unused, TypeOK, Strays
  <2>2. QED
    BY <2>1, MineByStep
<1>2. CASE s \notin strays
  <2>1. ASSUME NEW t \in Tasks, NEW reasons, Abort(t, reasons),
               (t = "reader" /\ ReaderEnds) \/ (t = "owner" /\ SetupCancelled)
        PROVE  s.bus # None /\ ~Mine(s.bus)'
    <3>1. Busy(t) /\ job[t].op = "close" /\ s.bus = job[t].bus
      BY <1>2, <2>1 DEF Abort
    <3>2. job[t].bus # None
      BY <3>1, JobPlaces DEF Structure, Closing
    <3>3. QED
      BY <2>1, <3>1, <3>2, AbortLetsGo DEF Mine
  <2>2. CASE ReaderEnds
    BY <2>1, <2>2 DEF ReaderEnds
  <2>3. CASE SetupCancelled
    BY <2>1, <2>3 DEF SetupCancelled
  <2>4. CASE ~ReaderEnds /\ ~SetupCancelled
    BY <1>2, <2>4
    DEF Next, Owner, ReadLoop, Environment, Executor, JobStarts, MakeReturns,
        ReleaseReturns, SendReturns, JobDelivered, Connecting, StaleBusClosed, BusOpened,
        BeginSetup, SetupFails, SetupDumpSent, CollectEnds, ReaderAwaited, NotifierStopped, BusClosed,
        BackoffElapses, FramesStopped, ReconnectFails, Reconnected, LivenessTimeout,
        GatewayDrops, GatewayReturns, Shutdown, NewController, StrayReturns, vars, worldVars
  <2>5. QED
    BY <2>2, <2>3, <2>4
<1>3. QED
  BY <1>1, <1>2

LEMMA LostStaysLost ==
    ASSUME TypeOK, Owned, [Next]_vars, NEW b \in Handles, Mine(b), handle[b] # "live"
    PROVE  handle'[b] # "live"
<1>1. b \notin Unused
  BY DEF Owned, Unused
<1>2. QED
  BY <1>1
  DEF TypeOK, Next, Owner, ReadLoop, Environment, Executor, JobStarts, MakeReturns,
      ReleaseReturns, SendReturns, JobDelivered, Connecting, StaleBusClosed, BusOpened,
      BeginSetup, SetupFails, SetupDumpSent, CollectEnds, ReaderAwaited, NotifierStopped, BusClosed,
      BackoffElapses, FramesStopped, ReconnectFails, Reconnected, LivenessTimeout,
      GatewayDrops, GatewayReturns, Shutdown, ReaderEnds, SetupCancelled, NewController,
      StrayReturns, Abort, vars, worldVars

\* A dump request is only refused on a bus that the gateway left.
Refusals ==
    \A t \in Tasks : (Busy(t) /\ job[t].op = "send" /\ ~job[t].ok) => handle[job[t].bus] # "live"

\* The loop that listens on although the issue is raised does so on a lost bus.
LostReader == (pc["reader"] = "reading" /\ repairActive) => handle[bus] # "live"

\* The first controller finds no issue of an earlier one.
Reported == lives = 1 => (issue <=> repairActive)

LEMMA RefusalsInductive ==
    ASSUME TypeOK, Structure, Owned, Refusals, [Next]_vars
    PROVE  Refusals'
<1> SUFFICES ASSUME NEW t \in Tasks, Busy(t)', job'[t].op = "send", ~job'[t].ok
             PROVE  handle'[job'[t].bus] # "live"
  BY DEF Refusals
<1>1. ASSUME Busy(t), job[t].op = "send", ~job[t].ok, job'[t].bus = job[t].bus
      PROVE  handle'[job'[t].bus] # "live"
  <2>1. job[t].bus \in Handles /\ Mine(job[t].bus) /\ handle[job[t].bus] # "live"
    BY <1>1, JobPlaces DEF Refusals, Structure, Sending, Mine, TypeOK
  <2>2. QED
    BY <1>1, <2>1, LostStaysLost
<1>2. CASE job'[t] = job[t]
  BY <1>1, <1>2 DEF Busy
<1>3. CASE \E u \in Tasks : Executor(u)
  <2>1. PICK u \in Tasks : Executor(u)
    BY <1>3
  <2>2. JobStep(u)
    BY <2>1, ExecutorIsJobStep
  <2>3. CASE u = t
    <3>1. Busy(t) /\ job[t].op = "send" /\ job'[t].bus = job[t].bus /\ job[t] \in Jobs
      BY <2>2, <2>3 DEF JobStep, TypeOK, Busy
    <3>2. CASE SendReturns(t)
      <4>1. PICK ok \in (IF handle[job[t].bus] = "live" THEN {TRUE} ELSE BOOLEAN) :
                 job' = [job EXCEPT ![t].phase = "returned", ![t].ok = ok]
        BY <3>2 DEF SendReturns
      <4>2. job'[t].ok = ok
        BY <3>1, <4>1 DEF TypeOK, Jobs
      <4>3. handle' = handle
        BY <3>2 DEF SendReturns, worldVars
      <4>4. QED
        BY <3>1, <4>1, <4>2, <4>3
    <3>3. CASE JobStarts(t) \/ JobDelivered(t)
      <4>1. job'[t].ok = job[t].ok
        BY <3>1, <3>3 DEF JobStarts, JobDelivered, TypeOK, Jobs
      <4>2. QED
        BY <1>1, <3>1, <4>1
    <3>4. QED
      BY <2>1, <2>3, <3>1, <3>2, <3>3 DEF Executor, MakeReturns, ReleaseReturns
  <2>4. CASE u # t
    BY <1>2, <2>2, <2>4 DEF JobStep
  <2>5. QED
    BY <2>3, <2>4
<1>4. CASE ~\E u \in Tasks : Executor(u)
  <2>1. job'[t] = job[t] \/ job'[t] = None \/ \E op \in Ops, b \in Handles \cup {None} : job'[t] = Job(op, b)
    BY <1>4
    DEF TypeOK, Next, Owner, ReadLoop, Environment, Connecting, StaleBusClosed, BusOpened,
        BeginSetup, OpenBus, CloseOrMake, SetupFails, StopThenClose, CloseOrFinish,
        SetupDumpSent, CollectEnds, ReaderAwaited, NotifierStopped, BusClosed, BackoffElapses,
        FramesStopped, ReconnectFails, Reconnected, LivenessTimeout, GatewayDrops,
        GatewayReturns, Shutdown, ReaderEnds, SetupCancelled, NewController, StrayReturns, Await, Goto,
        Delivered, Busy, Jobs, vars, controllerVars, worldVars
  <2>2. ASSUME NEW op \in Ops, NEW b \in Handles \cup {None}, job'[t] = Job(op, b) PROVE FALSE
    BY <2>2 DEF Job
  <2>3. job'[t] # None
    BY DEF Busy
  <2>4. QED
    BY <1>2, <2>1, <2>2, <2>3
<1>5. QED
  BY <1>3, <1>4

LEMMA LostReaderInductive ==
    ASSUME TypeOK, TypeOK', Structure, Owned, Refusals, LostReader, StartsPatient,
           RepairAtCeiling, [Next]_vars
    PROVE  LostReader'
<1> SUFFICES ASSUME pc'["reader"] = "reading", repairActive' PROVE handle'[bus'] # "live"
  BY DEF LostReader
<1>1. CASE pc["reader"] = "reading" /\ repairActive /\ bus' = bus
  <2>1. bus \in Handles /\ Mine(bus) /\ handle[bus] # "live"
    BY <1>1 DEF LostReader, Structure, Resting, Mine, TypeOK
  <2>2. QED
    BY <1>1, <2>1, LostStaysLost
<1>2. CASE ReconnectFails
  <2>1. bus # None /\ bus' = bus
    BY <1>2 DEF ReconnectFails, Resume, Goto, TypeOK
  <2>2. Busy("reader") /\ job["reader"].op = "send" /\ ~job["reader"].ok /\ job["reader"].bus = bus
    BY <1>2, <2>1 DEF ReconnectFails, Refused, Delivered, Structure, Making, Sending
  <2>3. handle' = handle
    BY <1>2 DEF ReconnectFails, worldVars
  <2>4. QED
    BY <2>1, <2>2, <2>3 DEF Refusals
<1>3. CASE CollectEnds
  <2>1. ~repairActive
    BY <1>3, BackoffAssumption DEF CollectEnds, StartsPatient, RepairAtCeiling, ConnectPCs
  <2>2. QED
    BY <1>3, <2>1 DEF CollectEnds
<1>4. CASE Reconnected \/ NewController
  BY <1>4 DEF Reconnected, ClearRepairIssue, NewController
<1>5. CASE \E t \in Tasks : Executor(t)
  BY <1>1, <1>5 DEF Executor, JobStarts, MakeReturns, ReleaseReturns, SendReturns,
     JobDelivered, controllerVars
<1>6. CASE \E t \in Tasks : Connecting(t)
  BY <1>1, <1>6 DEF Connecting, StaleBusClosed, BusOpened, Await, TypeOK, controllerVars,
     Structure, Alone
<1>7. CASE Shutdown
  BY <1>1, <1>7 DEF Shutdown, TypeOK, controllerVars
<1>8. CASE \/ SetupFails \/ ReaderAwaited \/ NotifierStopped \/ BusClosed
           \/ SetupDumpSent \/ BeginSetup \/ ReaderEnds \/ SetupCancelled
  BY <1>8 DEF SetupFails, ReaderAwaited, NotifierStopped, StopThenClose, CloseOrFinish,
     BusClosed, SetupDumpSent, BeginSetup, ReaderEnds, SetupCancelled, OpenBus, CloseOrMake,
     Await, Goto, TypeOK, Structure, Alone, ConnectPCs, Refused
<1>9. CASE BackoffElapses \/ FramesStopped \/ LivenessTimeout
  BY <1>9 DEF BackoffElapses, FramesStopped, LivenessTimeout, OpenBus, CloseOrMake, Await,
     Goto, TypeOK
<1>10. CASE GatewayDrops \/ GatewayReturns \/ (\E s \in strays : StrayReturns(s)) \/ UNCHANGED vars
  BY <1>1, <1>10 DEF GatewayDrops, GatewayReturns, StrayReturns, vars, controllerVars
<1>11. QED
  BY <1>2, <1>3, <1>4, <1>5, <1>6, <1>7, <1>8, <1>9, <1>10
  DEF Next, Owner, ReadLoop, Environment

LEMMA ReportedInductive ==
    ASSUME TypeOK, Reported, [Next]_vars
    PROVE  Reported'
<1> USE DEF Reported, TypeOK, controllerVars
<1>1. CASE lives' = lives /\ issue' = issue /\ repairActive' = repairActive
  BY <1>1
<1>2. CASE ReconnectFails \/ Reconnected
  BY <1>2 DEF ReconnectFails, Reconnected, RaiseRepairIssue, ClearRepairIssue
<1>3. CASE NewController
  BY <1>3 DEF NewController
<1>4. CASE ~(ReconnectFails \/ Reconnected \/ NewController)
  BY <1>1, <1>4
  DEF Next, Owner, ReadLoop, Environment, Executor, JobStarts, MakeReturns,
      ReleaseReturns, SendReturns, JobDelivered, Connecting, StaleBusClosed, BusOpened,
      BeginSetup, SetupFails, SetupDumpSent, CollectEnds, ReaderAwaited, NotifierStopped, BusClosed,
      BackoffElapses, FramesStopped, LivenessTimeout, GatewayDrops, GatewayReturns,
      Shutdown, ReaderEnds, SetupCancelled, StrayReturns, vars
<1>5. QED
  BY <1>2, <1>3, <1>4

\* During the first controller's life the repair issue is gone whenever the
\* read loop listens on a working bus: a loop that failed its dump listens on
\* a bus that stays lost (_read_loop, _clear_repair_issue).
THEOREM IssueClearedWhenHearing == Spec => []IssueGoneWhenHearing
<1> DEFINE Inv == /\ TypeOK /\ Structure /\ StartsPatient /\ RepairAtCeiling
                  /\ Owned /\ Apart /\ Refusals /\ LostReader /\ Reported
<1>1. Init => Inv
  <2>1. Init => Owned /\ Apart /\ Refusals /\ LostReader /\ Reported
    BY HandlesAssumption
    DEF Init, Owned, Apart, Refusals, LostReader, Reported, Mine, Busy, FreshPC
  <2>2. QED
    BY <2>1, InitialStructure, BackoffAssumption DEF Init, StartsPatient, RepairAtCeiling
<1>2. Inv /\ [Next]_vars => Inv'
  BY TypeInductive, StructureInductive, PatienceInductive, CeilingInductive, OwnedInductive,
     ApartInductive, RefusalsInductive, LostReaderInductive, ReportedInductive
<1>3. Inv => IssueGoneWhenHearing
  BY DEF IssueGoneWhenHearing, Hearing, LostReader, Reported
<1>4. QED
  BY <1>1, <1>2, <1>3, PTL DEF Spec

=============================================================================
