------------------------- MODULE CoordinatorProofs --------------------------
(***************************************************************************)
(* Proofs about Coordinator for any states of the output and any number of *)
(* synchronisations side by side: what the entities show while no          *)
(* notification is due, and which attempt the record of the clock is of.   *)
(***************************************************************************)
EXTENDS Coordinator, TLAPS

-----------------------------------------------------------------------------
LEMMA ViewIsTyped ==
    ASSUME CoordinatorTypeOK, NEW ok \in BOOLEAN
    PROVE  View(ok) \in Views /\ View(ok).value = states
BY DEF CoordinatorTypeOK, View, Views, Available

\* Every variable of the coordinator keeps its type (coordinator.py, every
\* handler).
THEOREM TypeCorrect == CoordinatorSpec => []CoordinatorTypeOK
<1>1. CoordinatorInit => CoordinatorTypeOK
  <2> SUFFICES ASSUME CoordinatorInit PROVE CoordinatorTypeOK
    OBVIOUS
  <2>1. NoRecord \in [ok : BOOLEAN \cup {Unset}, at : 0..MaxAttempts] /\ NoRecord.at = 0
    BY CountAssumption DEF NoRecord
  <2>2. View(TRUE) \in Views
    BY <2>1, CountAssumption DEF CoordinatorInit, View, Views, Available
  <2> QED  BY <2>1, <2>2, CountAssumption DEF CoordinatorInit, CoordinatorTypeOK
<1>2. ASSUME CoordinatorTypeOK, [CoordinatorNext]_coordinatorVars PROVE CoordinatorTypeOK'
  <2> USE <1>2, CountAssumption, ViewIsTyped
  <2>1. ASSUME NEW value \in Values, FrameArrives(value) PROVE CoordinatorTypeOK'
    BY <2>1 DEF CoordinatorTypeOK, FrameArrives, ApplyFrame, Apply, viewVars, clockVars
  <2>2. ASSUME NEW value \in Values, BeginWrite(value) PROVE CoordinatorTypeOK'
    BY <2>2 DEF CoordinatorTypeOK, BeginWrite, viewVars, clockVars
  <2>3. CASE WriteSent
    BY <2>3 DEF CoordinatorTypeOK, WriteSent, Apply, viewVars, clockVars
  <2>4. CASE WriteFails \/ BusGone \/ BusBack
    BY <2>4 DEF CoordinatorTypeOK, WriteFails, BusGone, BusBack, viewVars, clockVars
  <2>5. CASE FlushState \/ ReloadPushes
    BY <2>5 DEF CoordinatorTypeOK, FlushState, ReloadPushes, SetUpdatedData, busVars, clockVars
  <2>6. CASE Refresh \/ RefreshFails \/ EntitiesAdded
    BY <2>6 DEF CoordinatorTypeOK, Refresh, RefreshFails, EntitiesAdded, busVars, clockVars
  <2>7. ASSUME NEW t \in Syncs, BeginSync(t) PROVE CoordinatorTypeOK'
    <3>1. attempts' \in AttemptNumbers
      BY <2>7 DEF CoordinatorTypeOK, BeginSync, AttemptNumbers
    <3>2. {sync[u] : u \in Underway} \subseteq AttemptNumbers
      BY DEF CoordinatorTypeOK, Underway, AttemptNumbers
    <3> QED  BY <2>7, <3>1, <3>2 DEF CoordinatorTypeOK, BeginSync, AttemptNumbers, busVars, viewVars
  <2>8. ASSUME NEW t \in Syncs, NEW outcome \in Outcomes, EndSync(t, outcome) PROVE CoordinatorTypeOK'
    BY <2>8 DEF CoordinatorTypeOK, EndSync, Recorded, Outcomes, busVars, viewVars
  <2>9. ASSUME NEW t \in Syncs, CancelSync(t) PROVE CoordinatorTypeOK'
    BY <2>9 DEF CoordinatorTypeOK, CancelSync, busVars, viewVars
  <2>10. CASE UNCHANGED coordinatorVars
    BY <2>10 DEF CoordinatorTypeOK, coordinatorVars, busVars, viewVars, clockVars
  <2> QED  BY <2>1, <2>2, <2>3, <2>4, <2>5, <2>6, <2>7, <2>8, <2>9, <2>10 DEF CoordinatorNext
<1> QED  BY <1>1, <1>2, PTL DEF CoordinatorSpec

-----------------------------------------------------------------------------
\* Whatever refreshes fail or notify nobody: what the entities show differs from
\* the cache only while a notification is due (_on_controller_update,
\* _flush_state).
THEOREM ShowsCacheOrIsDue == CoordinatorSpec => []ShownIsCached
<1>1. CoordinatorInit => ShownIsCached
  BY DEF CoordinatorInit, ShownIsCached, View
<1>2. ASSUME CoordinatorTypeOK, ShownIsCached, [CoordinatorNext]_coordinatorVars PROVE ShownIsCached'
  <2>1. \A ok \in BOOLEAN : View(ok).value = states
    BY DEF View
  <2>2. ASSUME NEW value \in Values, FrameArrives(value) \/ BeginWrite(value) PROVE ShownIsCached'
    BY <1>2, <2>2 DEF ShownIsCached, FrameArrives, ApplyFrame, Apply, BeginWrite, viewVars
  <2>3. CASE WriteSent \/ WriteFails \/ BusGone \/ BusBack
    BY <1>2, <2>3 DEF ShownIsCached, WriteSent, Apply, WriteFails, BusGone, BusBack, viewVars
  <2>4. CASE FlushState \/ ReloadPushes
    BY <2>1, <2>4 DEF ShownIsCached, FlushState, ReloadPushes, SetUpdatedData, busVars
  <2>5. CASE Refresh \/ RefreshFails \/ EntitiesAdded
    <3>1. shown' = shown \/ \E ok \in BOOLEAN : shown' = View(ok)
      BY <1>2, <2>5 DEF CoordinatorTypeOK, Refresh, RefreshFails, EntitiesAdded
    <3>2. UNCHANGED <<timer, states>>
      BY <2>5 DEF Refresh, RefreshFails, EntitiesAdded, busVars
    <3> QED  BY <1>2, <2>1, <3>1, <3>2 DEF ShownIsCached
  <2>6. ASSUME NEW t \in Syncs,
               BeginSync(t) \/ CancelSync(t) \/ \E outcome \in Outcomes : EndSync(t, outcome)
        PROVE  ShownIsCached'
    BY <1>2, <2>6 DEF ShownIsCached, BeginSync, CancelSync, EndSync, busVars, viewVars
  <2>7. CASE UNCHANGED coordinatorVars
    BY <1>2, <2>7 DEF ShownIsCached, coordinatorVars, busVars, viewVars
  <2> QED  BY <1>2, <2>2, <2>3, <2>4, <2>5, <2>6, <2>7 DEF CoordinatorNext
<1> QED  BY TypeCorrect, <1>1, <1>2, PTL DEF CoordinatorSpec

-----------------------------------------------------------------------------
\* Attempts are numbered in the order they begin, and no number is used twice.
AttemptsAreOrdered ==
    /\ newest.at <= attempts
    /\ \A t \in Syncs : sync[t] <= attempts
    /\ \A t, u \in Syncs : t # u /\ sync[t] # 0 => sync[t] # sync[u]

\* An attempt under way knows every older one that is, and so does the newest
\* attempt that has ended.
OlderAreBeside ==
    /\ \A t, u \in Syncs : sync[t] # 0 /\ sync[t] < sync[u] => sync[t] \in beside[u]
    /\ \A t \in Syncs : sync[t] # 0 /\ sync[t] <= newest.at => sync[t] \in newest.beside

SyncsAreOrdered == AttemptsAreOrdered /\ OlderAreBeside /\ LastTryRecorded

\* Any number of synchronisations, ended or cancelled in any order: an attempt
\* that ended is missing in the record only because of an older one that was
\* under way when it began (async_sync_clock).
THEOREM RecordIsOfLastTry == CoordinatorSpec => []LastTryRecorded
<1>1. CoordinatorInit => SyncsAreOrdered
  BY CountAssumption
  DEF CoordinatorInit, SyncsAreOrdered, AttemptsAreOrdered, OlderAreBeside, LastTryRecorded, NoRecord
<1>2. ASSUME CoordinatorTypeOK, SyncsAreOrdered, [CoordinatorNext]_coordinatorVars PROVE SyncsAreOrdered'
  <2> USE <1>2, CountAssumption DEF SyncsAreOrdered
  <2>1. ASSUME NEW t \in Syncs, BeginSync(t) PROVE SyncsAreOrdered'
    <3>1. /\ sync' = [sync EXCEPT ![t] = attempts + 1] /\ sync[t] = 0
          /\ attempts' = attempts + 1 /\ UNCHANGED <<record, newest>>
          /\ beside' = [beside EXCEPT ![t] = {sync[u] : u \in Underway}]
      BY <2>1 DEF BeginSync
    <3>2. AttemptsAreOrdered'
      BY <3>1 DEF AttemptsAreOrdered, CoordinatorTypeOK
    <3>3. ASSUME NEW v \in Syncs, NEW u \in Syncs, sync'[v] # 0, sync'[v] < sync'[u]
          PROVE  sync'[v] \in beside'[u]
      <4>1. CASE u = t
        <5>1. v # t /\ sync'[v] = sync[v]
          BY <3>1, <3>3, <4>1 DEF CoordinatorTypeOK
        <5>2. v \in Underway
          BY <3>3, <5>1 DEF Underway
        <5> QED  BY <3>1, <4>1, <5>1, <5>2 DEF CoordinatorTypeOK
      <4>2. CASE u # t
        <5>1. v # t
          BY <3>1, <3>3, <4>2 DEF CoordinatorTypeOK, AttemptsAreOrdered
        <5> QED  BY <3>1, <3>3, <4>2, <5>1 DEF CoordinatorTypeOK, OlderAreBeside
      <4> QED  BY <4>1, <4>2
    <3>4. ASSUME NEW v \in Syncs, sync'[v] # 0, sync'[v] <= newest'.at
          PROVE  sync'[v] \in newest'.beside
      BY <3>1, <3>4 DEF CoordinatorTypeOK, AttemptsAreOrdered, OlderAreBeside
    <3> QED  BY <3>1, <3>2, <3>3, <3>4 DEF OlderAreBeside, LastTryRecorded
  <2>2. ASSUME NEW t \in Syncs, NEW outcome \in Outcomes, EndSync(t, outcome)
        PROVE  SyncsAreOrdered'
    <3>1. /\ sync' = [sync EXCEPT ![t] = 0] /\ sync[t] # 0
          /\ beside' = [beside EXCEPT ![t] = {}]
          /\ record'.at = sync[t] /\ UNCHANGED attempts
          /\ newest' = IF sync[t] > newest.at THEN [at |-> sync[t], beside |-> beside[t]] ELSE newest
      BY <2>2 DEF EndSync, Recorded
    <3>2. AttemptsAreOrdered'
      BY <3>1 DEF AttemptsAreOrdered, CoordinatorTypeOK
    <3>3. \A v, u \in Syncs : sync'[v] # 0 /\ sync'[v] < sync'[u] => sync'[v] \in beside'[u]
      BY <3>1 DEF OlderAreBeside, CoordinatorTypeOK
    <3>4. ASSUME NEW v \in Syncs, sync'[v] # 0, sync'[v] <= newest'.at
          PROVE  sync'[v] \in newest'.beside
      <4>1. v # t /\ sync'[v] = sync[v] /\ sync[v] # 0 /\ sync[v] # sync[t]
        BY <3>1, <3>4 DEF AttemptsAreOrdered, CoordinatorTypeOK
      <4>2. CASE sync[t] > newest.at
        BY <3>1, <3>4, <4>1, <4>2 DEF OlderAreBeside, CoordinatorTypeOK
      <4>3. CASE ~(sync[t] > newest.at)
        BY <3>1, <3>4, <4>1, <4>3 DEF OlderAreBeside
      <4> QED  BY <4>2, <4>3
    <3>5. LastTryRecorded'
      <4>1. CASE sync[t] > newest.at
        BY <3>1, <4>1 DEF LastTryRecorded
      <4>2. CASE ~(sync[t] > newest.at)
        BY <3>1, <4>2 DEF LastTryRecorded, OlderAreBeside, CoordinatorTypeOK
      <4> QED  BY <4>1, <4>2
    <3> QED  BY <3>2, <3>3, <3>4, <3>5 DEF OlderAreBeside
  <2>3. ASSUME NEW t \in Syncs, CancelSync(t) PROVE SyncsAreOrdered'
    BY <2>3 DEF CancelSync, AttemptsAreOrdered, OlderAreBeside, LastTryRecorded, CoordinatorTypeOK
  <2>4. CASE UNCHANGED clockVars
    BY <2>4 DEF AttemptsAreOrdered, OlderAreBeside, LastTryRecorded, clockVars
  <2>5. \/ \E t \in Syncs : BeginSync(t) \/ CancelSync(t) \/ \E outcome \in Outcomes : EndSync(t, outcome)
        \/ UNCHANGED clockVars
    BY DEF CoordinatorNext, FrameArrives, BeginWrite, WriteSent, WriteFails, BusGone, BusBack, FlushState,
           Refresh, RefreshFails, EntitiesAdded, ReloadPushes, clockVars, coordinatorVars
  <2> QED  BY <2>1, <2>2, <2>3, <2>4, <2>5
<1>3. SyncsAreOrdered => LastTryRecorded
  BY DEF SyncsAreOrdered
<1> QED  BY TypeCorrect, <1>1, <1>2, <1>3, PTL DEF CoordinatorSpec

=============================================================================
