------------------------ MODULE ConnectionFlowProofs ------------------------
(***************************************************************************)
(* Proofs about ConnectionFlow for any entries, flows and connections:     *)
(* that a connection is set up once and nobody who adds one replaces an    *)
(* entry, but for unchecked reauths, and that the unique id of an entry is *)
(* the connection its data names, but for a reauth of another type.        *)
(***************************************************************************)
EXTENDS ConnectionFlow, TLAPS

-----------------------------------------------------------------------------
(* The inductive invariant.                                                *)

\* An entry that is not there has no unique id either.
EntryKept(e) ==
    \/ entries[e] = Absent
    \/ entries[e].type \in Types /\ entries[e].uid \in Connections

\* What a flow knows of itself: only a user claims an id, and the one that is
\* probed is the one that was entered, of the kind of the form.
FlowKept(f) ==
    \/ flows[f] = Closed
    \/ /\ flows[f].step \in {"form", "probe"}
       /\ flows[f].kind \in Types
       /\ \/ Is(f, "user") /\ flows[f].entry = None
          \/ flows[f].source \in {"reauth", "reconfigure"} /\ flows[f].entry \in Entries
                /\ flows[f].uid = None
       /\ In(f, "probe") => /\ flows[f].input \in Connections
                            /\ TypeOf(flows[f].input) = flows[f].kind
                            /\ Is(f, "user") => flows[f].uid = flows[f].input

\* The reauths of an entry that is not crossed are of its type.
Matched(e) ==
    Present(e) => /\ entries[e].uid = Named(e)
                  /\ \A f \in Reauths(e) : flows[f].kind = entries[e].type

IInv ==
    /\ TypeOK
    /\ \A e \in Entries : EntryKept(e)
    /\ \A f \in Flows : FlowKept(f)
    /\ SetUpOnce
    /\ \A e \in Entries \ crossed : Matched(e)

LEMMA Values ==
    /\ None \notin Entries /\ None \notin Connections /\ None \notin Types /\ None \notin Sources
    /\ \A c \in Connections : TypeOf(c) \in Types
    /\ Absent \in EntryStates /\ Absent.type = None /\ Absent.uid = None
    /\ \A c \in Connections : /\ Fresh(c) \in EntryStates
                              /\ Fresh(c).uid = c
                              /\ Fresh(c).type = TypeOf(c)
    /\ Closed \in FlowStates
    /\ Closed.uid = None /\ Closed.entry = None /\ Closed.source \notin Sources
    /\ Closed.step = "closed"
<1>1. /\ None \notin Entries /\ None \notin Connections /\ None \notin Types /\ None \notin Sources
      /\ \A c \in Connections : TypeOf(c) \in Types
  BY NoneAssumption DEF TypeOf, Types, Sources
<1>2. /\ Absent \in EntryStates /\ Absent.type = None /\ Absent.uid = None
      /\ \A c \in Connections : /\ Fresh(c) \in EntryStates
                                /\ Fresh(c).uid = c
                                /\ Fresh(c).type = TypeOf(c)
  BY <1>1 DEF Absent, Fresh, EntryStates, Connections
<1>3. /\ Closed \in FlowStates
      /\ Closed.uid = None /\ Closed.entry = None /\ Closed.source \notin Sources
      /\ Closed.step = "closed"
  BY <1>1 DEF Closed, FlowStates
<1> QED  BY <1>1, <1>2, <1>3

LEMMA Forms ==
    ASSUME NEW source \in Sources, NEW entry \in Entries \cup {None}, NEW kind \in Types
    PROVE  LET v == Form(source, entry, kind) IN
           /\ v \in FlowStates /\ v.step = "form" /\ v.source = source
           /\ v.entry = entry /\ v.kind = kind /\ v.uid = None
BY DEF Form, Closed, FlowStates

LEMMA InitHolds == Init => IInv
<1> SUFFICES ASSUME Init PROVE IInv
  OBVIOUS
<1>1. TypeOK
  BY Values DEF Init, TypeOK
<1>2. /\ \A e \in Entries : EntryKept(e) /\ ~Present(e)
      /\ \A f \in Flows : FlowKept(f)
  BY Values DEF Init, EntryKept, FlowKept, Present
<1>3. SetUpOnce
  BY Values DEF Init, SetUpOnce, EntriesOf, Claiming
<1> QED  BY <1>1, <1>2, <1>3 DEF IInv, Matched

-----------------------------------------------------------------------------
(* Steps of one flow that leave the entries alone.                         *)

\* A flow may claim an id that nobody has, and a reauth keeps the kind it began
\* with: the type of its entry.
LEMMA FlowMoves ==
    ASSUME IInv, NEW f \in Flows, NEW v \in FlowStates,
           flows' = [flows EXCEPT ![f] = v], UNCHANGED <<entries, unchecked, crossed>>,
           FlowKept(f)',
           \/ v.uid \in {None, flows[f].uid}
           \/ Claiming(v.uid) \ {f} = {} /\ EntriesOf(v.uid) = {},
           v.source = "reauth" =>
              \/ v.kind = entries[v.entry].type
              \/ Is(f, "reauth") /\ v.entry = flows[f].entry /\ v.kind = flows[f].kind
    PROVE  IInv'
<1>1. TypeOK'
  BY DEF IInv, TypeOK
<1>2. \A e \in Entries : EntryKept(e)'
  BY DEF IInv, EntryKept
<1>3. \A g \in Flows : g # f => flows'[g] = flows[g]
  BY DEF IInv, TypeOK
<1>4. flows'[f] = v
  BY DEF IInv, TypeOK
<1>5. \A g \in Flows : FlowKept(g)'
  BY <1>3 DEF IInv, FlowKept, In, Is
<1>6. \A c \in Connections : EntriesOf(c)' = EntriesOf(c)
  BY DEF EntriesOf
<1>7. \A c \in Connections : \/ Claiming(c)' \subseteq Claiming(c)
                             \/ Claiming(c)' = {f} /\ EntriesOf(c) = {}
  <2> SUFFICES ASSUME NEW c \in Connections, ~(Claiming(c)' \subseteq Claiming(c))
               PROVE  Claiming(c)' = {f} /\ EntriesOf(c) = {}
    OBVIOUS
  <2>1. v.uid = c /\ flows[f].uid # c
    BY <1>3, <1>4 DEF Claiming
  <2>2. Claiming(c) \ {f} = {} /\ EntriesOf(c) = {}
    BY <2>1, Values
  <2> QED  BY <1>3, <1>4, <2>1, <2>2 DEF Claiming
<1>8. SetUpOnce'
  BY <1>6, <1>7 DEF IInv, SetUpOnce
<1>9. ASSUME NEW e \in Entries \ crossed' PROVE Matched(e)'
  <2>1. Matched(e) /\ entries'[e] = entries[e]
    BY <1>9 DEF IInv
  <2>2. Present(e)' => entries'[e].uid = Named(e)'
    BY <2>1 DEF Matched, Present, Named
  <2>3. ASSUME Present(e)', NEW g \in Reauths(e)' PROVE flows'[g].kind = entries'[e].type
    <3>1. CASE g # f
      BY <1>3, <2>1, <2>3, <3>1 DEF Matched, Present, Reauths, Is, On
    <3>2. CASE g = f
      <4>1. v.source = "reauth" /\ v.entry = e
        BY <1>4, <2>3, <3>2 DEF Reauths, Is, On
      <4> QED  BY <1>4, <2>1, <2>3, <3>2, <4>1 DEF Matched, Present, Reauths, Is, On
    <3> QED  BY <3>1, <3>2
  <2> QED  BY <2>2, <2>3 DEF Matched
<1> QED  BY <1>1, <1>2, <1>5, <1>8, <1>9 DEF IInv

LEMMA FlowSteps ==
    ASSUME IInv, NEW f \in Flows,
           \/ \E kind \in Types : BeginUser(f, kind)
           \/ \E e \in Entries : BeginReauth(f, e)
           \/ \E e \in Entries, kind \in Types : BeginReconfigure(f, e, kind)
           \/ \E c \in Connections : SubmitUser(f, c) \/ SubmitChange(f, c)
           \/ ProbeFails(f) \/ Abandon(f)
    PROVE  IInv'
<1>1. flows[f] \in FlowStates /\ FlowKept(f) /\ flows \in [Flows -> FlowStates]
  BY DEF IInv, TypeOK
<1>2. ASSUME NEW v \in FlowStates, flows' = [flows EXCEPT ![f] = v]
      PROVE  flows'[f] = v
  BY <1>1, <1>2
<1>3. ASSUME NEW kind \in Types, BeginUser(f, kind) PROVE IInv'
  <2> DEFINE v == Form("user", None, kind)
  <2>1. /\ v \in FlowStates /\ v.step = "form" /\ v.source = "user"
        /\ v.entry = None /\ v.kind = kind /\ v.uid = None
    BY Forms DEF Sources
  <2>2. flows' = [flows EXCEPT ![f] = v] /\ UNCHANGED <<entries, unchecked, crossed>>
    BY <1>3 DEF BeginUser, Open
  <2> HIDE DEF v
  <2>3. FlowKept(f)'
    BY <1>2, <2>1, <2>2 DEF FlowKept, In, Is
  <2> QED  BY <2>1, <2>2, <2>3, FlowMoves
<1>4. ASSUME NEW e \in Entries, BeginReauth(f, e) PROVE IInv'
  <2> DEFINE v == Form("reauth", e, entries[e].type)
  <2>1. entries[e].type \in Types
    BY <1>4, Values DEF BeginReauth, Present, IInv, EntryKept
  <2>2. /\ v \in FlowStates /\ v.step = "form" /\ v.source = "reauth"
        /\ v.entry = e /\ v.kind = entries[e].type /\ v.uid = None
    BY <2>1, Forms DEF Sources
  <2>3. flows' = [flows EXCEPT ![f] = v] /\ UNCHANGED <<entries, unchecked, crossed>>
    BY <1>4 DEF BeginReauth, Open
  <2> HIDE DEF v
  <2>4. FlowKept(f)'
    BY <1>2, <2>1, <2>2, <2>3 DEF FlowKept, In, Is
  <2> QED  BY <2>2, <2>3, <2>4, FlowMoves
<1>5. ASSUME NEW e \in Entries, NEW kind \in Types, BeginReconfigure(f, e, kind) PROVE IInv'
  <2> DEFINE v == Form("reconfigure", e, kind)
  <2>1. /\ v \in FlowStates /\ v.step = "form" /\ v.source = "reconfigure"
        /\ v.entry = e /\ v.kind = kind /\ v.uid = None
    BY Forms DEF Sources
  <2>2. flows' = [flows EXCEPT ![f] = v] /\ UNCHANGED <<entries, unchecked, crossed>>
    BY <1>5 DEF BeginReconfigure, Open
  <2> HIDE DEF v
  <2>3. FlowKept(f)'
    BY <1>2, <2>1, <2>2 DEF FlowKept, In, Is
  <2> QED  BY <2>1, <2>2, <2>3, FlowMoves
<1>6. ASSUME UNCHANGED <<entries, unchecked, crossed>>, Close(f) PROVE IInv'
  <2>1. FlowKept(f)' /\ flows' = [flows EXCEPT ![f] = Closed]
    BY <1>2, <1>6, Values DEF Close, FlowKept
  <2> QED  BY <1>6, <2>1, FlowMoves, Values DEF Sources
<1>7. ASSUME NEW c \in Connections, NEW uid \in {None, c},
             UNCHANGED <<entries, unchecked, crossed>>, In(f, "form"), Probing(f, c, uid),
             TypeOf(c) = flows[f].kind, Is(f, "user") <=> uid = c,
             uid = c => ~Refused(f, c) /\ EntriesOf(c) = {}
      PROVE  IInv'
  <2> DEFINE v == [flows[f] EXCEPT !.step = "probe", !.input = c, !.uid = uid]
  <2>1. /\ v \in FlowStates /\ v.uid = uid /\ v.source = flows[f].source /\ v.input = c
        /\ v.entry = flows[f].entry /\ v.kind = flows[f].kind /\ v.step = "probe"
    BY <1>1 DEF FlowStates
  <2>2. flows' = [flows EXCEPT ![f] = v]
    BY <1>1, <1>7 DEF Probing
  <2> HIDE DEF v
  <2>3. flows'[f] = v
    BY <1>2, <2>1, <2>2
  <2>4. flows[f] # Closed
    BY <1>7, Values DEF In
  <2>5. FlowKept(f)'
    BY <1>1, <1>7, <2>1, <2>3, <2>4, Values DEF FlowKept, In, Is
  <2>6. v.uid = None \/ (Claiming(v.uid) \ {f} = {} /\ EntriesOf(v.uid) = {})
    BY <1>7, <2>1 DEF Refused
  <2> QED  BY <1>7, <2>1, <2>2, <2>5, <2>6, FlowMoves DEF Is
<1>8. ASSUME NEW c \in Connections, SubmitUser(f, c) PROVE IInv'
  BY <1>6, <1>7, <1>8 DEF SubmitUser
<1>9. ASSUME NEW c \in Connections, SubmitChange(f, c) PROVE IInv'
  <2>1. ~Is(f, "user") /\ None # c
    BY <1>9, Values DEF SubmitChange, Is
  <2> QED  BY <1>7, <1>9, <2>1 DEF SubmitChange
<1>10. ASSUME ProbeFails(f) PROVE IInv'
  <2> DEFINE v == [flows[f] EXCEPT !.step = "form", !.input = None]
  <2>1. /\ v \in FlowStates /\ v.uid = flows[f].uid /\ v.source = flows[f].source
        /\ v.entry = flows[f].entry /\ v.kind = flows[f].kind /\ v.step = "form"
    BY <1>1 DEF FlowStates
  <2>2. flows' = [flows EXCEPT ![f] = v] /\ UNCHANGED <<entries, unchecked, crossed>>
    BY <1>1, <1>10 DEF ProbeFails
  <2> HIDE DEF v
  <2>3. flows'[f] = v /\ flows[f] # Closed
    BY <1>2, <1>10, <2>1, <2>2, Values DEF ProbeFails, In
  <2>4. FlowKept(f)'
    BY <1>1, <2>1, <2>3 DEF FlowKept, In, Is
  <2> QED  BY <2>1, <2>2, <2>4, FlowMoves DEF Is
<1>11. ASSUME Abandon(f) PROVE IInv'
  BY <1>6, <1>11 DEF Abandon
<1> QED  BY <1>3, <1>4, <1>5, <1>8, <1>9, <1>10, <1>11

-----------------------------------------------------------------------------
(* Steps that change an entry.                                             *)

LEMMA CreateEntryKeeps ==
    ASSUME IInv, NEW f \in Flows, NEW e \in Entries, CreateEntry(f, e)
    PROVE  IInv'
<1> DEFINE c == flows[f].input
<1>1. c \in Connections /\ flows[f].uid = c
  <2>1. flows[f] # Closed
    BY Values DEF CreateEntry, In
  <2> QED  BY <2>1, Values DEF IInv, FlowKept, CreateEntry, Is
<1> HIDE DEF c
<1>2. /\ In(f, "probe") /\ Is(f, "user") /\ Unused(e)
      /\ \/ entries' = [g \in Entries |-> IF g = e THEN Fresh(c)
                                          ELSE IF g \in EntriesOf(c) THEN Absent
                                          ELSE entries[g]]
         \/ EntriesOf(c) # {} /\ UNCHANGED entries
      /\ flows' = [g \in Flows |-> IF flows[g].uid = c THEN Closed ELSE flows[g]]
      /\ crossed' = crossed \ {e}
      /\ UNCHANGED unchecked
  BY DEF CreateEntry, c
<1>3. /\ entries \in [Entries -> EntryStates] /\ flows \in [Flows -> FlowStates]
      /\ entries[e].uid = None
  BY <1>2, Values DEF IInv, TypeOK, Unused, Present, EntryKept
<1>4. TypeOK'
  <2>1. entries' \in [Entries -> EntryStates]
    BY <1>1, <1>2, <1>3, Values
  <2>2. flows' \in [Flows -> FlowStates]
    BY <1>2, <1>3, Values
  <2> QED  BY <1>2, <2>1, <2>2 DEF IInv, TypeOK
<1>5. ASSUME NEW g \in Entries PROVE EntryKept(g)'
  <2>1. entries'[g] \in {entries[g], Absent, Fresh(c)}
    BY <1>2, <1>3
  <2> QED  BY <1>1, <2>1, Values DEF EntryKept, IInv
<1>6. ASSUME NEW g \in Flows PROVE FlowKept(g)'
  BY <1>2, <1>3, Values DEF FlowKept, IInv, In, Is
<1>7. SetUpOnce'
  <2> SUFFICES ASSUME NEW k \in Connections \ unchecked
               PROVE  /\ \A d, g \in EntriesOf(k)' : d = g
                      /\ \A g, h \in Claiming(k)' : g = h
                      /\ EntriesOf(k)' = {} \/ Claiming(k)' = {}
    BY <1>2 DEF SetUpOnce
  <2>1. CASE k = c
    <3>1. Claiming(k)' = {}
      BY <1>1, <1>2, <1>3, <2>1, Values DEF Claiming
    <3>2. f \in Claiming(k)
      BY <1>1, <2>1 DEF Claiming
    <3>3. EntriesOf(k) = {}
      BY <3>2 DEF IInv, SetUpOnce
    <3>4. EntriesOf(k)' \subseteq {e}
      BY <1>2, <1>3, <2>1, <3>3 DEF EntriesOf
    <3> QED  BY <3>1, <3>4
  <2>2. CASE k # c
    <3>1. Claiming(k)' \subseteq Claiming(k)
      BY <1>2, <1>3, <2>2, Values DEF Claiming
    <3>2. EntriesOf(k)' \subseteq EntriesOf(k)
      BY <1>1, <1>2, <1>3, <2>2, Values DEF EntriesOf
    <3> QED  BY <3>1, <3>2 DEF IInv, SetUpOnce
  <2> QED  BY <2>1, <2>2
<1>8. ASSUME NEW g \in Entries \ crossed' PROVE Matched(g)'
  <2>1. Reauths(g)' \subseteq Reauths(g) /\ \A h \in Reauths(g)' : flows'[h] = flows[h]
    BY <1>2, <1>3, Values DEF Reauths, Is, On, Sources
  <2>2. CASE entries'[g] = entries[g] /\ g # e
    <3>1. Matched(g)
      BY <1>2, <2>2 DEF IInv
    <3> QED  BY <2>1, <2>2, <3>1 DEF Matched, Present, Named
  <2>3. CASE entries'[g] = Absent
    BY <2>3, Values DEF Matched, Present
  <2>4. CASE g = e /\ entries' # entries
    <3>1. Reauths(g) = {}
      BY <1>2, <2>4 DEF Unused, Reauths
    <3>2. entries'[g] = Fresh(c)
      BY <1>2, <1>3, <2>4
    <3>3. entries'[g].uid = Named(g)'
      BY <1>1, <3>2, KindsAssumption DEF Named, Fresh, TypeOf, Connections
    <3> QED  BY <2>1, <3>1, <3>3 DEF Matched
  <2>5. CASE g = e /\ entries' = entries
    BY <1>2, <2>5, Values DEF Matched, Present, Unused
  <2> QED  BY <1>2, <1>3, <2>2, <2>3, <2>4, <2>5
<1> QED  BY <1>4, <1>5, <1>6, <1>7, <1>8 DEF IInv

\* A change of one entry that a flow other than a user's ends with.
LEMMA EntryChanges ==
    ASSUME IInv, NEW f \in Flows, NEW e \in Entries, NEW c \in Connections, NEW v \in EntryStates,
           flows[f].uid = None, flows' = [flows EXCEPT ![f] = Closed],
           entries' = [entries EXCEPT ![e] = v], v.uid = c, v.type \in Types,
           unchecked \subseteq unchecked', unchecked' \subseteq Connections,
           crossed' \subseteq Entries, crossed \subseteq crossed' \cup {e},
           c \notin unchecked' => EntriesOf(c) \ {e} = {} /\ Claiming(c) = {},
           e \notin crossed' => /\ v.uid = IF v.type = "socketcand" THEN v.gateway ELSE v.device
                                /\ \A h \in Reauths(e) \ {f} : flows[h].kind = v.type
    PROVE  IInv'
<1>1. entries \in [Entries -> EntryStates] /\ flows \in [Flows -> FlowStates]
  BY DEF IInv, TypeOK
<1>2. entries'[e] = v /\ \A g \in Entries : g # e => entries'[g] = entries[g]
  BY <1>1
<1>3. flows'[f] = Closed /\ \A g \in Flows : g # f => flows'[g] = flows[g]
  BY <1>1
<1>4. TypeOK'
  BY <1>1, Values DEF TypeOK
<1>5. ASSUME NEW g \in Entries PROVE EntryKept(g)'
  BY <1>2 DEF IInv, EntryKept
<1>6. ASSUME NEW g \in Flows PROVE FlowKept(g)'
  BY <1>3 DEF IInv, FlowKept, In, Is
<1>7. SetUpOnce'
  <2> SUFFICES ASSUME NEW k \in Connections \ unchecked'
               PROVE  /\ \A d, g \in EntriesOf(k)' : d = g
                      /\ \A g, h \in Claiming(k)' : g = h
                      /\ EntriesOf(k)' = {} \/ Claiming(k)' = {}
    BY DEF SetUpOnce
  <2>1. Claiming(k)' = Claiming(k)
    BY <1>3, Values DEF Claiming
  <2>2. CASE k = c
    <3>1. EntriesOf(k)' \subseteq {e}
      BY <1>2, <2>2 DEF EntriesOf
    <3> QED  BY <2>1, <2>2, <3>1
  <2>3. CASE k # c
    <3>1. EntriesOf(k)' \subseteq EntriesOf(k)
      BY <1>2, <2>3 DEF EntriesOf
    <3> QED  BY <2>1, <3>1 DEF IInv, SetUpOnce
  <2> QED  BY <2>2, <2>3
<1>8. ASSUME NEW g \in Entries \ crossed' PROVE Matched(g)'
  <2>1. Reauths(g)' = Reauths(g) \ {f} /\ \A h \in Reauths(g)' : flows'[h] = flows[h]
    BY <1>3, Values DEF Reauths, Is, On, Sources
  <2>2. CASE g = e
    BY <1>2, <2>1, <2>2 DEF Matched, Named
  <2>3. CASE g # e
    <3>1. Matched(g) /\ entries'[g] = entries[g]
      BY <1>2, <1>8, <2>3 DEF IInv
    <3> QED  BY <2>1, <3>1 DEF Matched, Present, Named
  <2> QED  BY <2>2, <2>3
<1> QED  BY <1>4, <1>5, <1>6, <1>7, <1>8 DEF IInv

\* What a flow that ends on an entry carries.
LEMMA Carried ==
    ASSUME IInv, NEW f \in Flows, In(f, "probe"), flows[f].source \in {"reauth", "reconfigure"}
    PROVE  /\ flows[f].input \in Connections /\ TypeOf(flows[f].input) = flows[f].kind
           /\ flows[f].entry \in Entries /\ flows[f].uid = None
<1>1. flows[f] # Closed /\ ~Is(f, "user")
  BY Values DEF In, Is
<1> QED  BY <1>1 DEF IInv, FlowKept

LEMMA FinishReauthKeeps ==
    ASSUME IInv, NEW f \in Flows, FinishReauth(f)
    PROVE  IInv'
<1> DEFINE c == flows[f].input
           e == flows[f].entry
           others == EntriesOf(c) \ {e}
           v == Reauthed(e, c)
<1>1. /\ c \in Connections /\ TypeOf(c) = flows[f].kind /\ e \in Entries
      /\ flows[f].uid = None
  BY Carried DEF FinishReauth, Is
<1>2. /\ flows[f] \in FlowStates /\ entries[e] \in EntryStates
      /\ entries \in [Entries -> EntryStates] /\ unchecked \subseteq Connections
      /\ crossed \subseteq Entries
  BY <1>1 DEF IInv, TypeOK
<1>3. Present(e) /\ entries[e].type \in Types
  BY <1>1, Values DEF FinishReauth, IInv, EntryKept, Present
<1>4. /\ v \in EntryStates /\ v.uid = c /\ v.type = entries[e].type
      /\ c \in Gateways => v.gateway = c
      /\ c \notin Gateways => v.device = c
  BY <1>1, <1>2 DEF Reauthed, EntryStates, Connections
<1>5. CASE /\ entries' = [entries EXCEPT ![e] = v]
           /\ unchecked' = IF others # {} \/ Claiming(c) # {} THEN unchecked \cup {c} ELSE unchecked
  <2>1. flows' = [flows EXCEPT ![f] = Closed] /\ UNCHANGED crossed
    BY DEF FinishReauth, Close
  <2>2. /\ unchecked \subseteq unchecked' /\ unchecked' \subseteq Connections
        /\ c \notin unchecked' => others = {} /\ Claiming(c) = {}
    BY <1>1, <1>2, <1>5
  <2>3. ASSUME e \notin crossed'
        PROVE  /\ v.uid = IF v.type = "socketcand" THEN v.gateway ELSE v.device
               /\ \A h \in Reauths(e) \ {f} : flows[h].kind = v.type
    <3>1. Matched(e) /\ f \in Reauths(e)
      BY <1>1, <2>1, <2>3 DEF IInv, FinishReauth, Reauths, On
    <3>2. TypeOf(c) = v.type
      BY <1>1, <1>3, <1>4, <3>1 DEF Matched
    <3> QED  BY <1>1, <1>3, <1>4, <3>1, <3>2 DEF Matched, TypeOf
  <2> HIDE DEF c, e, v
  <2>4. v.type \in Types /\ v.uid = c
    BY <1>3, <1>4
  <2> QED  BY <1>1, <1>2, <1>4, <1>5, <2>1, <2>2, <2>3, <2>4, EntryChanges
<1>6. CASE UNCHANGED <<entries, unchecked>>
  <2>1. flows' = [flows EXCEPT ![f] = Closed] /\ UNCHANGED <<entries, unchecked, crossed>>
    BY <1>6 DEF FinishReauth, Close
  <2>2. FlowKept(f)'
    BY <2>1 DEF FlowKept, IInv, TypeOK
  <2> QED  BY <2>1, <2>2, FlowMoves, Values DEF Sources
<1> QED  BY <1>5, <1>6 DEF FinishReauth

LEMMA FinishReconfigureKeeps ==
    ASSUME IInv, NEW f \in Flows, FinishReconfigure(f)
    PROVE  IInv'
<1> DEFINE c == flows[f].input
           e == flows[f].entry
<1>1. c \in Connections /\ e \in Entries /\ flows[f].uid = None
  BY Carried DEF FinishReconfigure, Is
<1>2. unchecked \subseteq Connections /\ crossed \subseteq Entries
  BY DEF IInv, TypeOK
<1>3. CASE /\ ~TakenFrom(f, e, c)
           /\ entries' = [entries EXCEPT ![e] = Reconfigured(e, c)]
           /\ crossed' = IF \A g \in Reauths(e) : flows[g].kind = TypeOf(c)
                         THEN crossed \ {e} ELSE crossed \cup {e}
  <2>1. flows' = [flows EXCEPT ![f] = Closed] /\ UNCHANGED unchecked
    BY DEF FinishReconfigure, Close
  <2>2. EntriesOf(c) \ {e} = {} /\ Claiming(c) = {}
    BY <1>1, <1>3, Values DEF TakenFrom, Refused, Claiming
  <2>3. Fresh(c).uid = IF Fresh(c).type = "socketcand" THEN Fresh(c).gateway ELSE Fresh(c).device
    BY <1>1, KindsAssumption DEF Fresh, TypeOf, Connections
  <2>4. e \notin crossed' => \A h \in Reauths(e) \ {f} : flows[h].kind = Fresh(c).type
    BY <1>1, <1>3, Values
  <2> HIDE DEF c, e
  <2>5. entries' = [entries EXCEPT ![e] = Fresh(c)]
    BY <1>3 DEF Reconfigured
  <2>6. crossed' \subseteq Entries /\ crossed \subseteq crossed' \cup {e}
    BY <1>1, <1>2, <1>3
  <2>7. Fresh(c) \in EntryStates /\ Fresh(c).uid = c /\ Fresh(c).type \in Types
    BY <1>1, Values
  <2> QED  BY <1>1, <1>2, <2>1, <2>2, <2>3, <2>4, <2>5, <2>6, <2>7, EntryChanges
<1>4. CASE UNCHANGED <<entries, crossed>>
  <2>1. flows' = [flows EXCEPT ![f] = Closed] /\ UNCHANGED <<entries, unchecked, crossed>>
    BY <1>4 DEF FinishReconfigure, Close
  <2>2. FlowKept(f)'
    BY <2>1 DEF FlowKept, IInv, TypeOK
  <2> QED  BY <2>1, <2>2, FlowMoves, Values DEF Sources
<1> QED  BY <1>3, <1>4 DEF FinishReconfigure

LEMMA RemoveEntryKeeps ==
    ASSUME IInv, NEW e \in Entries, RemoveEntry(e)
    PROVE  IInv'
<1>1. /\ entries' = [entries EXCEPT ![e] = Absent] /\ crossed' = crossed \ {e}
      /\ UNCHANGED <<flows, unchecked>> /\ entries \in [Entries -> EntryStates]
  BY DEF RemoveEntry, IInv, TypeOK
<1>2. entries'[e] = Absent /\ \A g \in Entries : g # e => entries'[g] = entries[g]
  BY <1>1
<1>3. TypeOK'
  BY <1>1, Values DEF IInv, TypeOK
<1>4. ASSUME NEW g \in Entries PROVE EntryKept(g)'
  BY <1>2 DEF IInv, EntryKept
<1>5. ASSUME NEW g \in Flows PROVE FlowKept(g)'
  BY <1>1 DEF IInv, FlowKept, In, Is
<1>6. \A c \in Connections : /\ EntriesOf(c)' \subseteq EntriesOf(c)
                             /\ Claiming(c)' = Claiming(c)
  BY <1>1, <1>2, Values DEF EntriesOf, Claiming
<1>7. SetUpOnce'
  BY <1>1, <1>6 DEF IInv, SetUpOnce
<1>8. ASSUME NEW g \in Entries \ crossed' PROVE Matched(g)'
  <2>1. CASE g = e
    BY <1>2, <2>1, Values DEF Matched, Present
  <2>2. CASE g # e
    BY <1>1, <1>2, <2>2 DEF IInv, Matched, Present, Named, Reauths, Is, On
  <2> QED  BY <2>1, <2>2
<1> QED  BY <1>3, <1>4, <1>5, <1>7, <1>8 DEF IInv

-----------------------------------------------------------------------------
(* The theorems.                                                           *)

\* What flows and entries keep of each other, however their steps interleave.
THEOREM InductiveInvariant == Spec => []IInv
<1>1. IInv /\ [Next]_vars => IInv'
  <2> SUFFICES ASSUME IInv, [Next]_vars PROVE IInv'
    OBVIOUS
  <2>1. CASE UNCHANGED vars
    BY <2>1 DEF vars, IInv, TypeOK, EntryKept, FlowKept, In, Is, SetUpOnce, EntriesOf, Claiming,
                Matched, Present, Named, Reauths, On
  <2>2. ASSUME NEW f \in Flows, Step(f) PROVE IInv'
    BY <2>2, FlowSteps, CreateEntryKeeps, FinishReauthKeeps, FinishReconfigureKeeps DEF Step
  <2> QED  BY <2>1, <2>2, RemoveEntryKeeps DEF Next
<1> QED  BY InitHolds, <1>1, PTL DEF Spec

\* Every entry and flow is in one of the states the model names.
THEOREM TypeCorrect == Spec => []TypeOK
<1>1. IInv => TypeOK
  BY DEF IInv
<1> QED  BY InductiveInvariant, <1>1, PTL

\* For any number of flows, entries and connections: a connection is set up once
\* unless a reauth has stored it unchecked.
THEOREM ConnectionSetUpOnce == Spec => []SetUpOnce
<1>1. IInv => SetUpOnce
  BY DEF IInv
<1> QED  BY InductiveInvariant, <1>1, PTL

\* The unique id of an entry is the connection its data names, unless a reauth
\* of another type was open when a reconfigure changed it.
THEOREM IdIsConnection == Spec => []IdNamesConnection
<1>1. IInv => IdNamesConnection
  BY DEF IInv, IdNamesConnection, Matched
<1> QED  BY InductiveInvariant, <1>1, PTL

\* Adding a connection removes no entry, unless a reauth has given that entry
\* the same connection unchecked.
THEOREM AddingReplacesNothing == Spec => NoEntryReplaced
<1>1. ASSUME IInv, NEW f \in Flows, NEW e \in Entries, NEW g \in Entries,
             CreateEntry(f, e), Present(g), ~Present(g)'
      PROVE  flows[f].input \in unchecked
  <2> DEFINE c == flows[f].input
  <2>1. c \in Connections /\ flows[f].uid = c
    <3>1. flows[f] # Closed /\ In(f, "probe") /\ Is(f, "user")
      BY <1>1, Values DEF CreateEntry, In
    <3> QED  BY <1>1, <3>1 DEF IInv, FlowKept, Is
  <2>2. f \in Claiming(c)
    BY <2>1 DEF Claiming
  <2>3. g \in EntriesOf(c)
    <3>1. g # e /\ entries' # entries
      BY <1>1 DEF CreateEntry, Unused, Present
    <3>2. entries' = [h \in Entries |-> IF h = e THEN Fresh(c)
                                        ELSE IF h \in EntriesOf(c) THEN Absent ELSE entries[h]]
      BY <1>1, <3>1 DEF CreateEntry
    <3>3. g \notin EntriesOf(c) => entries'[g] = entries[g]
      BY <3>1, <3>2
    <3> QED  BY <1>1, <3>3 DEF Present
  <2> QED  BY <1>1, <2>1, <2>2, <2>3 DEF IInv, SetUpOnce
<1>2. IInv /\ [Next]_vars =>
         [\A f \in Flows, e, g \in Entries :
             CreateEntry(f, e) /\ Present(g) /\ ~Present(g)' => flows[f].input \in unchecked]_vars
  BY <1>1
<1> QED  BY InductiveInvariant, <1>2, PTL DEF Spec, NoEntryReplaced

=============================================================================
