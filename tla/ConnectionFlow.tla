--------------------------- MODULE ConnectionFlow ---------------------------
(***************************************************************************)
(* The connections of entries and the flows of config_flow.py that set     *)
(* them: DobissConfigFlow with its sources user (and usb discovery),       *)
(* reauth and reconfigure, any number of them side by side.                *)
(*                                                                         *)
(* A form that is submitted awaits a probe of the bus in a worker thread.  *)
(* Entries and other flows change meanwhile; what has been checked before  *)
(* the probe is not checked again after it, and the other way round.  The  *)
(* unique id of an entry is the connection it was given for.               *)
(***************************************************************************)
EXTENDS Naturals

CONSTANTS
    Entries,        \* identifiers of entries
    Flows,
    Gateways,       \* addresses of socketcand daemons, with an interface
    Devices,        \* USB adapters
    None

ASSUME KindsAssumption == Gateways \cap Devices = {}

VARIABLES
    entries,        \* entries[e]: its unique id and data
    flows,          \* flows[f]: a dialog that is open
    unchecked,      \* history: connections that a reauth stored while another
                    \* entry had or a user flow claimed them
    crossed         \* history: entries that a reconfigure gave another type
                    \* than a reauth of them, still open, was begun for

vars == <<entries, flows, unchecked, crossed>>

Connections == Gateways \cup Devices
Types == {"socketcand", "usb"}
TypeOf(c) == IF c \in Gateways THEN "socketcand" ELSE "usb"

\* The data of an entry keeps what a change of the other kind has left there.
EntryStates == [uid : Connections \cup {None}, type : Types \cup {None},
                gateway : Gateways \cup {None}, device : Devices \cup {None}]
Absent == [uid |-> None, type |-> None, gateway |-> None, device |-> None]
Fresh(c) == [uid |-> c, type |-> TypeOf(c),
             gateway |-> IF c \in Gateways THEN c ELSE None,
             device |-> IF c \in Devices THEN c ELSE None]
Present(e) == entries[e].type # None

\* The connection that the data of an entry names (DobissCoordinator.__init__).
Named(e) == IF entries[e].type = "socketcand" THEN entries[e].gateway ELSE entries[e].device

\* A flow: the kind of its form, what was entered and the unique id it claims.
Closed == [step |-> "closed", source |-> None, entry |-> None, kind |-> None,
           input |-> None, uid |-> None]
Sources == {"user", "reauth", "reconfigure"}
ASSUME NoneAssumption ==
    None \notin Entries \cup Connections \cup Types \cup Sources
FlowStates == [step : {"closed", "form", "probe"}, source : Sources \cup {None},
               entry : Entries \cup {None}, kind : Types \cup {None},
               input : Connections \cup {None}, uid : Connections \cup {None}]
In(f, step) == flows[f].step = step
Is(f, source) == flows[f].source = source
On(f, e) == flows[f].entry = e
Reauths(e) == {f \in Flows : Is(f, "reauth") /\ On(f, e)}

EntriesOf(c) == {e \in Entries : entries[e].uid = c}
Claiming(c) == {f \in Flows : flows[f].uid = c}

Form(source, entry, kind) ==
    [Closed EXCEPT !.step = "form", !.source = source, !.entry = entry, !.kind = kind]
Open(f, flow) == In(f, "closed") /\ flows' = [flows EXCEPT ![f] = flow]
Close(f) == flows' = [flows EXCEPT ![f] = Closed]

\* An identifier that no entry has and no open flow refers to.
Unused(e) == ~Present(e) /\ \A f \in Flows : ~On(f, e)

-----------------------------------------------------------------------------
(* Opening a form.                                                         *)

\* async_step_user with the type that is chosen, or async_step_usb.
BeginUser(f, kind) ==
    /\ Open(f, Form("user", None, kind))
    /\ UNCHANGED <<entries, unchecked, crossed>>

\* A controller whose back-off has reached its ceiling; the form is that of the
\* type the entry has now.  Home Assistant keeps one reauth per entry.
BeginReauth(f, e) ==
    /\ Present(e)
    /\ Reauths(e) = {}
    /\ Open(f, Form("reauth", e, entries[e].type))
    /\ UNCHANGED <<entries, unchecked, crossed>>

BeginReconfigure(f, e, kind) ==
    /\ Present(e)
    /\ Open(f, Form("reconfigure", e, kind))
    /\ UNCHANGED <<entries, unchecked, crossed>>

-----------------------------------------------------------------------------
(* Submitting it: the probe begins.                                        *)

Probing(f, c, uid) ==
    flows' = [flows EXCEPT ![f].step = "probe", ![f].input = c, ![f].uid = uid]

\* async_set_unique_id refuses an id that another flow claims.  A reauth may
\* count as one for the id of its entry.
Refused(f, c) == Claiming(c) \ {f} # {}
MayBeRefused(f, c) ==
    \/ Refused(f, c)
    \/ \E g \in Flows \ {f}, e \in EntriesOf(c) : g \in Reauths(e)

\* Mutant of SubmitUser: a connection that is set up already is not refused.
SubmitUnasked(f, c) ==
    /\ In(f, "form") /\ Is(f, "user") /\ TypeOf(c) = flows[f].kind
    /\ ~Refused(f, c) /\ Probing(f, c, c)
    /\ UNCHANGED <<entries, unchecked, crossed>>

SubmitUser(f, c) ==
    /\ In(f, "form") /\ Is(f, "user") /\ TypeOf(c) = flows[f].kind
    /\ \/ ~Refused(f, c) /\ EntriesOf(c) = {} /\ Probing(f, c, c)
       \/ (MayBeRefused(f, c) \/ EntriesOf(c) # {}) /\ Close(f)
    /\ UNCHANGED <<entries, unchecked, crossed>>

\* Nothing is checked of an entry that exists but that it does.
SubmitChange(f, c) ==
    /\ In(f, "form") /\ flows[f].source \in {"reauth", "reconfigure"}
    /\ TypeOf(c) = flows[f].kind
    /\ Present(flows[f].entry)
    /\ Probing(f, c, None)
    /\ UNCHANGED <<entries, unchecked, crossed>>

-----------------------------------------------------------------------------
(* The probe ends.                                                         *)

\* The form is shown again; a user flow still claims the id.
ProbeFails(f) ==
    /\ In(f, "probe")
    /\ flows' = [flows EXCEPT ![f].step = "form", ![f].input = None]
    /\ UNCHANGED <<entries, unchecked, crossed>>

\* async_create_entry: an entry that has got the id since is replaced, or the
\* new one refused; flows that claim the same id are closed.
CreateEntry(f, e) ==
    LET c == flows[f].input IN
    /\ In(f, "probe") /\ Is(f, "user")
    /\ Unused(e)
    /\ \/ entries' = [g \in Entries |-> IF g = e THEN Fresh(c)
                                        ELSE IF g \in EntriesOf(c) THEN Absent
                                        ELSE entries[g]]
       \/ EntriesOf(c) # {} /\ UNCHANGED entries
    /\ flows' = [g \in Flows |-> IF flows[g].uid = c THEN Closed ELSE flows[g]]
    /\ crossed' = crossed \ {e}
    /\ UNCHANGED unchecked

\* What a reauth changes in the data it finds now: never the type.
Reauthed(e, c) ==
    IF c \in Gateways THEN [entries[e] EXCEPT !.uid = c, !.gateway = c]
                      ELSE [entries[e] EXCEPT !.uid = c, !.device = c]

\* The id is stored without a look at other entries and flows; Home Assistant
\* may refuse one that another entry has.
FinishReauth(f) ==
    LET c == flows[f].input
        e == flows[f].entry
        others == EntriesOf(c) \ {e} IN
    /\ In(f, "probe") /\ Is(f, "reauth")
    /\ Present(e)
    /\ \/ /\ entries' = [entries EXCEPT ![e] = Reauthed(e, c)]
          /\ unchecked' = IF others # {} \/ Claiming(c) # {} THEN unchecked \cup {c} ELSE unchecked
       \/ others # {} /\ UNCHANGED <<entries, unchecked>>
    /\ Close(f)
    /\ UNCHANGED crossed

\* Mutant of Reconfigured: only what the form shows is changed.
ReconfiguredInPlace(e, c) == Reauthed(e, c)
Reconfigured(e, c) == Fresh(c)

\* Mutant of TakenFrom: a flow that claims the id is overlooked.
TakenByEntry(f, e, c) == EntriesOf(c) \ {e} # {}
TakenFrom(f, e, c) == Refused(f, c) \/ EntriesOf(c) \ {e} # {}

\* The id is checked only now.  The entry's own id is refused or stored again.
FinishReconfigure(f) ==
    LET c == flows[f].input
        e == flows[f].entry IN
    /\ In(f, "probe") /\ Is(f, "reconfigure")
    /\ Present(e)
    /\ \/ /\ ~TakenFrom(f, e, c)
          /\ entries' = [entries EXCEPT ![e] = Reconfigured(e, c)]
          /\ crossed' = IF \A g \in Reauths(e) : flows[g].kind = TypeOf(c)
                        THEN crossed \ {e} ELSE crossed \cup {e}
       \/ /\ TakenFrom(f, e, c) \/ MayBeRefused(f, c) \/ c = entries[e].uid
          /\ UNCHANGED <<entries, crossed>>
    /\ Close(f)
    /\ UNCHANGED unchecked

-----------------------------------------------------------------------------
(* What ends flows and entries at any time.                                *)

\* The user leaves the dialog, or its entry is gone.  The result of a probe is
\* dropped then for a new entry; a change that was submitted is stored anyway.
Abandon(f) ==
    /\ ~In(f, "closed")
    /\ In(f, "form") \/ \A e \in Entries : On(f, e) => ~Present(e)
    /\ Close(f)
    /\ UNCHANGED <<entries, unchecked, crossed>>

RemoveEntry(e) ==
    /\ Present(e)
    /\ entries' = [entries EXCEPT ![e] = Absent]
    /\ crossed' = crossed \ {e}
    /\ UNCHANGED <<flows, unchecked>>

-----------------------------------------------------------------------------
Init ==
    /\ entries = [e \in Entries |-> Absent]
    /\ flows = [f \in Flows |-> Closed]
    /\ unchecked = {}
    /\ crossed = {}

Step(f) ==
    \/ \E kind \in Types : BeginUser(f, kind)
    \/ \E e \in Entries : BeginReauth(f, e) \/ CreateEntry(f, e)
    \/ \E e \in Entries, kind \in Types : BeginReconfigure(f, e, kind)
    \/ \E c \in Connections : SubmitUser(f, c) \/ SubmitChange(f, c)
    \/ ProbeFails(f) \/ FinishReauth(f) \/ FinishReconfigure(f) \/ Abandon(f)

Next == (\E f \in Flows : Step(f)) \/ (\E e \in Entries : RemoveEntry(e))

Spec == Init /\ [][Next]_vars

-----------------------------------------------------------------------------
TypeOK ==
    /\ entries \in [Entries -> EntryStates]
    /\ flows \in [Flows -> FlowStates]
    /\ unchecked \subseteq Connections
    /\ crossed \subseteq Entries

\* A connection is set up once: two entries never get the same unique id, two
\* users never add it at once and none adds it while an entry has it, whatever
\* is submitted while probes are on their way.  The one exception is a reauth
\* that stored it while another entry had or a flow claimed it
\* (async_step_reauth_socketcand, async_step_reauth_usb).
SetUpOnce ==
    \A c \in Connections \ unchecked :
        /\ \A d, e \in EntriesOf(c) : d = e
        /\ \A f, g \in Claiming(c) : f = g
        /\ EntriesOf(c) = {} \/ Claiming(c) = {}

\* The unique id of an entry is the connection its data names, through any
\* mixture of reauths and reconfigures but one: a reauth that ends after a
\* reconfigure has changed the type stores the id of the other type.
IdNamesConnection ==
    \A e \in Entries \ crossed : Present(e) => entries[e].uid = Named(e)

\* Nobody who adds a connection removes an entry by it, unless a reauth has
\* given that entry the id while the other one was being added.
NoEntryReplaced ==
    [][\A f \in Flows, e, g \in Entries :
          CreateEntry(f, e) /\ Present(g) /\ ~Present(g)' => flows[f].input \in unchecked]_vars

=============================================================================
