---------------------------- MODULE ModuleConfig ----------------------------
(***************************************************************************)
(* The modules of an entry and the outputs they claim, as the dialogs of   *)
(* config_flow.py change them: ModuleSubentryFlowHandler and               *)
(* ModuleImportSubentryFlowHandler.                                        *)
(*                                                                         *)
(* A form that is opened, filled in and stored looks at the configuration  *)
(* once, when it is stored, so it is one action here.  Two dialogs carry   *)
(* something from one step to the next: changing an output keeps the key   *)
(* it picked (_edit_output_key), and an import keeps the letters it knew   *)
(* while it downloads.  Any number of dialogs may be open side by side.    *)
(***************************************************************************)
EXTENDS Naturals, Sequences

CONSTANTS
    Subs,               \* identifiers of module subentries
    Letters,            \* letters of modules
    Dialogs,            \* dialogs that keep something between steps
    OutputsPerModule,
    None,
    MaxSlots            \* bound: new modules the Max200 lists in an import

ASSUME OutputsAssumption == OutputsPerModule \in Nat
ASSUME SlotsAssumption == MaxSlots \in Nat

VARIABLES
    modules,            \* modules[s]: the data of a subentry, see Module
    dialog,             \* dialog[d]: where a dialog is and what it keeps
    revived             \* history: subentries in which a dialog stored an
                        \* output that had been removed since it picked it

vars == <<modules, dialog, revived>>

Numbers == 1..OutputsPerModule
Types == {"none", "light", "switch", "shutter"}
Config == [type : Types, down : 0..OutputsPerModule]
NoConfig == [type |-> "none", down |-> 0]
Plain(t) == [type |-> t, down |-> 0]
Shutter(down) == [type |-> "shutter", down |-> down]

\* A subentry that exists has a letter and the unique id "module:<letter>".
Module == [letter : Letters \cup {None}, uid : Letters \cup {None}, outputs : [Numbers -> Config]]
NewModule(letter, outputs) == [letter |-> letter, uid |-> letter, outputs |-> outputs]
Bare == [k \in Numbers |-> NoConfig]
Absent == NewModule(None, Bare)
Existing == {s \in Subs : modules[s].letter # None}
Outputs(s) == modules[s].outputs
Configured(outputs) == {k \in Numbers : outputs[k].type # "none"}

\* Mutant of Occupied: the second output of a shutter is forgotten.
KeysOnly(outputs) == Configured(outputs)

\* _occupied_outputs_in_module.
Occupied(outputs) == Configured(outputs) \cup {outputs[k].down : k \in Configured(outputs)}

Closed == [step |-> "closed", sub |-> None, key |-> 0, known |-> {}, fetched |-> <<>>]
Steps == {"closed", "type", "down", "config", "names"}
DialogState == [step : Steps, sub : Subs \cup {None}, key : 0..OutputsPerModule,
                known : SUBSET Letters, fetched : Seq(Letters)]
In(d, step) == dialog[d].step = step

Store(s, outputs) == modules' = [modules EXCEPT ![s].outputs = outputs]
Close(d) == dialog' = [dialog EXCEPT ![d] = Closed]
Taken == {modules[s].letter : s \in Existing}

-----------------------------------------------------------------------------
(* Modules.                                                                *)

\* A new identifier: one that no open dialog still refers to.
Unused(s) == s \notin Existing /\ \A d \in Dialogs : dialog[d].sub # s

AddModule(s, letter) ==
    /\ Unused(s)
    /\ letter \notin Taken
    /\ modules' = [modules EXCEPT ![s] = NewModule(letter, Bare)]
    /\ revived' = revived \ {s}
    /\ UNCHANGED dialog

\* Mutant of Renamed: the unique id keeps the letter the module had.
RenamedInPlace(m, letter) == [m EXCEPT !.letter = letter]
Renamed(m, letter) == NewModule(letter, m.outputs)

EditModule(s, letter) ==
    /\ s \in Existing
    /\ letter \notin {modules[t].letter : t \in Existing \ {s}}
    /\ modules' = [modules EXCEPT ![s] = Renamed(@, letter)]
    /\ UNCHANGED <<dialog, revived>>

\* The user deletes the subentry; dialogs on it find it gone.
RemoveModule(s) ==
    /\ s \in Existing
    /\ modules' = [modules EXCEPT ![s] = Absent]
    /\ UNCHANGED <<dialog, revived>>

-----------------------------------------------------------------------------
(* Outputs, in one form.                                                   *)

\* add_light and add_switch.
AddPlain(s, type, output) ==
    /\ s \in Existing
    /\ output \notin Occupied(Outputs(s))
    /\ Store(s, [Outputs(s) EXCEPT ![output] = Plain(type)])
    /\ UNCHANGED <<dialog, revived>>

AddShutter(s, up, down) ==
    /\ s \in Existing
    /\ up # down
    /\ {up, down} \cap Occupied(Outputs(s)) = {}
    /\ Store(s, [Outputs(s) EXCEPT ![up] = Shutter(down)])
    /\ UNCHANGED <<dialog, revived>>

RemoveOutput(s, output) ==
    /\ s \in Existing
    /\ output \in Configured(Outputs(s))
    /\ Store(s, [Outputs(s) EXCEPT ![output] = NoConfig])
    /\ UNCHANGED <<dialog, revived>>

-----------------------------------------------------------------------------
(* Changing the type of an output, in two or three steps.                  *)

PickOutput(d, s, output) ==
    /\ In(d, "closed")
    /\ s \in Existing
    /\ output \in Configured(Outputs(s))
    /\ dialog' = [dialog EXCEPT ![d].step = "type", ![d].sub = s, ![d].key = output]
    /\ UNCHANGED <<modules, revived>>

\* What a dialog stores, it stores under the key it picked, still there or not.
StoreEdit(d, config) ==
    LET s == dialog[d].sub
        k == dialog[d].key IN
    /\ Store(s, [Outputs(s) EXCEPT ![k] = config])
    /\ revived' = IF k \in Configured(Outputs(s)) THEN revived ELSE revived \cup {s}
    /\ Close(d)

ChoosePlain(d, type) ==
    /\ In(d, "type")
    /\ dialog[d].sub \in Existing
    /\ StoreEdit(d, Plain(type))

ChooseShutter(d) ==
    /\ In(d, "type")
    /\ dialog[d].sub \in Existing
    /\ dialog' = [dialog EXCEPT ![d].step = "down"]
    /\ UNCHANGED <<modules, revived>>

\* The outputs that the changed one may keep.
OwnClaims(outputs, k) ==
    {k} \cup {outputs[j].down : j \in {i \in {k} : outputs[i].type = "shutter"}}

Pairable(outputs, k) == Numbers \ ((Occupied(outputs) \ OwnClaims(outputs, k)) \cup {k})

ChooseDown(d, down) ==
    /\ In(d, "down")
    /\ dialog[d].sub \in Existing
    /\ down \in Pairable(Outputs(dialog[d].sub), dialog[d].key)
    /\ StoreEdit(d, Shutter(down))

\* The user leaves it, its subentry is gone, or the download of the list fails.
Abandon(d) ==
    /\ dialog[d].step \in {"type", "down", "config"}
    /\ Close(d)
    /\ UNCHANGED <<modules, revived>>

-----------------------------------------------------------------------------
(* Importing modules from the Max200.                                      *)

BeginImport(d) ==
    /\ In(d, "closed")
    /\ dialog' = [dialog EXCEPT ![d].step = "config", ![d].known = Taken]
    /\ UNCHANGED <<modules, revived>>

\* The list of modules: slots of the EEPROM, any letter in each.
ConfigArrives(d) ==
    /\ In(d, "config")
    /\ \E slots \in 1..MaxSlots : \E list \in [1..slots -> Letters \ dialog[d].known] :
          dialog' = [dialog EXCEPT ![d].step = "names", ![d].fetched = list]
    /\ UNCHANGED <<modules, revived>>

\* The outputs that have a name, as lights; none if their download failed.
Imported(letter, named) ==
    NewModule(letter, [k \in Numbers |-> IF k \in named THEN Plain("light") ELSE NoConfig])

\* async_add_subentry refuses a unique id that some subentry has.
Collides(letter) == letter \in {modules[s].uid : s \in Existing}

\* The entries of a list that are stored before async_add_subentry refuses one.
Stored(list) ==
    {i \in DOMAIN list : \A j \in 1..i : /\ ~Collides(list[j])
                                         /\ \A h \in 1..(j - 1) : list[h] # list[j]}

\* One subentry after the other, without an await in between; the first one
\* that is refused aborts the dialog.
NamesArrive(d) ==
    LET list == dialog[d].fetched
        stored == Stored(list) IN
    /\ In(d, "names")
    /\ \E at \in [stored -> {s \in Subs : Unused(s)}], named \in [stored -> SUBSET Numbers] :
          /\ \A i, j \in stored : at[i] = at[j] => i = j
          /\ modules' = [s \in Subs |->
                IF \E i \in stored : at[i] = s
                THEN LET i == CHOOSE i \in stored : at[i] = s IN Imported(list[i], named[i])
                ELSE modules[s]]
          /\ revived' = revived \ {at[i] : i \in stored}
    /\ Close(d)

-----------------------------------------------------------------------------
\* An entry starts without subentries.
Init ==
    /\ modules = [s \in Subs |-> Absent]
    /\ dialog = [d \in Dialogs |-> Closed]
    /\ revived = {}

Forms(s) ==
    \/ RemoveModule(s)
    \/ \E letter \in Letters : AddModule(s, letter) \/ EditModule(s, letter)
    \/ \E output \in Numbers :
          \/ \E type \in {"light", "switch"} : AddPlain(s, type, output)
          \/ \E down \in Numbers : AddShutter(s, output, down)
          \/ RemoveOutput(s, output)

Dialog(d) ==
    \/ \E s \in Subs, output \in Numbers : PickOutput(d, s, output)
    \/ \E type \in {"light", "switch"} : ChoosePlain(d, type)
    \/ ChooseShutter(d)
    \/ \E down \in Numbers : ChooseDown(d, down)
    \/ BeginImport(d) \/ ConfigArrives(d) \/ NamesArrive(d)
    \/ Abandon(d)

Next == (\E s \in Subs : Forms(s)) \/ (\E d \in Dialogs : Dialog(d))

Spec == Init /\ [][Next]_vars

-----------------------------------------------------------------------------
TypeOK ==
    /\ modules \in [Subs -> Module]
    /\ dialog \in [Dialogs -> DialogState]
    /\ revived \subseteq Subs

\* Who claims a number: the output of that key and shutters that move down by it.
Claimants(outputs, n) == {k \in Configured(outputs) : n = k \/ n = outputs[k].down}

\* No number is claimed twice, by two outputs or as both ends of a shutter.
ClaimedAtMostOnce(outputs) ==
    /\ \A n \in Numbers : \A j, k \in Claimants(outputs, n) : j = k
    /\ \A k \in Configured(outputs) : outputs[k].down # k

\* "Each output number can only be claimed once per module" (README), however
\* many dialogs are open.
ClaimedOnce == \A s \in Existing : ClaimedAtMostOnce(Outputs(s))

\* Numbers are claimed once, but for a change of type that is stored after its
\* output was removed (async_step_edit_output_type, async_step_edit_output_down).
ClaimedOnceUnlessRevived == \A s \in Existing \ revived : ClaimedAtMostOnce(Outputs(s))

\* A letter addresses one module on the bus: no two subentries have the same,
\* also when one is added or renamed while an import downloads.
LettersUnique == \A s, t \in Existing : modules[s].letter = modules[t].letter => s = t

=============================================================================
