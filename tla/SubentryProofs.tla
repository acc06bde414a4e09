--------------------------- MODULE SubentryProofs ---------------------------
(***************************************************************************)
(* Proofs about ModuleConfig for any subentries, letters, dialogs and      *)
(* number of outputs: types, that no number is claimed twice as long as no *)
(* removed output is stored again, and that no letter is given twice; and  *)
(* about MoodConfig, whose dialogs leave the modules of the entry to those *)
(* of ModuleConfig, which it implements, and whose import stores all that  *)
(* is new unless a mood was added meanwhile.                               *)
(***************************************************************************)
EXTENDS MoodConfig, TLAPS

-----------------------------------------------------------------------------
(* What the dialogs store keeps the claims of one module apart.            *)

LEMMA BareClaims == ClaimedAtMostOnce(Bare)
BY DEF ClaimedAtMostOnce, Claimants, Configured, Bare, NoConfig

LEMMA LightsClaim ==
    ASSUME NEW named
    PROVE  ClaimedAtMostOnce([k \in Numbers |-> IF k \in named THEN Plain("light") ELSE NoConfig])
<1> DEFINE o == [k \in Numbers |-> IF k \in named THEN Plain("light") ELSE NoConfig]
<1>1. \A k \in Numbers : o[k].down = 0
  BY DEF Plain, NoConfig
<1>2. 0 \notin Numbers
  BY OutputsAssumption DEF Numbers
<1> HIDE DEF o
<1>3. ClaimedAtMostOnce(o)
  BY <1>1, <1>2 DEF ClaimedAtMostOnce, Claimants, Configured
<1> QED  BY <1>3 DEF o

LEMMA PlainKeepsClaims ==
    ASSUME NEW o \in [Numbers -> Config], ClaimedAtMostOnce(o), NEW type \in Types,
           NEW k \in Numbers, k \in Configured(o) \/ k \notin Occupied(o)
    PROVE  ClaimedAtMostOnce([o EXCEPT ![k] = Plain(type)])
<1> DEFINE new == [o EXCEPT ![k] = Plain(type)]
<1>1. 0 \notin Numbers
  BY OutputsAssumption DEF Numbers
<1>2. \A n \in Numbers : \A i \in Claimants(new, n) : i # k => i \in Claimants(o, n)
  BY DEF Claimants, Configured, Config
<1>3. \A n \in Numbers : k \in Claimants(new, n) => n = k
  BY <1>1 DEF Claimants, Configured, Config, Plain
<1>4. Claimants(o, k) \subseteq {k}
  BY DEF ClaimedAtMostOnce, Claimants, Configured, Occupied
<1>5. \A i \in Configured(new) : new[i].down # i
  BY <1>1 DEF ClaimedAtMostOnce, Configured, Config, Plain
<1> HIDE DEF new
<1>6. \A n \in Numbers : \A i, j \in Claimants(new, n) : i = j
  <2> SUFFICES ASSUME NEW n \in Numbers, NEW i \in Claimants(new, n), NEW j \in Claimants(new, n)
               PROVE  i = j
    OBVIOUS
  <2>1. CASE n = k
    BY <1>2, <1>4, <2>1
  <2>2. CASE n # k
    BY <1>2, <1>3, <2>2 DEF ClaimedAtMostOnce
  <2> QED  BY <2>1, <2>2
<1>7. ClaimedAtMostOnce(new)
  BY <1>6, <1>5 DEF ClaimedAtMostOnce
<1> QED  BY <1>7 DEF new

LEMMA ShutterKeepsClaims ==
    ASSUME NEW o \in [Numbers -> Config], ClaimedAtMostOnce(o),
           NEW k \in Numbers, k \in Configured(o) \/ k \notin Occupied(o),
           NEW down \in Pairable(o, k)
    PROVE  ClaimedAtMostOnce([o EXCEPT ![k] = Shutter(down)])
<1> DEFINE new == [o EXCEPT ![k] = Shutter(down)]
<1>1. 0 \notin Numbers /\ down \in Numbers /\ down # k
  BY OutputsAssumption DEF Numbers, Pairable
<1>2. \A n \in Numbers : \A i \in Claimants(new, n) : i # k => i \in Claimants(o, n)
  BY DEF Claimants, Configured, Config
<1>3. \A n \in Numbers : k \in Claimants(new, n) => n \in {k, down}
  BY DEF Claimants, Configured, Config, Shutter
<1>4. Claimants(o, k) \subseteq {k}
  BY DEF ClaimedAtMostOnce, Claimants, Configured, Occupied
<1>5. Claimants(o, down) \subseteq {k}
  <2>1. CASE down \notin Occupied(o)
    BY <2>1 DEF Claimants, Configured, Occupied
  <2>2. CASE down \in Occupied(o)
    <3>1. o[k].type = "shutter" /\ down = o[k].down
      BY <1>1, <2>2 DEF Pairable, OwnClaims
    <3>2. k \in Configured(o)
      BY <3>1 DEF Configured
    <3> QED  BY <3>1, <3>2, <1>1 DEF ClaimedAtMostOnce, Claimants
  <2> QED  BY <2>1, <2>2
<1>6. \A i \in Configured(new) : new[i].down # i
  BY <1>1 DEF ClaimedAtMostOnce, Configured, Config, Shutter
<1> HIDE DEF new
<1>7. \A n \in Numbers : \A i, j \in Claimants(new, n) : i = j
  <2> SUFFICES ASSUME NEW n \in Numbers, NEW i \in Claimants(new, n), NEW j \in Claimants(new, n)
               PROVE  i = j
    OBVIOUS
  <2>1. CASE n \in {k, down}
    BY <1>2, <1>4, <1>5, <2>1
  <2>2. CASE n \notin {k, down}
    BY <1>2, <1>3, <2>2 DEF ClaimedAtMostOnce
  <2> QED  BY <2>1, <2>2
<1>8. ClaimedAtMostOnce(new)
  BY <1>7, <1>6 DEF ClaimedAtMostOnce
<1> QED  BY <1>8 DEF new

LEMMA Operators ==
    /\ NoConfig \in Config /\ NoConfig = Plain("none")
    /\ \A type \in Types : Plain(type) \in Config
    /\ \A down \in Numbers : Shutter(down) \in Config
    /\ Bare \in [Numbers -> Config]
    /\ Absent \in Module
    /\ \A letter \in Letters, o \in [Numbers -> Config] : NewModule(letter, o) \in Module
    /\ \A letter \in Letters : \A named : Imported(letter, named) \in Module
<1>1. NoConfig \in Config /\ NoConfig = Plain("none")
  BY OutputsAssumption DEF NoConfig, Config, Types, Plain
<1>2. \A type \in Types : Plain(type) \in Config
  BY OutputsAssumption DEF Plain, Config
<1>3. \A down \in Numbers : Shutter(down) \in Config
  BY OutputsAssumption DEF Shutter, Config, Types, Numbers
<1>4. Bare \in [Numbers -> Config]
  BY <1>1 DEF Bare
<1>5. \A letter \in Letters \cup {None}, o \in [Numbers -> Config] : NewModule(letter, o) \in Module
  BY DEF NewModule, Module
<1>6. \A letter \in Letters : \A named : Imported(letter, named) \in Module
  <2> SUFFICES ASSUME NEW letter \in Letters, NEW named PROVE Imported(letter, named) \in Module
    OBVIOUS
  <2>1. [k \in Numbers |-> IF k \in named THEN Plain("light") ELSE NoConfig] \in [Numbers -> Config]
    BY <1>1, <1>2 DEF Types
  <2> QED  BY <2>1, <1>5 DEF Imported
<1> QED  BY <1>1, <1>2, <1>3, <1>4, <1>5, <1>6 DEF Absent

-----------------------------------------------------------------------------
(* The inductive invariant.                                                *)

\* A dialog that changes an output has picked one.
KeyPicked == \A d \in Dialogs : dialog[d].step \in {"type", "down"} => dialog[d].key \in Numbers

\* The unique id, which async_add_subentry compares, follows the letter.
UidIsLetter == \A s \in Existing : modules[s].uid = modules[s].letter

Inv == TypeOK /\ KeyPicked /\ UidIsLetter /\ LettersUnique /\ ClaimedOnceUnlessRevived

LEMMA InitInv == Init => Inv
<1> SUFFICES ASSUME Init PROVE Inv
  OBVIOUS
<1>1. Closed \in DialogState
  BY OutputsAssumption DEF Closed, Steps, DialogState
<1>2. TypeOK
  BY <1>1, Operators DEF Init, TypeOK
<1>3. Existing = {}
  BY DEF Init, Existing, Absent, NewModule
<1>4. KeyPicked
  BY DEF Init, KeyPicked, Closed
<1> QED  BY <1>2, <1>3, <1>4 DEF Inv, UidIsLetter, LettersUnique, ClaimedOnceUnlessRevived

\* A dialog that closes keeps nothing.
LEMMA CloseTyped ==
    ASSUME TypeOK, KeyPicked, NEW d \in Dialogs, Close(d)
    PROVE  /\ dialog' \in [Dialogs -> DialogState]
           /\ KeyPicked'
<1>1. Closed \in DialogState
  BY OutputsAssumption DEF Closed, Steps, DialogState
<1>2. Closed.step = "closed"
  BY DEF Closed
<1> QED  BY <1>1, <1>2 DEF Close, TypeOK, KeyPicked

\* New outputs for one module: letters and unique ids stay, and so do the claims
\* of every other module.
LEMMA StoreKeeps ==
    ASSUME Inv, NEW s \in Existing, NEW o \in [Numbers -> Config], Store(s, o),
           revived \subseteq revived', s \notin revived' => ClaimedAtMostOnce(o)
    PROVE  modules' \in [Subs -> Module] /\ UidIsLetter' /\ LettersUnique' /\ ClaimedOnceUnlessRevived'
<1>1. s \in Subs /\ modules \in [Subs -> Module]
  BY DEF Inv, TypeOK, Existing
<1>2. modules'[s] = [modules[s] EXCEPT !.outputs = o]
  BY <1>1 DEF Store
<1>3. modules[s] \in Module
  BY <1>1
<1>4. modules'[s] \in Module /\ modules'[s].outputs = o
      /\ modules'[s].letter = modules[s].letter /\ modules'[s].uid = modules[s].uid
  BY <1>2, <1>3 DEF Module
<1>5. \A t \in Subs \ {s} : modules'[t] = modules[t]
  BY <1>1 DEF Store
<1>6. modules' \in [Subs -> Module]
  BY <1>1, <1>4, <1>5 DEF Store
<1>7. Existing' = Existing
  BY <1>1, <1>4, <1>5 DEF Existing
<1>8. \A t \in Existing : modules'[t].letter = modules[t].letter /\ modules'[t].uid = modules[t].uid
  BY <1>4, <1>5 DEF Existing
<1>9. UidIsLetter' /\ LettersUnique'
  BY <1>7, <1>8 DEF Inv, UidIsLetter, LettersUnique
<1>10. ClaimedOnceUnlessRevived'
  <2> SUFFICES ASSUME NEW t \in Existing, t \notin revived' PROVE ClaimedAtMostOnce(modules'[t].outputs)
    BY <1>7 DEF ClaimedOnceUnlessRevived, Outputs
  <2>1. CASE t = s
    BY <1>4, <2>1
  <2>2. CASE t # s
    BY <1>5, <2>2 DEF Existing, Inv, ClaimedOnceUnlessRevived, Outputs
  <2> QED  BY <2>1, <2>2
<1> QED  BY <1>6, <1>9, <1>10

\* The same for what a change of type stores.
LEMMA StoreEditKeeps ==
    ASSUME Inv, NEW d \in Dialogs, dialog[d].step \in {"type", "down"}, dialog[d].sub \in Existing,
           NEW config \in Config, StoreEdit(d, config),
           LET o == Outputs(dialog[d].sub)
               k == dialog[d].key
           IN  k \in Configured(o) /\ ClaimedAtMostOnce(o) => ClaimedAtMostOnce([o EXCEPT ![k] = config])
    PROVE  Inv'
<1> DEFINE s == dialog[d].sub
           k == dialog[d].key
           o == Outputs(s)
           new == [o EXCEPT ![k] = config]
<1>1. s \in Subs /\ o \in [Numbers -> Config] /\ k \in Numbers
  BY DEF Inv, TypeOK, KeyPicked, Existing, Outputs, Module
<1>2. new \in [Numbers -> Config]
  BY <1>1
<1>3. Store(s, new) /\ Close(d) /\ revived' = IF k \in Configured(o) THEN revived ELSE revived \cup {s}
  BY DEF StoreEdit
<1>4. s \notin revived' => ClaimedAtMostOnce(new)
  BY <1>3 DEF Inv, ClaimedOnceUnlessRevived, Outputs
<1>5. revived \subseteq revived' /\ revived' \subseteq Subs
  BY <1>1, <1>3 DEF Inv, TypeOK
<1> HIDE DEF new
<1>6. modules' \in [Subs -> Module] /\ UidIsLetter' /\ LettersUnique' /\ ClaimedOnceUnlessRevived'
  BY <1>2, <1>3, <1>4, <1>5, StoreKeeps
<1> QED  BY <1>3, <1>5, <1>6, CloseTyped DEF Inv, TypeOK

\* A letter that nobody has, given to a subentry that did not exist or to one
\* that gives up its own.
LEMMA LetterKeeps ==
    ASSUME Inv, NEW s \in Subs, NEW letter \in Letters, NEW o \in [Numbers -> Config],
           letter \notin {modules[t].letter : t \in Existing \ {s}},
           modules' = [modules EXCEPT ![s] = NewModule(letter, o)]
    PROVE  modules' \in [Subs -> Module] /\ UidIsLetter' /\ LettersUnique'
<1>1. modules \in [Subs -> Module] /\ NewModule(letter, o) \in Module
  BY Operators DEF Inv, TypeOK
<1>2. modules'[s].letter = letter /\ modules'[s].uid = letter
  BY <1>1 DEF NewModule
<1>3. \A t \in Subs \ {s} : modules'[t] = modules[t]
  BY <1>1
<1>4. Existing' \ {s} = Existing \ {s}
  BY <1>3 DEF Existing
<1>5. UidIsLetter'
  <2> SUFFICES ASSUME NEW t \in Existing' PROVE modules'[t].uid = modules'[t].letter
    BY DEF UidIsLetter
  <2> QED  BY <1>2, <1>3, <1>4 DEF Inv, UidIsLetter, Existing
<1>6. LettersUnique'
  <2> SUFFICES ASSUME NEW t \in Existing', NEW u \in Existing', modules'[t].letter = modules'[u].letter
               PROVE  t = u
    BY DEF LettersUnique
  <2>1. CASE t # s /\ u # s
    <3>1. t \in Existing /\ u \in Existing /\ modules[t].letter = modules[u].letter
      BY <1>3, <1>4, <2>1 DEF Existing
    <3> QED  BY <3>1 DEF Inv, LettersUnique
  <2>2. CASE t = s /\ u # s
    BY <1>2, <1>3, <1>4, <2>2 DEF Existing
  <2>3. CASE t # s /\ u = s
    BY <1>2, <1>3, <1>4, <2>3 DEF Existing
  <2> QED  BY <2>1, <2>2, <2>3
<1> QED  BY <1>1, <1>5, <1>6

LEMMA ModuleFields ==
    \A letter, o : /\ NewModule(letter, o).letter = letter
                   /\ NewModule(letter, o).uid = letter
                   /\ NewModule(letter, o).outputs = o
BY DEF NewModule

LEMMA ImportedFields ==
    ASSUME NEW letter, NEW named
    PROVE  /\ Imported(letter, named).letter = letter
           /\ Imported(letter, named).uid = letter
           /\ Imported(letter, named).outputs
                = [k \in Numbers |-> IF k \in named THEN Plain("light") ELSE NoConfig]
<1> DEFINE o == [k \in Numbers |-> IF k \in named THEN Plain("light") ELSE NoConfig]
<1>1. Imported(letter, named) = NewModule(letter, o)
  BY DEF Imported
<1> HIDE DEF o
<1>2. /\ Imported(letter, named).letter = letter
      /\ Imported(letter, named).uid = letter
      /\ Imported(letter, named).outputs = o
  BY <1>1, ModuleFields
<1> QED  BY <1>2 DEF o

\* What is stored of a list is new, and is stored once.
LEMMA StoredOnce ==
    ASSUME NEW list \in Seq(Letters)
    PROVE  /\ Stored(list) \subseteq DOMAIN list
           /\ \A i \in Stored(list) : list[i] \in Letters /\ ~Collides(list[i])
           /\ \A i, j \in Stored(list) : list[i] = list[j] => i = j
<1>1. \A i \in Stored(list) : i \in DOMAIN list /\ i \in Nat \ {0} /\ list[i] \in Letters
  BY DEF Stored
<1>2. \A i \in Stored(list) : ~Collides(list[i])
  <2> SUFFICES ASSUME NEW i \in Stored(list) PROVE ~Collides(list[i])
    OBVIOUS
  <2>1. i \in 1..i
    BY <1>1
  <2> QED  BY <2>1 DEF Stored
<1>3. \A i, j \in Stored(list) : i < j => list[i] # list[j]
  <2> SUFFICES ASSUME NEW i \in Stored(list), NEW j \in Stored(list), i < j PROVE list[i] # list[j]
    OBVIOUS
  <2>1. j \in 1..j /\ i \in 1..(j - 1)
    BY <1>1
  <2>2. \A h \in 1..(j - 1) : list[h] # list[j]
    BY <2>1 DEF Stored
  <2> QED  BY <2>1, <2>2
<1> QED  BY <1>1, <1>2, <1>3

LEMMA ImportKeeps ==
    ASSUME Inv, NEW d \in Dialogs, NamesArrive(d)
    PROVE  Inv'
<1> DEFINE list == dialog[d].fetched
           stored == Stored(list)
<1>1. list \in Seq(Letters) /\ \A i \in stored : list[i] \in Letters
  <2>1. list \in Seq(Letters)
    BY DEF Inv, TypeOK, DialogState
  <2> QED  BY <2>1, StoredOnce
<1>2. PICK at \in [stored -> {s \in Subs : Unused(s)}], named \in [stored -> SUBSET Numbers] :
          /\ \A i, j \in stored : at[i] = at[j] => i = j
          /\ modules' = [s \in Subs |->
                IF \E i \in stored : at[i] = s
                THEN LET i == CHOOSE i \in stored : at[i] = s IN Imported(list[i], named[i])
                ELSE modules[s]]
          /\ revived' = revived \ {at[i] : i \in stored}
  BY DEF NamesArrive
<1>3. \A i \in stored : /\ at[i] \in Subs \ Existing
                        /\ modules'[at[i]] = Imported(list[i], named[i])
  <2> SUFFICES ASSUME NEW i \in stored
               PROVE  at[i] \in Subs \ Existing /\ modules'[at[i]] = Imported(list[i], named[i])
    OBVIOUS
  <2>1. at[i] \in Subs /\ at[i] \notin Existing
    BY DEF Unused
  <2>2. (CHOOSE j \in stored : at[j] = at[i]) = i
    BY <1>2
  <2> QED  BY <1>2, <2>1, <2>2
<1>4. \A s \in Subs : (\A i \in stored : at[i] # s) => modules'[s] = modules[s]
  BY <1>2
<1>5. \A i \in stored : modules'[at[i]].letter = list[i] /\ modules'[at[i]].uid = list[i]
  <2> SUFFICES ASSUME NEW i \in stored
               PROVE  modules'[at[i]].letter = list[i] /\ modules'[at[i]].uid = list[i]
    OBVIOUS
  <2>1. modules'[at[i]] = Imported(list[i], named[i])
    BY <1>3
  <2>2. Imported(list[i], named[i]).letter = list[i] /\ Imported(list[i], named[i]).uid = list[i]
    BY ImportedFields
  <2> HIDE DEF list
  <2> QED  BY <2>1, <2>2
<1>6. modules' \in [Subs -> Module]
  <2>1. \A s \in Subs : modules'[s] \in Module
    <3> SUFFICES ASSUME NEW s \in Subs PROVE modules'[s] \in Module
      OBVIOUS
    <3>1. CASE \E i \in stored : at[i] = s
      BY <1>1, <1>3, <3>1, Operators
    <3>2. CASE ~\E i \in stored : at[i] = s
      BY <1>4, <3>2 DEF Inv, TypeOK
    <3> QED  BY <3>1, <3>2
  <2> QED  BY <1>2, <2>1
<1>7. \A s \in Existing' : \/ s \in Existing /\ modules'[s] = modules[s]
                           \/ \E i \in stored : at[i] = s
  BY <1>4 DEF Existing
<1>8. \A i \in stored : \A s \in Existing : list[i] # modules[s].letter
  BY <1>1, StoredOnce DEF Collides, Inv, UidIsLetter
<1>9. \A i, j \in stored : list[i] = list[j] => i = j
  BY <1>1, StoredOnce
<1> HIDE DEF list, stored
<1>10. UidIsLetter'
  BY <1>5, <1>7 DEF UidIsLetter, Inv
<1>11. LettersUnique'
  <2> SUFFICES ASSUME NEW s \in Existing', NEW t \in Existing', modules'[s].letter = modules'[t].letter
               PROVE  s = t
    BY DEF LettersUnique
  <2>1. CASE (s \in Existing /\ modules'[s] = modules[s]) /\ (t \in Existing /\ modules'[t] = modules[t])
    BY <2>1 DEF Inv, LettersUnique
  <2>2. CASE (s \in Existing /\ modules'[s] = modules[s]) /\ \E i \in stored : at[i] = t
    BY <1>5, <1>8, <2>2
  <2>3. CASE (\E i \in stored : at[i] = s) /\ (t \in Existing /\ modules'[t] = modules[t])
    BY <1>5, <1>8, <2>3
  <2>4. CASE (\E i \in stored : at[i] = s) /\ (\E i \in stored : at[i] = t)
    BY <1>5, <1>9, <2>4
  <2> QED  BY <1>7, <2>1, <2>2, <2>3, <2>4
<1>12. ClaimedOnceUnlessRevived'
  <2> SUFFICES ASSUME NEW s \in Existing', s \notin revived' PROVE ClaimedAtMostOnce(modules'[s].outputs)
    BY DEF ClaimedOnceUnlessRevived, Outputs
  <2>1. CASE \E i \in stored : at[i] = s
    <3>1. PICK i \in stored : at[i] = s
      BY <2>1
    <3>2. modules'[s].outputs = [k \in Numbers |-> IF k \in named[i] THEN Plain("light") ELSE NoConfig]
      BY <1>3, <3>1, ImportedFields
    <3> QED  BY <3>2, LightsClaim
  <2>2. CASE ~\E i \in stored : at[i] = s
    <3>1. s \in Existing /\ modules'[s] = modules[s] /\ s \notin revived
      BY <1>2, <1>7, <2>2
    <3> QED  BY <3>1 DEF Inv, ClaimedOnceUnlessRevived, Outputs
  <2> QED  BY <2>1, <2>2
<1>13. Close(d) /\ revived' \subseteq Subs
  BY <1>2 DEF NamesArrive, Inv, TypeOK
<1> QED  BY <1>6, <1>10, <1>11, <1>12, <1>13, CloseTyped DEF Inv, TypeOK

LEMMA NextInv == Inv /\ [Next]_vars => Inv'
<1> SUFFICES ASSUME Inv, [Next]_vars PROVE Inv'
  OBVIOUS
<1> USE DEF Numbers
<1>1. \A s \in Existing : s \in Subs /\ Outputs(s) \in [Numbers -> Config]
  BY DEF Inv, TypeOK, Existing, Outputs, Module
<1>2. \A s \in Existing \ revived : ClaimedAtMostOnce(Outputs(s))
  BY DEF Inv, ClaimedOnceUnlessRevived
<1>3. ASSUME UNCHANGED dialog PROVE KeyPicked' /\ (modules' \in [Subs -> Module] /\ revived' \subseteq Subs => TypeOK')
  BY <1>3 DEF Inv, TypeOK, KeyPicked
<1>4. ASSUME NEW s \in Subs, NEW letter \in Letters, AddModule(s, letter) PROVE Inv'
  <2>1. letter \notin {modules[t].letter : t \in Existing \ {s}}
    BY <1>4 DEF AddModule, Taken
  <2>2. modules' \in [Subs -> Module] /\ UidIsLetter' /\ LettersUnique'
    BY <1>4, <2>1, LetterKeeps, Operators DEF AddModule
  <2>3. modules'[s].outputs = Bare /\ \A t \in Subs \ {s} : modules'[t] = modules[t]
    BY <1>4, ModuleFields DEF AddModule, Inv, TypeOK
  <2>4. ClaimedOnceUnlessRevived'
    <3> SUFFICES ASSUME NEW t \in Existing', t \notin revived' PROVE ClaimedAtMostOnce(modules'[t].outputs)
      BY DEF ClaimedOnceUnlessRevived, Outputs
    <3>1. CASE t = s
      BY <2>3, <3>1, BareClaims
    <3>2. CASE t # s
      BY <1>2, <1>4, <2>3, <3>2 DEF Existing, AddModule, Outputs
    <3> QED  BY <3>1, <3>2
  <2> QED  BY <1>3, <1>4, <2>2, <2>4 DEF AddModule, Inv, TypeOK
<1>5. ASSUME NEW s \in Subs, NEW letter \in Letters, EditModule(s, letter) PROVE Inv'
  <2>1. Renamed(modules[s], letter) = NewModule(letter, Outputs(s))
    BY DEF Renamed, Outputs
  <2>2. modules' \in [Subs -> Module] /\ UidIsLetter' /\ LettersUnique'
    BY <1>1, <1>5, <2>1, LetterKeeps DEF EditModule
  <2>3. \A t \in Subs : modules'[t].outputs = Outputs(t)
    BY <1>5, <2>1, ModuleFields DEF EditModule, Outputs, Inv, TypeOK
  <2>4. Existing' \subseteq Existing
    BY <1>5 DEF EditModule, Existing
  <2>5. ClaimedOnceUnlessRevived'
    BY <1>1, <1>2, <1>5, <2>3, <2>4 DEF EditModule, ClaimedOnceUnlessRevived, Outputs
  <2> QED  BY <1>3, <1>5, <2>2, <2>5 DEF EditModule, Inv, TypeOK
<1>6. ASSUME NEW s \in Subs, RemoveModule(s) PROVE Inv'
  <2>1. modules' \in [Subs -> Module] /\ modules'[s].letter = None
        /\ \A t \in Subs \ {s} : modules'[t] = modules[t]
    BY <1>6, Operators, ModuleFields DEF RemoveModule, Absent, Inv, TypeOK
  <2>2. \A t \in Existing' : t \in Existing /\ modules'[t] = modules[t]
    BY <2>1 DEF Existing
  <2>3. UidIsLetter' /\ LettersUnique' /\ ClaimedOnceUnlessRevived'
    BY <1>6, <2>2 DEF RemoveModule, Inv, UidIsLetter, LettersUnique, ClaimedOnceUnlessRevived, Outputs
  <2> QED  BY <1>3, <1>6, <2>1, <2>3 DEF RemoveModule, Inv, TypeOK
<1>7. ASSUME NEW s \in Existing, NEW o \in [Numbers -> Config], Store(s, o), UNCHANGED <<dialog, revived>>,
             s \notin revived => ClaimedAtMostOnce(o)
      PROVE  Inv'
  BY <1>3, <1>7, StoreKeeps DEF Inv, TypeOK
<1>8. ASSUME NEW s \in Subs, NEW type \in {"light", "switch"}, NEW k \in Numbers, AddPlain(s, type, k)
      PROVE  Inv'
  <2>1. s \in Existing /\ k \notin Occupied(Outputs(s)) /\ type \in Types
    BY <1>8 DEF AddPlain, Types
  <2>2. s \notin revived => ClaimedAtMostOnce([Outputs(s) EXCEPT ![k] = Plain(type)])
    BY <1>1, <1>2, <2>1, PlainKeepsClaims
  <2>3. [Outputs(s) EXCEPT ![k] = Plain(type)] \in [Numbers -> Config]
    BY <1>1, <2>1, Operators
  <2> QED  BY <1>7, <1>8, <2>1, <2>2, <2>3 DEF AddPlain
<1>9. ASSUME NEW s \in Subs, NEW up \in Numbers, NEW down \in Numbers, AddShutter(s, up, down) PROVE Inv'
  <2>1. s \in Existing /\ up \notin Occupied(Outputs(s)) /\ down \in Pairable(Outputs(s), up)
    BY <1>9 DEF AddShutter, Pairable
  <2>2. s \notin revived => ClaimedAtMostOnce([Outputs(s) EXCEPT ![up] = Shutter(down)])
    BY <1>1, <1>2, <2>1, ShutterKeepsClaims
  <2>3. [Outputs(s) EXCEPT ![up] = Shutter(down)] \in [Numbers -> Config]
    BY <1>1, <2>1, Operators
  <2> QED  BY <1>7, <1>9, <2>1, <2>2, <2>3 DEF AddShutter
<1>10. ASSUME NEW s \in Subs, NEW k \in Numbers, RemoveOutput(s, k) PROVE Inv'
  <2>1. s \in Existing /\ k \in Configured(Outputs(s)) /\ "none" \in Types
    BY <1>10 DEF RemoveOutput, Types
  <2>2. s \notin revived => ClaimedAtMostOnce([Outputs(s) EXCEPT ![k] = NoConfig])
    BY <1>1, <1>2, <2>1, PlainKeepsClaims, Operators
  <2>3. [Outputs(s) EXCEPT ![k] = NoConfig] \in [Numbers -> Config]
    BY <1>1, <2>1, Operators
  <2> QED  BY <1>7, <1>10, <2>1, <2>2, <2>3 DEF RemoveOutput
<1>11. ASSUME NEW d \in Dialogs, UNCHANGED <<modules, revived>>, TypeOK', KeyPicked' PROVE Inv'
  BY <1>11 DEF Inv, UidIsLetter, LettersUnique, ClaimedOnceUnlessRevived, Existing, Outputs
<1>12. ASSUME NEW d \in Dialogs, NEW s \in Subs, NEW k \in Numbers, PickOutput(d, s, k) PROVE Inv'
  <2>1. TypeOK' /\ KeyPicked'
    <3>1. dialog'[d] \in DialogState /\ dialog'[d].key = k
      <4> DEFINE q == dialog[d]
      <4>1. q \in DialogState /\ k \in 0..OutputsPerModule
        BY DEF Inv, TypeOK
      <4>2. dialog'[d] = [[[q EXCEPT !.step = "type"] EXCEPT !.sub = s] EXCEPT !.key = k]
        BY <1>12 DEF PickOutput, Inv, TypeOK
      <4> HIDE DEF q
      <4>3. [[[q EXCEPT !.step = "type"] EXCEPT !.sub = s] EXCEPT !.key = k] \in DialogState
        BY <4>1 DEF DialogState, Steps
      <4>4. [[[q EXCEPT !.step = "type"] EXCEPT !.sub = s] EXCEPT !.key = k].key = k
        BY <4>1 DEF DialogState
      <4> QED  BY <4>2, <4>3, <4>4
    <3> QED  BY <1>12, <3>1 DEF PickOutput, Inv, TypeOK, KeyPicked
  <2> QED  BY <1>11, <1>12, <2>1 DEF PickOutput
<1>13. ASSUME NEW d \in Dialogs, NEW type \in {"light", "switch"}, ChoosePlain(d, type) PROVE Inv'
  <2>1. dialog[d].step \in {"type", "down"} /\ dialog[d].sub \in Existing /\ type \in Types
    BY <1>13 DEF ChoosePlain, In, Types
  <2>2. Plain(type) \in Config /\ dialog[d].key \in Numbers
    BY <2>1, Operators DEF Inv, KeyPicked
  <2> QED  BY <1>1, <1>13, <2>1, <2>2, PlainKeepsClaims, StoreEditKeeps DEF ChoosePlain
<1>14. ASSUME NEW d \in Dialogs, ChooseShutter(d) PROVE Inv'
  <2>1. TypeOK' /\ KeyPicked'
    <3>1. dialog'[d] \in DialogState /\ dialog'[d].key = dialog[d].key
      BY <1>14 DEF ChooseShutter, Inv, TypeOK, DialogState, Steps
    <3> QED  BY <1>14, <3>1 DEF ChooseShutter, In, Inv, TypeOK, KeyPicked
  <2> QED  BY <1>11, <1>14, <2>1 DEF ChooseShutter
<1>15. ASSUME NEW d \in Dialogs, NEW down \in Numbers, ChooseDown(d, down) PROVE Inv'
  <2>1. dialog[d].step \in {"type", "down"} /\ dialog[d].sub \in Existing
        /\ down \in Pairable(Outputs(dialog[d].sub), dialog[d].key)
    BY <1>15 DEF ChooseDown, In
  <2>2. Shutter(down) \in Config /\ dialog[d].key \in Numbers
    BY <2>1, Operators DEF Inv, KeyPicked
  <2> QED  BY <1>1, <1>15, <2>1, <2>2, ShutterKeepsClaims, StoreEditKeeps DEF ChooseDown
<1>16. ASSUME NEW d \in Dialogs, Abandon(d) PROVE Inv'
  <2>1. TypeOK' /\ KeyPicked'
    BY <1>16, CloseTyped DEF Abandon, Inv, TypeOK
  <2> QED  BY <1>11, <1>16, <2>1 DEF Abandon
<1>17. ASSUME NEW d \in Dialogs, BeginImport(d) PROVE Inv'
  <2>1. Taken \subseteq Letters
    BY DEF Taken, Existing, Inv, TypeOK, Module
  <2>2. TypeOK' /\ KeyPicked'
    <3>1. dialog'[d] \in DialogState /\ dialog'[d].step = "config"
      BY <1>17, <2>1 DEF BeginImport, Inv, TypeOK, DialogState, Steps
    <3> QED  BY <1>17, <3>1 DEF BeginImport, Inv, TypeOK, KeyPicked
  <2> QED  BY <1>11, <1>17, <2>2 DEF BeginImport
<1>18. ASSUME NEW d \in Dialogs, ConfigArrives(d) PROVE Inv'
  <2>0. PICK slots \in 1..MaxSlots : \E list \in [1..slots -> Letters \ dialog[d].known] :
           dialog' = [dialog EXCEPT ![d].step = "names", ![d].fetched = list]
    BY <1>18 DEF ConfigArrives
  <2>1. PICK list \in [1..slots -> Letters \ dialog[d].known] :
           dialog' = [dialog EXCEPT ![d].step = "names", ![d].fetched = list]
    BY <2>0
  <2>2. list \in Seq(Letters)
    BY <2>1, SlotsAssumption
  <2>3. TypeOK' /\ KeyPicked'
    <3>1. dialog'[d] \in DialogState /\ dialog'[d].step = "names"
      BY <2>1, <2>2 DEF Inv, TypeOK, DialogState, Steps
    <3> QED  BY <1>18, <2>1, <3>1 DEF ConfigArrives, Inv, TypeOK, KeyPicked
  <2> QED  BY <1>11, <1>18, <2>3 DEF ConfigArrives
<1>19. CASE UNCHANGED vars
  BY <1>19 DEF vars, Inv, TypeOK, KeyPicked, UidIsLetter, LettersUnique, ClaimedOnceUnlessRevived,
               Existing, Outputs
<1> QED  BY <1>4, <1>5, <1>6, <1>8, <1>9, <1>10, <1>12, <1>13, <1>14, <1>15, <1>16, <1>17, <1>18, <1>19,
            ImportKeeps DEF Next, Forms, Dialog

-----------------------------------------------------------------------------
LEMMA Invariance == Spec => []Inv
BY InitInv, NextInv, PTL DEF Spec

\* Every subentry and every dialog keeps its type (ModuleSubentryFlowHandler,
\* ModuleImportSubentryFlowHandler).
THEOREM TypeCorrect == Spec => []TypeOK
<1>1. Inv => TypeOK
  BY DEF Inv
<1> QED  BY <1>1, Invariance, PTL

\* Whatever dialogs are open side by side, a number is claimed twice only in a
\* module whose removed output was stored again by a change of type
\* (_occupied_outputs_in_module and the forms that use it).
THEOREM NumbersClaimedOnce == Spec => []ClaimedOnceUnlessRevived
<1>1. Inv => ClaimedOnceUnlessRevived
  BY DEF Inv
<1> QED  BY <1>1, Invariance, PTL

\* No letter is given to two modules, by forms or by overlapping imports.
THEOREM NoLetterTwice == Spec => []LettersUnique
<1>1. Inv => LettersUnique
  BY DEF Inv
<1> QED  BY <1>1, Invariance, PTL

-----------------------------------------------------------------------------
(* Moods next to modules.                                                  *)

\* Whatever the dialogs of moods do, an entry's modules change as ModuleConfig
\* says: an entry with moods is one of its behaviours.
THEOREM SubentriesImplementModules == SubentrySpec => Spec
<1>1. SubentryInit => Init
  BY DEF SubentryInit
<1>2. [SubentryNext]_subentryVars => [Next]_vars
  BY DEF SubentryNext, subentryVars, vars
<1> QED  BY <1>1, <1>2, PTL DEF SubentrySpec, Spec

\* So no number of a module is claimed twice and no letter is given twice in an
\* entry whose moods are edited and imported at the same time.
THEOREM SubentriesKeepModules == SubentrySpec => [](ClaimedOnceUnlessRevived /\ LettersUnique)
BY SubentriesImplementModules, NumbersClaimedOnce, NoLetterTwice, PTL

\* An import that stops leaves out moods only if one it would store is there.
LEMMA StoresAllButCollisions ==
    ASSUME NEW new, new \cap moods = {}
    PROVE  StoredMoods(new) = new
BY DEF StoredMoods

\* For any number of moods and dialogs: an import that no addition crosses
\* stores every mood it has a name of and did not know.
THEOREM ImportIsComplete == SubentrySpec => ImportStoresNewMoods
<1>1. ASSUME NEW d \in MoodDialogs, NEW named \in SUBSET MoodNumbers, MoodNamesArrive(d, named),
             \A n \in named \cap moods : n \in moodImport[d]
      PROVE  named \subseteq moods' \cup moodImport[d]
  <2>1. NewMoods(d, named) \cap moods = {}
    BY <1>1 DEF NewMoods
  <2>2. moods' = moods \cup NewMoods(d, named)
    BY <1>1, <2>1, StoresAllButCollisions DEF MoodNamesArrive
  <2> QED  BY <2>2 DEF NewMoods
<1>2. [SubentryNext]_subentryVars =>
         [\A d \in MoodDialogs, named \in SUBSET MoodNumbers :
             MoodNamesArrive(d, named) =>
                \/ named \subseteq moods' \cup moodImport[d]
                \/ \E n \in named \cap moods : n \notin moodImport[d]]_subentryVars
  BY <1>1
<1> QED  BY <1>2, PTL DEF SubentrySpec, ImportStoresNewMoods

=============================================================================
