------------------------- MODULE LightEntityProofs --------------------------
(***************************************************************************)
(* What holds of a dimmable light for every set of levels, of foreign      *)
(* frames and of writing tasks, and of the conversions it rests on.        *)
(*                                                                         *)
(* The level that was asked for and the echo that is expected are set and  *)
(* dropped together (Paired); a notification keeps them only if the cache  *)
(* agrees, so that the shown level names the cached one.  While nothing    *)
(* but one turn-on has concerned the light (Alone), every frame and update *)
(* under way carries the expected echo.                                    *)
(***************************************************************************)
EXTENDS LightEntity, ProtocolCheck, TLAPS, SequenceTheorems

Paired == IF brightness = None THEN expected = None ELSE expected = Echo(brightness)

\* Everything under way for this light is what its own last turn-on caused.
Alone ==
    own /\ ~early =>
        /\ brightness # None
        /\ \A w \in Writers : Pending(w) => CanTxToRx(write[w].tx) = expected
        /\ \A i \in 1..Len(frames) : frames[i] = expected
        /\ Quiet => states = expected

Inv == TypeOK /\ Paired /\ ShownMatchesCache /\ Alone

-----------------------------------------------------------------------------
(* The ranges of the conversions.                                          *)

\* A brightness is written as a level of the wide scale.
LEMMA HaToCanRange ==
    ASSUME NEW ha \in 1..MaxHa
    PROVE  HaToCan(ha) \in Byte /\ HaToCan(ha) > 0
  BY SMTT(30) DEF HaToCan, MaxHa, Rounded, MaxOf, Step, Byte

\* A written value is echoed as a byte.
LEMMA TxToRxRange ==
    ASSUME NEW tx \in Byte
    PROVE  CanTxToRx(tx) \in Byte
  BY SMTT(30) DEF CanTxToRx, Rounded, MaxTx, MaxRx, Byte

\* A cached byte is shown in range.
LEMMA CanToHaRange ==
    ASSUME NEW rx \in Byte
    PROVE  CanToHa(rx) \in 0..MaxHa
  BY SMTT(30) DEF CanToHa, MinOf, MaxRx, MaxHa, Byte

LEMMA EchoRange ==
    ASSUME NEW ha \in 1..MaxHa
    PROVE  Echo(ha) \in Byte
  BY HaToCanRange, TxToRxRange DEF Echo

-----------------------------------------------------------------------------

LEMMA InitInv == Init => Inv
  <1> SUFFICES ASSUME Init PROVE Inv
    OBVIOUS
  <1>1. states \in Byte
    BY EchoesAssumption DEF Init
  <1>2. shown \in [on : BOOLEAN, level : 0..MaxHa]
    <2>1. CanToHa(states) \in 0..MaxHa
      BY <1>1, CanToHaRange
    <2> QED
      BY <2>1 DEF Init
  <1>3. write \in [Writers -> WriteStates] /\ frames \in Seq(Byte)
    BY DEF Init, WriteStates
  <1>4. TypeOK
    BY <1>1, <1>2, <1>3 DEF Init, TypeOK
  <1>5. Paired /\ ShownMatchesCache /\ Alone
    BY DEF Init, Paired, ShownMatchesCache, Alone
  <1> QED
    BY <1>4, <1>5 DEF Inv

\* A notification shows the cache and keeps the level only if the cache agrees.
LEMMA UpdateInv ==
    ASSUME Inv, Update, UNCHANGED <<states, write, frames, own>>, timer' \in BOOLEAN
    PROVE  Inv'
  <1> USE DEF Inv
  <1>0. CanToHa(states) \in 0..MaxHa
    BY CanToHaRange DEF TypeOK
  <1>1. \/ brightness' = None /\ expected' = None
        \/ /\ brightness' = brightness /\ expected' = expected
           /\ expected = None \/ expected = states
    BY DEF Update, Forget, Expected, optimistic
  <1>2. shown' = [on |-> states > 0, level |-> ShownLevel(brightness', states)]
    BY DEF Update
  <1>3. Paired'
    BY <1>1 DEF Paired
  <1>4. TypeOK'
    <2>1. /\ brightness' \in (1..MaxHa) \cup {None}
          /\ expected' \in Byte \cup {None}
      BY <1>1 DEF TypeOK
    <2>2. ShownLevel(brightness', states) \in 0..MaxHa
      BY <1>0, <2>1 DEF ShownLevel, MaxHa
    <2>3. shown' \in [on : BOOLEAN, level : 0..MaxHa]
      BY <1>2, <2>2
    <2>4. early' \in BOOLEAN
      BY DEF Update, TypeOK
    <2> QED
      BY <2>1, <2>3, <2>4 DEF TypeOK
  <1>5. ShownMatchesCache'
    <2>1. CASE brightness' = None
      BY <2>1, <1>2 DEF ShownMatchesCache, ShownLevel
    <2>2. CASE brightness' # None
      <3>1. brightness' = brightness /\ expected = Echo(brightness)
        BY <2>2, <1>1 DEF Paired
      <3>2. expected = states
        BY <3>1, <2>2, <1>1, EchoRange, NoneUnused DEF TypeOK, Byte
      <3> QED
        BY <3>1, <3>2, <2>2, <1>2 DEF ShownMatchesCache, ShownLevel
    <2> QED
      BY <2>1, <2>2
  <1>6. Alone'
    <2> SUFFICES ASSUME own, ~early, Quiet PROVE Alone'
      BY DEF Alone, Update, Quiet, Pending
    <2>1. states = expected /\ brightness # None
      BY DEF Alone
    <2>2. brightness' = brightness /\ expected' = expected
      BY <2>1 DEF Update, Expected, optimistic
    <2> QED
      BY <2>1, <2>2 DEF Alone, Pending, Quiet
  <1> QED
    BY <1>3, <1>4, <1>5, <1>6

LEMMA NextInv == Inv /\ [Next]_vars => Inv'
  <1> SUFFICES ASSUME Inv, [Next]_vars PROVE Inv'
    OBVIOUS
  <1> USE DEF Inv
  <1>1. ASSUME NEW w \in Writers, TurnOn(w) PROVE Inv'
    <2>1. PICK ha \in 1..MaxHa :
             /\ brightness' = ha
             /\ expected' = Echo(ha)
             /\ write' = [write EXCEPT ![w] = [step |-> "queued", tx |-> HaToCan(ha)]]
      <3>1. Levels \cup {MaxHa} \subseteq 1..MaxHa
        BY LevelsAssumption DEF MaxHa
      <3> QED
        BY <1>1, <3>1 DEF TurnOn
    <2>2. HaToCan(ha) \in Byte /\ Echo(ha) \in Byte /\ ha # None
      BY HaToCanRange, EchoRange, NoneUnused DEF MaxHa
    <2>3. UNCHANGED <<states, timer, shown, frames>> /\ early' = FALSE
          /\ own' = (Quiet /\ frames = <<>>)
      BY <1>1 DEF TurnOn
    <2>4. TypeOK'
      BY <2>1, <2>2, <2>3 DEF TypeOK, WriteStates
    <2>5. Paired' /\ ShownMatchesCache'
      BY <2>1, <2>2, <2>3 DEF Paired, ShownMatchesCache
    <2>6. Alone'
      <3> SUFFICES ASSUME own' PROVE Alone'
        BY DEF Alone
      <3>1. frames' = <<>> /\ Quiet
        BY <2>3
      <3>2. write'[w] = [step |-> "queued", tx |-> HaToCan(ha)] /\ ~Quiet'
        BY <2>1 DEF TypeOK, Quiet, Pending, Idle
      <3>3. \A v \in Writers : Pending(v)' => v = w
        BY <2>1, <3>1 DEF Pending, Quiet, TypeOK
      <3> QED
        BY <2>1, <2>2, <3>1, <3>2, <3>3 DEF Alone, Echo
    <2> QED
      BY <2>4, <2>5, <2>6
  <1>2. ASSUME NEW w \in Writers, TurnOff(w) PROVE Inv'
    <2>1. [step |-> "queued", tx |-> 0] \in WriteStates
      BY DEF WriteStates, Byte
    <2>2. write' \in [Writers -> WriteStates]
      BY <1>2, <2>1 DEF TypeOK, TurnOff
    <2>3. TypeOK'
      BY <1>2, <2>2 DEF TypeOK, TurnOff, Forget
    <2> QED
      BY <1>2, <2>3 DEF TurnOff, Forget, Paired, ShownMatchesCache, Alone
  <1>3. ASSUME NEW w \in Writers, Sends(w) PROVE Inv'
    <2> DEFINE rx == CanTxToRx(write[w].tx)
    <2>1. /\ write[w] \in WriteStates /\ write[w] # Idle /\ write[w].tx \in Byte
          /\ write' = [write EXCEPT ![w].step = "sent"]
          /\ frames' = Append(frames, rx)
          /\ UNCHANGED <<states, brightness, expected, timer, shown, own, early>>
      BY <1>3 DEF Sends, TypeOK, Pending, WriteStates, Reported, optimistic
    <2>2. rx \in Byte
      BY <2>1, TxToRxRange
    <2>3. write'[w] = [step |-> "sent", tx |-> write[w].tx]
      BY <2>1 DEF TypeOK, WriteStates, Idle
    <2>4. TypeOK'
      BY <2>1, <2>2, <2>3 DEF TypeOK, WriteStates
    <2>5. \A v \in Writers : Pending(v)' => Pending(v) /\ write'[v].tx = write[v].tx
      BY <2>1, <2>3 DEF Pending, TypeOK, Idle
    <2>6. Alone'
      <3> SUFFICES ASSUME own, ~early PROVE Alone'
        BY <2>1 DEF Alone
      <3>1. rx = expected
        BY <1>3 DEF Alone, Sends
      <3>2. \A i \in 1..Len(frames') : frames'[i] = expected
        BY <2>1, <2>2, <3>1 DEF Alone, TypeOK
      <3>3. ~Quiet'
        BY <2>3 DEF Quiet, Pending, Idle
      <3> QED
        BY <2>1, <2>5, <3>2, <3>3 DEF Alone
    <2>7. Paired' /\ ShownMatchesCache'
      BY <2>1 DEF Paired, ShownMatchesCache
    <2> QED
      BY <2>4, <2>6, <2>7
  <1>4. ASSUME NEW w \in Writers, SendFails(w) PROVE Inv'
    <2>1. TypeOK'
      BY <1>4 DEF SendFails, TypeOK, Forget, optimistic, WriteStates
    <2>2. Paired'
      BY <1>4 DEF SendFails, Paired, Forget, optimistic
    <2> QED
      BY <1>4, <2>1, <2>2 DEF SendFails, ShownMatchesCache, Alone
  <1>5. ASSUME NEW w \in Writers, Cancelled(w) PROVE Inv'
    <2>1. write[w] \in WriteStates /\ write[w] # Idle
      BY <1>5 DEF Cancelled, Pending, TypeOK
    <2>2. CanTxToRx(write[w].tx) \in Byte
      BY <2>1, TxToRxRange DEF WriteStates
    <2>3. frames' \in Seq(Byte)
      BY <1>5, <2>2 DEF Cancelled, Reported, TypeOK
    <2>4. TypeOK'
      BY <1>5, <2>3 DEF Cancelled, TypeOK, WriteStates, optimistic
    <2> QED
      BY <1>5, <2>4 DEF Cancelled, Paired, ShownMatchesCache, Alone, optimistic
  <1>6. ASSUME NEW w \in Writers, Applies(w) PROVE Inv'
    <2>1. /\ write[w] \in WriteStates /\ write[w] # Idle /\ write[w].tx \in Byte
          /\ states' = CanTxToRx(write[w].tx) /\ timer' = TRUE
          /\ write' = [write EXCEPT ![w] = Idle]
          /\ UNCHANGED <<brightness, expected, shown, frames, own, early>>
      BY <1>6 DEF Applies, Apply, Pending, TypeOK, WriteStates, optimistic
    <2>2. TypeOK'
      BY <2>1, TxToRxRange DEF TypeOK, WriteStates
    <2>3. Paired' /\ ShownMatchesCache'
      BY <2>1 DEF Paired, ShownMatchesCache
    <2>4. Alone'
      <3> SUFFICES ASSUME own, ~early PROVE Alone'
        BY <2>1 DEF Alone
      <3>1. states' = expected
        BY <1>6, <2>1 DEF Alone, Pending
      <3>2. \A v \in Writers : Pending(v)' => Pending(v) /\ write'[v] = write[v]
        BY <2>1 DEF Pending, TypeOK
      <3> QED
        BY <2>1, <3>1, <3>2 DEF Alone
    <2> QED
      BY <2>2, <2>3, <2>4
  <1>7. CASE Flush
    BY <1>7, UpdateInv DEF Flush
  <1>8. CASE SetUpdatedData
    BY <1>8, UpdateInv DEF SetUpdatedData, TypeOK
  <1>9. CASE Ingest
    <2>1. /\ Head(frames) \in Byte /\ Head(frames) = frames[1]
          /\ Tail(frames) \in Seq(Byte) /\ Len(Tail(frames)) = Len(frames) - 1
          /\ \A i \in 1..Len(Tail(frames)) : Tail(frames)[i] = frames[i + 1]
          /\ Len(frames) \in Nat /\ 1 \in 1..Len(frames)
      BY <1>9, HeadTailProperties DEF Ingest, TypeOK
    <2>2. /\ states' = frames[1] /\ frames' = Tail(frames)
          /\ timer' = TRUE \/ (timer' = timer /\ states' = states)
          /\ UNCHANGED <<brightness, expected, shown, write, own, early>>
      BY <1>9, <2>1 DEF Ingest, Apply, optimistic
    <2>3. TypeOK'
      BY <2>1, <2>2 DEF TypeOK
    <2>4. Paired' /\ ShownMatchesCache'
      BY <2>2 DEF Paired, ShownMatchesCache
    <2>5. Alone'
      <3> SUFFICES ASSUME own, ~early PROVE Alone'
        BY <2>2 DEF Alone
      <3>1. \A i \in 1..Len(frames) : frames[i] = expected
        BY DEF Alone
      <3>2. \A i \in 1..Len(frames') : frames'[i] = expected
        BY <2>1, <2>2, <3>1
      <3>3. states' = expected
        BY <2>1, <2>2, <3>1
      <3> QED
        BY <2>2, <3>2, <3>3 DEF Alone, Pending
    <2> QED
      BY <2>3, <2>4, <2>5
  <1>10. CASE WallSwitch
    <2>1. frames' \in Seq(Byte)
      BY <1>10, EchoesAssumption DEF WallSwitch, Reported, TypeOK
    <2>2. TypeOK'
      BY <1>10, <2>1 DEF WallSwitch, TypeOK, optimistic
    <2> QED
      BY <1>10, <2>2 DEF WallSwitch, Paired, ShownMatchesCache, Alone, optimistic
  <1>11. CASE OtherUpdate
    BY <1>11 DEF OtherUpdate, TypeOK, Paired, ShownMatchesCache, Alone, Pending, Quiet, optimistic
  <1>12. CASE UNCHANGED vars
    BY <1>12 DEF vars, TypeOK, Paired, ShownMatchesCache, Alone, Pending, Quiet
  <1> QED
    BY <1>1, <1>2, <1>3, <1>4, <1>5, <1>6, <1>7, <1>8, <1>9, <1>10, <1>11, <1>12 DEF Next

-----------------------------------------------------------------------------

LEMMA InvHolds == Spec => []Inv
  BY InitInv, NextInv, PTL DEF Spec

\* Once the notifications are out, a dimmable light shows its cached state, on
\* and off and the level, however its writes and frames overlapped.
THEOREM LightShowsCache == Spec => []ShownMatchesCache
  <1>1. Inv => ShownMatchesCache
    BY DEF Inv
  <1> QED
    BY <1>1, InvHolds, PTL

\* The echo of a turn-on, its local update and their notifications never take
\* away the level that was asked for, unless one comes while it is pending.
THEOREM LevelSurvivesEcho == Spec => []OwnEchoKeepsLevel
  <1>1. Inv => OwnEchoKeepsLevel
    BY DEF Inv, Alone, OwnEchoKeepsLevel
  <1> QED
    BY <1>1, InvHolds, PTL

\* Values keep their ranges and types.
THEOREM TypeCorrect == Spec => []TypeOK
  <1>1. Inv => TypeOK
    BY DEF Inv
  <1> QED
    BY <1>1, InvHolds, PTL

-----------------------------------------------------------------------------
(* The conversions.  All three scales divide into steps: a write of step s  *)
(* is 16 s, its echo 10 s, which is shown as the whole part of 28 1/3 s.   *)

\* A quotient without remainder is itself; one off a tie is the nearest integer.
LEMMA RoundedNearest ==
    ASSUME NEW n \in Nat, NEW q \in Nat, 2 * n > MaxHa * (2 * q - 1), 2 * n < MaxHa * (2 * q + 1)
    PROVE  Rounded(n, MaxHa) = q
  BY SMTT(30) DEF Rounded, MaxHa

\* Every level is written as one of nine steps.
LEMMA StepOfLevel ==
    ASSUME NEW ha \in 1..MaxHa
    PROVE  \E s \in 1..9 : /\ HaToCan(ha) = s * Step
                           /\ s = 1 \/ 2 * 9 * ha > MaxHa * (2 * s - 1)
                           /\ 2 * 9 * ha < MaxHa * (2 * s + 1)
  <1> DEFINE q == Rounded(ha * 9, MaxHa)
  <1>1. /\ q \in 0..9
        /\ 2 * 9 * ha > MaxHa * (2 * q - 1) /\ 2 * 9 * ha < MaxHa * (2 * q + 1)
    BY SMTT(30) DEF Rounded, MaxHa
  <1>2. HaToCan(ha) = MaxOf(1, q) * Step /\ MaxOf(1, q) \in 1..9
    BY <1>1 DEF HaToCan, MaxOf, MaxHa
  <1>3. q = 0 => MaxOf(1, q) = 1
    BY DEF MaxOf
  <1>4. q # 0 => MaxOf(1, q) = q
    BY <1>1 DEF MaxOf
  <1> HIDE DEF q
  <1> QED
    BY <1>1, <1>2, <1>3, <1>4 DEF MaxHa

\* A written step is echoed as that step, and shown as a level that is written
\* as that step again.
LEMMA StepIsEchoed ==
    ASSUME NEW s \in 1..9
    PROVE  /\ CanTxToRx(s * Step) = s * 10
           /\ CanToHa(s * 10) \in 1..MaxHa
           /\ HaToCan(CanToHa(s * 10)) = s * Step
  <1>1. CanTxToRx(s * Step) = s * 10
    BY SMTT(30) DEF CanTxToRx, Rounded, Step, MaxRx, MaxTx
  <1> DEFINE ha == (s * 10 * MaxHa) \div MaxRx
  <1>2. ha \in 1..MaxHa /\ 3 * ha <= 85 * s /\ 3 * ha >= 85 * s - 2
    BY SMTT(30) DEF MaxHa, MaxRx
  <1>3. CanToHa(s * 10) = ha
    BY <1>2 DEF CanToHa, MinOf, MaxHa
  <1> HIDE DEF ha
  <1>4. Rounded(ha * 9, MaxHa) = s
    BY <1>2, RoundedNearest DEF MaxHa
  <1>5. HaToCan(ha) = s * Step
    BY <1>2, <1>4 DEF HaToCan, MaxOf, MaxHa
  <1> QED
    BY <1>1, <1>2, <1>3, <1>5

\* The walk goes over integers.
LEMMA WalkTypes == WalkSpec => [](input \in Int)
  <1>1. WalkInit => input \in Int
    BY DEF WalkInit
  <1>2. input \in Int /\ [Walk]_input => (input \in Int)'
    BY DEF Walk
  <1> QED
    BY <1>1, <1>2, PTL DEF WalkSpec

\* The level that the echo of a write is shown as is written the same again, and
\* no byte is shown out of range (protocol.py, the conversions of brightness).
THEOREM LevelsSettle == WalkSpec => []LevelSettles
  <1>1. ASSUME input \in 1..MaxHa
        PROVE  /\ HaToCan(input) \in {s * Step : s \in 1..9}
               /\ CanTxToRx(HaToCan(input)) \in {s * 10 : s \in 1..9}
               /\ CanToHa(Echo(input)) \in 1..MaxHa
               /\ HaToCan(CanToHa(Echo(input))) = HaToCan(input)
    <2>1. PICK s \in 1..9 : HaToCan(input) = s * Step
      BY <1>1, StepOfLevel
    <2> QED
      BY <2>1, StepIsEchoed DEF Echo
  <1>2. LevelSettles
    BY <1>1, CanToHaRange DEF LevelSettles
  <1> QED
    BY <1>2, PTL

\* Two decimal digits survive BCD, in one byte.
LEMMA BcdReadsBack ==
    ASSUME NEW n \in 0..99
    PROVE  ToBcd(n) \in Byte /\ FromBcd(ToBcd(n)) = n
  BY SMTT(30) DEF ToBcd, FromBcd, Byte

\* The echo of a write lands on the output it was sent to (build_state_frame,
\* parse_state_frame, _ingest_message).
THEOREM OutputsAreEchoed == WalkSpec => []OutputsRoundTrip
  <1>1. ASSUME input \in 1..OutputsPerModule
        PROVE  /\ OutputByte(input) \in Byte
               /\ OutputOf(OutputByte(input)) = input
               /\ Accepted(OutputByte(input))
    <2>1. input - 1 \in 0..99 /\ (input - 1) + 1 = input
      BY <1>1 DEF OutputsPerModule
    <2>2. ToBcd(input - 1) \in Byte /\ FromBcd(ToBcd(input - 1)) = input - 1
      BY <2>1, BcdReadsBack
    <2> QED
      BY <1>1, <2>1, <2>2 DEF OutputByte, OutputOf, Accepted
  <1>2. OutputsRoundTrip
    BY <1>1 DEF OutputsRoundTrip
  <1> QED
    BY <1>2, PTL

\* The clock command names the weekdays apart, Sunday first, and the year reads
\* back, whatever the year (build_clock_set_packets).
THEOREM ClockIsReadBack == WalkSpec => []ClockReadsBack
  <1>1. ASSUME input \in Int PROVE ClockReadsBack
    <2>1. input % 100 \in 0..99
      BY <1>1
    <2>2. FromBcd(YearByte(input)) = input % 100
      BY <2>1, BcdReadsBack DEF YearByte
    <2>3. ASSUME NEW d \in 1..7
          PROVE  /\ Max200Weekday(d) = IF d = 7 THEN 1 ELSE d + 1
                 /\ Max200Weekday(d) \in 1..7
      BY SMTT(30) DEF Max200Weekday
    <2>4. ASSUME input \in 1..7
          PROVE  /\ Max200Weekday(input) \in 1..7
                 /\ Max200Weekday(input) = 1 <=> input = 7
                 /\ \A other \in 1..7 : Max200Weekday(other) = Max200Weekday(input) => other = input
      BY <2>3, <2>4
    <2> QED
      BY <2>2, <2>4 DEF ClockReadsBack
  <1> QED
    BY <1>1, WalkTypes, PTL

\* The record of an output is the slot of its number among all outputs.
LEMMA OutputSlot ==
    ASSUME NEW i \in Nat
    PROVE  OutputNameAddr(i \div OutputsPerModule, i % OutputsPerModule) = 32768 + RecordSize * i
  BY SMTT(30) DEF OutputNameAddr, OutputsPerModule, RecordSize

\* Records of outputs begin at 32768 and are as far apart as they are long, and
\* so are those of moods from 49152.
LEMMA RecordSlot ==
    ASSUME NEW i \in Records
    PROVE  /\ i \in 0..315
           /\ RecordAddr(i) = IF i < 216 THEN 32768 + 32 * i ELSE 49152 + 32 * (i - 216)
  <1>1. i \in 0..315 /\ ModulesPerController * OutputsPerModule = 216
    BY DEF Records, ModulesPerController, OutputsPerModule, MoodsPerController
  <1>2. OutputNameAddr(i \div OutputsPerModule, i % OutputsPerModule) = 32768 + 32 * i
    BY <1>1, OutputSlot DEF RecordSize
  <1>3. MoodNameAddr(i - 216) = 49152 + 32 * (i - 216)
    BY <1>1 DEF MoodNameAddr, RecordSize
  <1> QED
    BY <1>1, <1>2, <1>3 DEF RecordAddr

\* The names of outputs and moods are read from records that do not overlap, at
\* addresses of two bytes (output_name_eeprom_addr, mood_name_eeprom_addr).
THEOREM NamesAreApart == WalkSpec => []RecordsDisjoint
  <1> DEFINE Slot(i) == IF i < 216 THEN 32768 + 32 * i ELSE 49152 + 32 * (i - 216)
  <1>1. ASSUME input \in Records
        PROVE  /\ HighByte(RecordAddr(input)) \in Byte /\ LowByte(RecordAddr(input)) \in Byte
               /\ RecordAddr(input) + RecordSize <= 65536
    <2>1. input \in 0..315 /\ RecordAddr(input) = Slot(input)
      BY <1>1, RecordSlot
    <2>2. \A i \in 0..315 : Slot(i) \in Nat /\ Slot(i) <= 65504
      BY SMTT(30)
    <2>3. PICK addr \in Nat : addr = RecordAddr(input) /\ addr <= 65504
      BY <2>1, <2>2
    <2>4. addr \div 256 \in 0..255 /\ addr % 256 \in 0..255 /\ addr + 32 <= 65536
      BY <2>3, SMTT(30)
    <2> QED
      BY <2>3, <2>4 DEF HighByte, LowByte, Byte, RecordSize
  <1>2. ASSUME input \in Records, NEW other \in Records \ {input}
        PROVE  \/ RecordAddr(other) + RecordSize <= RecordAddr(input)
               \/ RecordAddr(input) + RecordSize <= RecordAddr(other)
    <2>1. input \in 0..315 /\ RecordAddr(input) = Slot(input)
      BY <1>2, RecordSlot
    <2>2. other \in 0..315 /\ RecordAddr(other) = Slot(other) /\ other # input
      BY RecordSlot
    <2>3. \A i, k \in 0..315 : i # k => Slot(k) + 32 <= Slot(i) \/ Slot(i) + 32 <= Slot(k)
      BY SMTT(30)
    <2>4. Slot(other) + 32 <= Slot(input) \/ Slot(input) + 32 <= Slot(other)
      BY <2>1, <2>2, <2>3
    <2> HIDE DEF Slot
    <2> QED
      BY <2>1, <2>2, <2>4 DEF RecordSize
  <1>3. RecordsDisjoint
    BY <1>1, <1>2 DEF RecordsDisjoint
  <1> QED
    BY <1>3, PTL

=============================================================================
