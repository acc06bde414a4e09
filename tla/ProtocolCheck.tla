--------------------------- MODULE ProtocolCheck ----------------------------
(***************************************************************************)
(* A walk over every byte, level, output, day and EEPROM record that       *)
(* protocol.py converts, and what the conversions promise for each.        *)
(***************************************************************************)
EXTENDS Protocol

CONSTANT Last       \* the last value of the walk

ASSUME LastAssumption == Last \in Nat /\ Last >= 315

VARIABLE input

WalkInit == input = -1     \* nothing yet
Walk == input' = IF input < Last THEN input + 1 ELSE 0

WalkSpec == WalkInit /\ [][Walk]_input

\* A write of a level is echoed as one of nine levels, and the level that the
\* echo is shown as is written the same again: what the slider falls back to
\* names the step the dimmer is at.  A light that is turned on is never shown
\* off, no byte of a frame or of the wider scale of writes is shown out of range
\* (ha_to_can_brightness, can_tx_to_rx, can_to_ha_brightness).
LevelSettles ==
    /\ input \in 1..MaxHa =>
          /\ HaToCan(input) \in {s * Step : s \in 1..9}
          /\ CanTxToRx(HaToCan(input)) \in {s * 10 : s \in 1..9}
          /\ CanToHa(Echo(input)) \in 1..MaxHa
          /\ HaToCan(CanToHa(Echo(input))) = HaToCan(input)
    /\ input \in Byte => CanToHa(input) \in 0..MaxHa

\* The echo of a write lands on the output it was sent to, its byte fits the
\* frame (build_state_frame, parse_state_frame, _ingest_message).
OutputsRoundTrip ==
    input \in 1..OutputsPerModule =>
        /\ OutputByte(input) \in Byte
        /\ OutputOf(OutputByte(input)) = input
        /\ Accepted(OutputByte(input))

\* The clock command names every weekday differently, Sunday first, and digits
\* of the year that read back (build_clock_set_packets).
ClockReadsBack ==
    /\ input \in 1..7 =>
          /\ Max200Weekday(input) \in 1..7
          /\ Max200Weekday(input) = 1 <=> input = 7
          /\ \A other \in 1..7 : Max200Weekday(other) = Max200Weekday(input) => other = input
    /\ FromBcd(YearByte(input)) = input % 100

\* The record an input stands for: those of the names of outputs, then of moods.
RecordAddr(i) ==
    IF i < ModulesPerController * OutputsPerModule
    THEN OutputNameAddr(i \div OutputsPerModule, i % OutputsPerModule)
    ELSE MoodNameAddr(i - ModulesPerController * OutputsPerModule)
Records == 0..(ModulesPerController * OutputsPerModule + MoodsPerController - 1)

\* The names of outputs and moods are read from records that do not overlap,
\* at addresses of two bytes (output_name_eeprom_addr, mood_name_eeprom_addr).
RecordsDisjoint ==
    input \in Records =>
        /\ HighByte(RecordAddr(input)) \in Byte /\ LowByte(RecordAddr(input)) \in Byte
        /\ RecordAddr(input) + RecordSize <= 65536
        /\ \A other \in Records \ {input} :
              \/ RecordAddr(other) + RecordSize <= RecordAddr(input)
              \/ RecordAddr(input) + RecordSize <= RecordAddr(other)

=============================================================================
