------------------------------ MODULE Protocol ------------------------------
(***************************************************************************)
(* The conversions of protocol.py: output numbers to and from BCD, levels  *)
(* of dimmers between the scales of Home Assistant (0-255), of a write     *)
(* (0-144) and of a state frame (0-90), the bytes of a clock command and   *)
(* the EEPROM addresses of the Max200's names.                             *)
(***************************************************************************)
EXTENDS Integers

Byte == 0..255

\* Python's round(n / d): to the nearest, ties to the even neighbour.
Rounded(n, d) ==
    LET q == n \div d
        up == \/ 2 * (n % d) > d
              \/ 2 * (n % d) = d /\ q % 2 = 1
    IN IF up THEN q + 1 ELSE q

MaxOf(a, b) == IF a > b THEN a ELSE b
MinOf(a, b) == IF a < b THEN a ELSE b

-----------------------------------------------------------------------------
(* Output numbers on the wire.                                             *)

ToBcd(value) == (value \div 10) * 16 + (value % 10)

FromBcd(byte) == (byte \div 16) * 10 + (byte % 16)

OutputsPerModule == 12
OutputByte(output) == ToBcd(output - 1)
\* Mutant of OutputOf: the byte as it is.
OutputOfPlain(byte) == byte + 1
OutputOf(byte) == FromBcd(byte) + 1

\* _ingest_message drops a frame for any other output.
Accepted(byte) == OutputOf(byte) \in 1..OutputsPerModule

-----------------------------------------------------------------------------
(* Dimmer levels.                                                          *)

MaxTx == 144
MaxRx == 90
Step == 16
MaxHa == 255

HaToCan(ha) == IF ha <= 0 THEN 0 ELSE MaxOf(1, Rounded(ha * 9, MaxHa)) * Step

CanTxToRx(tx) == IF tx <= 0 THEN 0 ELSE Rounded(tx * MaxRx, MaxTx)

\* Mutant of CanToHa: a value above the echo range is not clipped.
CanToHaUnclipped(rx) == (rx * MaxHa) \div MaxRx
CanToHa(rx) == MinOf((rx * MaxHa) \div MaxRx, MaxHa)

\* What the state frame says after a write of a Home Assistant level.
Echo(ha) == CanTxToRx(HaToCan(ha))

-----------------------------------------------------------------------------
(* The clock command and the EEPROM.                                       *)

\* Mutant of Max200Weekday: Monday is the first day.
IsoWeekday(weekday) == weekday
Max200Weekday(weekday) == (weekday % 7) + 1

\* The two last digits of the year.
YearByte(year) == ToBcd(year % 100)

ModulesPerController == 18
MoodsPerController == 100
RecordSize == 32

\* Mutant of OutputNameAddr: modules are as far apart as eleven outputs.
OutputNameAddrTight(module, output) == 32768 + module * 352 + output * RecordSize
OutputNameAddr(module, output) == 32768 + module * 384 + output * RecordSize
MoodNameAddr(mood) == 49152 + mood * RecordSize

HighByte(addr) == addr \div 256
LowByte(addr) == addr % 256

=============================================================================
