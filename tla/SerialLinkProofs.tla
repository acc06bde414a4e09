-------------------------- MODULE SerialLinkProofs --------------------------
(***************************************************************************)
(* Proofs about SerialLink for any threads, records and retries: that an   *)
(* undisturbed download files no name under another output and that an     *)
(* undisturbed clock command that returns has set the clock.               *)
(***************************************************************************)
EXTENDS SerialLink, SequenceTheorems, TLAPS

-----------------------------------------------------------------------------
(* The inductive invariant: where a thread is says what is on the line.    *)

\* A thread that has the device.
Active(t) == ~In(t, {"idle", "failed"})
Exclusive == \A t, u \in Threads : Active(t) /\ Active(u) => t = u

Quiet == line = <<>> /\ buffer = <<>>
Locked(t) == max200 = LockedBy(CommandOf[t])

\* A thread that begins an attempt finds one part at most: of an opened port, or
\* of an attempt that was unplugged.
OnePart ==
    \/ line = <<>> /\ Len(buffer) <= 1
    \/ buffer = <<>> /\ Len(line) <= 1

\* The only part that may come is the echo of a Max200 that has locked itself.
Echoed(t) ==
    \/ Quiet
    \/ /\ Locked(t)
       /\ \/ line = <<Echo(CommandOf[t])>> /\ buffer = <<>>
          \/ line = <<>> /\ buffer = <<Echo(CommandOf[t])>>

\* What has come and what may come are parts of record r, in their order.
PartsOf(r) ==
    LET p == <<"record", r, 1>>
        q == <<"record", r, 2>> IN
    \/ line = <<>> /\ buffer \in {<<>>, <<p>>, <<q>>, <<p, q>>}
    \/ line = <<p>> /\ buffer = <<>>
    \/ line = <<q>> /\ buffer \in {<<>>, <<p>>}
    \/ line = <<p, q>> /\ buffer = <<>>

Expected(t) ==
    /\ In(t, {"ready"}) => OnePart
    /\ In(t, {"echo"}) => Echoed(t)
    /\ In(t, {"pay"}) =>
          max200 = [command |-> "clock", got |-> thread[t].record - 1, skew |-> FALSE]
    /\ In(t, {"address"}) => Quiet
    /\ In(t, {"address", "read"}) => Locked(t)
    /\ In(t, {"read"}) => PartsOf(thread[t].record)
    /\ In(t, {"ok"}) /\ CommandOf[t] = "clock" => clock = t

AtRecord(t) ==
    /\ In(t, {"pay"}) => CommandOf[t] = "clock" /\ thread[t].record \in 1..RecordParts
    /\ In(t, {"address", "read"}) => CommandOf[t] = "names" /\ thread[t].record \in 1..Records

NamesRead == [1..Records -> (1..Records) \cup {None, Mixed}]
Belonging(ns) == \A r \in 1..Records : ns[r] \in {None, r}

IInv ==
    /\ TypeOK
    /\ \A t \in Threads : AtRecord(t) /\ (In(t, {"idle"}) => names[t] = NoNames)
    /\ ~disturbed => /\ Exclusive
                     /\ \A t \in Threads : Expected(t) /\ Belonging(names[t])

-----------------------------------------------------------------------------
(* What the line and the records are.                                      *)

LEMMA ShortSequences ==
    ASSUME NEW a \in Parts, NEW b \in Parts
    PROVE  /\ Head(<<a>>) = a /\ Tail(<<a>>) = <<>>
           /\ Head(<<a, b>>) = a /\ Tail(<<a, b>>) = <<b>>
           /\ Append(<<>>, a) = <<a>> /\ Append(<<a>>, b) = <<a, b>>
           /\ SubSeq(<<a, b>>, 1, 1) = <<a>>
<1>1. <<a>> \in Seq(Parts) /\ <<a, b>> \in Seq(Parts) /\ <<>> \in Seq(Parts)
  OBVIOUS
<1>2. Head(<<a>>) = a /\ Head(<<a, b>>) = a
  OBVIOUS
<1>3. Tail(<<a>>) = <<>>
  <2>1. Tail(<<a>>) \in Seq(Parts) /\ Len(Tail(<<a>>)) = 0
    BY <1>1, HeadTailProperties
  <2> QED  BY <2>1, EmptySeq
<1>4. Tail(<<a, b>>) = <<b>>
  <2>1. /\ Tail(<<a, b>>) \in Seq(Parts) /\ Len(Tail(<<a, b>>)) = 1
        /\ Tail(<<a, b>>)[1] = b
    BY <1>1, HeadTailProperties
  <2>2. /\ Len(<<b>>) = 1 /\ <<b>> \in Seq(Parts)
        /\ \A i \in 1..Len(Tail(<<a, b>>)) : Tail(<<a, b>>)[i] = <<b>>[i]
    BY <2>1
  <2> QED  BY <2>1, <2>2, SeqEqual
<1>5. Append(<<a>>, b) = <<a, b>>
  <2>1. Len(<<a>>) = 1 /\ <<a>>[1] = a
    OBVIOUS
  <2>2. /\ Append(<<a>>, b) \in Seq(Parts) /\ Len(Append(<<a>>, b)) = 2
        /\ Append(<<a>>, b)[1] = a /\ Append(<<a>>, b)[2] = b
    BY <1>1, <2>1, AppendProperties
  <2>3. Len(<<a, b>>) = 2 /\ \A i \in 1..2 : i = 1 \/ i = 2
    OBVIOUS
  <2>4. \A i \in 1..2 : Append(<<a>>, b)[i] = <<a, b>>[i]
    BY <2>2, <2>3
  <2> QED  BY <1>1, <2>2, <2>3, <2>4, SeqEqual
<1>6. Append(<<>>, a) = <<a>>
  OBVIOUS
<1>7. SubSeq(<<a, b>>, 1, 1) = <<a>>
  <2>1. /\ SubSeq(<<a, b>>, 1, 1) \in Seq(Parts) /\ Len(SubSeq(<<a, b>>, 1, 1)) = 1
        /\ SubSeq(<<a, b>>, 1, 1)[1] = a
    BY <1>1
  <2>2. /\ Len(<<a>>) = 1
        /\ \A i \in 1..Len(SubSeq(<<a, b>>, 1, 1)) : SubSeq(<<a, b>>, 1, 1)[i] = <<a>>[i]
    BY <2>1
  <2> QED  BY <1>1, <2>1, <2>2, SeqEqual
<1> QED  BY <1>2, <1>3, <1>4, <1>5, <1>6, <1>7

\* What is sent when nothing is on its way: as much as the bound has room for.
LEMMA SentOne ==
    ASSUME TypeOK, line = <<>>, NEW a \in Parts
    PROVE  Sent(<<a>>) \in {<<>>, <<a>>}
<1>1. <<a>> \in Seq(Parts) /\ Len(<<a>>) = 1
  OBVIOUS
<1>2. line \o <<a>> = <<a>>
  BY <1>1, ConcatEmptySeq
<1>3. SubSeq(<<a>>, 1, 1) = <<a>>
  BY <1>1, SubSeqFull
<1>4. SubSeq(<<a>>, 1, 0) = <<>>
  BY SubSeqEmpty
<1>5. MaxLine < 1 => MaxLine = 0
  BY LineAssumption
<1> QED  BY <1>1, <1>2, <1>3, <1>4, <1>5, LineAssumption DEF Sent

LEMMA SentTwo ==
    ASSUME TypeOK, line = <<>>, NEW a \in Parts, NEW b \in Parts
    PROVE  Sent(<<a, b>>) \in {<<>>, <<a>>, <<a, b>>}
<1>1. <<a, b>> \in Seq(Parts) /\ Len(<<a, b>>) = 2
  OBVIOUS
<1>2. line \o <<a, b>> = <<a, b>>
  BY <1>1, ConcatEmptySeq
<1>3. SubSeq(<<a, b>>, 1, 2) = <<a, b>>
  BY <1>1, SubSeqFull
<1>4. SubSeq(<<a, b>>, 1, 1) = <<a>>
  BY ShortSequences
<1>5. SubSeq(<<a, b>>, 1, 0) = <<>>
  BY SubSeqEmpty
<1>6. MaxLine < 2 => MaxLine \in {0, 1}
  BY LineAssumption
<1> QED  BY <1>1, <1>2, <1>3, <1>4, <1>5, <1>6, LineAssumption DEF Sent

\* Whatever is sent, the line keeps its bound.
LEMMA SentIsBounded ==
    ASSUME TypeOK, NEW parts \in Seq(Parts)
    PROVE  Sent(parts) \in Seq(Parts) /\ Len(Sent(parts)) <= MaxLine
<1> DEFINE all == line \o parts
<1>1. all \in Seq(Parts)
  BY DEF TypeOK
<1> HIDE DEF all
<1>2. \A n \in 0..Len(all) : SubSeq(all, 1, n) \in Seq(Parts) /\ Len(SubSeq(all, 1, n)) = n
  BY <1>1
<1> QED  BY <1>1, <1>2, LineAssumption DEF Sent, all

LEMMA PartValues ==
    /\ Ready \in Parts /\ <<Ready>> \in Seq(Parts)
    /\ \A c \in Commands : Echo(c) \in Parts /\ <<Echo(c)>> \in Seq(Parts)
    /\ \A r \in 1..Records : /\ <<"record", r, 1>> \in Parts /\ <<"record", r, 2>> \in Parts
                             /\ Record(r) \in Seq(Parts)
<1>1. \A r \in 1..Records : <<"record", r, 1>> \in Parts /\ <<"record", r, 2>> \in Parts
  BY DEF Parts, RecordParts
<1>2. Ready \in Parts /\ \A c \in Commands : Echo(c) \in Parts
  BY DEF Parts
<1>3. \A a, b \in Parts : <<a, b>> \in Seq(Parts)
  OBVIOUS
<1>4. \A r \in 1..Records : Record(r) \in Seq(Parts)
  BY <1>1, <1>3, Zenon DEF Record
<1> QED  BY <1>1, <1>2, <1>4

LEMMA LockedStates == \A c \in Commands \cup {None} : LockedBy(c) \in Max200States
BY DEF LockedBy, Max200States, RecordParts

\* A record that arrives whole is read as the name it is.
LEMMA RecordIsItsName ==
    ASSUME NEW r \in 1..Records
    PROVE  NameIn(Record(r)) = r
<1>1. \A s \in 1..Records : Record(r) = Record(s) => s = r
  BY DEF Record
<1>2. Len(Record(r)) = RecordParts
  BY DEF Record, RecordParts
<1> QED  BY <1>1, <1>2 DEF NameIn, RecordParts

-----------------------------------------------------------------------------
(* Steps of a thread that has the device.                                  *)

LEMMA ActiveStep ==
    ASSUME IInv, NEW t \in Threads, Active(t),
           NEW w \in ThreadStates, thread' = [thread EXCEPT ![t] = w], w.step # "idle",
           NEW n \in NamesRead, names' = [names EXCEPT ![t] = n],
           max200' \in Max200States, clock' \in Threads \cup {None}, disturbed' \in BOOLEAN,
           line' \in Seq(Parts), Len(line') <= MaxLine,
           buffer' \in Seq(Parts), Len(buffer') <= MaxLine,
           AtRecord(t)',
           ~disturbed' => ~disturbed /\ Expected(t)' /\ Belonging(n)
    PROVE  IInv'
<1>1. TypeOK'
  BY DEF IInv, TypeOK, NamesRead
<1>2. /\ thread'[t] = w /\ names'[t] = n
      /\ \A u \in Threads \ {t} : thread'[u] = thread[u] /\ names'[u] = names[u]
  BY DEF IInv, TypeOK
<1>3. ASSUME NEW u \in Threads PROVE AtRecord(u)' /\ (In(u, {"idle"})' => names'[u] = NoNames)
  BY <1>2 DEF IInv, AtRecord, In
<1>4. ASSUME ~disturbed'
      PROVE  /\ Exclusive'
             /\ \A u \in Threads : Expected(u)' /\ Belonging(names'[u])
  <2>1. \A u \in Threads \ {t} : ~Active(u)
    BY <1>4 DEF IInv, Exclusive
  <2>2. \A u \in Threads \ {t} : thread'[u].step \in {"idle", "failed"}
    BY <1>2, <2>1 DEF Active, In
  <2>3. \A u \in Threads \ {t} : Expected(u)'
    BY <2>2 DEF Expected, In
  <2>4. Exclusive'
    BY <2>2 DEF Exclusive, Active, In
  <2> QED  BY <1>2, <1>4, <2>3, <2>4 DEF IInv, Belonging
<1> QED  BY <1>1, <1>3, <1>4 DEF IInv

LEMMA RetryKeeps ==
    ASSUME IInv, NEW t \in Threads, In(t, {"ready", "echo"}), Retry(t),
           UNCHANGED <<names, max200, clock, line>>, disturbed' \in BOOLEAN,
           ~disturbed' => ~disturbed
    PROVE  IInv'
<1>1. /\ thread \in [Threads -> ThreadStates] /\ names \in [Threads -> NamesRead]
      /\ thread[t].attempt \in 0..Attempts /\ Active(t)
  BY DEF IInv, TypeOK, NamesRead, ThreadStates, Active, In
<1>2. names' = [names EXCEPT ![t] = names[t]] /\ names[t] \in NamesRead
  BY <1>1
<1>3. ASSUME ~disturbed' PROVE ~disturbed /\ Belonging(names[t]) /\ Len(line) <= 1
  <2>1. ~disturbed /\ Expected(t) /\ Belonging(names[t])
    BY <1>3 DEF IInv
  <2>2. Len(<<>>) = 0 /\ Len(<<Echo(CommandOf[t])>>) = 1
    OBVIOUS
  <2>3. OnePart \/ Echoed(t)
    BY <2>1 DEF Expected, In
  <2> QED  BY <2>1, <2>2, <2>3 DEF OnePart, Echoed, Quiet
<1>4. CASE thread[t].attempt < Attempts
  <2> DEFINE w == [thread[t] EXCEPT !.step = "ready", !.attempt = @ + 1]
  <2>1. thread[t].attempt + 1 \in 0..Attempts /\ thread[t] \in ThreadStates
    BY <1>1, <1>4, AttemptsAssumption
  <2>2. w \in ThreadStates /\ w.step = "ready"
    BY <2>1 DEF ThreadStates, Steps
  <2>3. thread' = [thread EXCEPT ![t] = w] /\ buffer' = <<>>
    BY <1>1, <1>4 DEF Retry
  <2> HIDE DEF w
  <2>4. thread'[t].step = "ready"
    BY <1>1, <2>2, <2>3
  <2>5. AtRecord(t)' /\ (~disturbed' => Expected(t)')
    BY <1>3, <2>3, <2>4 DEF AtRecord, Expected, OnePart, In
  <2>6. buffer' \in Seq(Parts) /\ Len(buffer') <= MaxLine
    BY <2>3, LineAssumption, EmptySeq
  <2> QED  BY <1>1, <1>2, <1>3, <2>2, <2>3, <2>5, <2>6, ActiveStep DEF IInv, TypeOK
<1>5. CASE ~(thread[t].attempt < Attempts)
  <2> DEFINE w == [thread[t] EXCEPT !.step = "failed"]
  <2>1. w \in ThreadStates /\ w.step = "failed"
    BY <1>1 DEF ThreadStates, Steps
  <2>2. thread' = [thread EXCEPT ![t] = w] /\ UNCHANGED buffer
    BY <1>1, <1>5 DEF Retry, Goto
  <2> HIDE DEF w
  <2>3. thread'[t].step = "failed"
    BY <1>1, <2>1, <2>2
  <2>4. AtRecord(t)' /\ Expected(t)'
    BY <2>3 DEF AtRecord, Expected, In
  <2> QED  BY <1>1, <1>2, <1>3, <2>1, <2>2, <2>4, ActiveStep DEF IInv, TypeOK
<1> QED  BY <1>4, <1>5

LEMMA WriteCommandKeeps ==
    ASSUME IInv, NEW t \in Threads, WriteCommand(t)
    PROVE  IInv'
<1> DEFINE w == [thread[t] EXCEPT !.step = "echo"]
           c == CommandOf[t]
<1>1. /\ thread \in [Threads -> ThreadStates] /\ names \in [Threads -> NamesRead]
      /\ In(t, {"ready"}) /\ Active(t) /\ c \in Commands
  BY CommandAssumption DEF IInv, TypeOK, NamesRead, WriteCommand, Active, In
<1>2. w \in ThreadStates /\ w.step = "echo" /\ thread' = [thread EXCEPT ![t] = w]
  BY <1>1 DEF WriteCommand, Goto, ThreadStates, Steps
<1>3. names' = [names EXCEPT ![t] = names[t]] /\ names[t] \in NamesRead /\ UNCHANGED clock
  BY <1>1 DEF WriteCommand
<1>4. /\ buffer' \in Seq(Parts) /\ Len(buffer') <= MaxLine /\ disturbed' \in BOOLEAN
      /\ ~disturbed' => ~disturbed
  <2>1. CASE buffer # <<>> /\ buffer' = Tail(buffer) /\ UNCHANGED disturbed
    <3>1. Tail(buffer) \in Seq(Parts) /\ Len(Tail(buffer)) = Len(buffer) - 1 /\ Len(buffer) \in Nat
      BY <2>1, HeadTailProperties, LenProperties DEF IInv, TypeOK
    <3> QED  BY <2>1, <3>1, LineAssumption DEF IInv, TypeOK
  <2>2. CASE buffer = <<>> /\ UNCHANGED buffer /\ GivesUp
    BY <2>2 DEF IInv, TypeOK, GivesUp
  <2> QED  BY <2>1, <2>2 DEF WriteCommand, Drain
<1>5. /\ line' \in Seq(Parts) /\ Len(line') <= MaxLine /\ max200' \in Max200States
  <2>1. LockedBy(c) \in Max200States
    BY <1>1, LockedStates
  <2>2. [max200 EXCEPT !.skew = TRUE] \in Max200States
    BY DEF IInv, TypeOK, Max200States
  <2>3. <<Echo(c)>> \in Seq(Parts)
    BY <1>1, PartValues
  <2> QED  BY <2>1, <2>2, <2>3, SentIsBounded DEF WriteCommand, Receive, IInv, TypeOK
<1> HIDE DEF w
<1>6. thread'[t].step = "echo"
  BY <1>1, <1>2
<1>7. ASSUME ~disturbed' PROVE Echoed(t)'
  <2>1. OnePart
    BY <1>1, <1>4, <1>7 DEF IInv, Expected
  <2>2. line = <<>> /\ buffer' = <<>>
    <3>1. CASE buffer # <<>> /\ buffer' = Tail(buffer)
      <4>1. line = <<>> /\ Len(buffer) <= 1
        BY <2>1, <3>1 DEF OnePart
      <4>2. Tail(buffer) \in Seq(Parts) /\ Len(Tail(buffer)) = Len(buffer) - 1 /\ Len(buffer) \in Nat \ {0}
        BY <3>1, HeadTailProperties, LenProperties, EmptySeq DEF IInv, TypeOK
      <4>3. Len(Tail(buffer)) = 0
        BY <4>1, <4>2
      <4> QED  BY <3>1, <4>1, <4>2, <4>3, EmptySeq
    <3>2. CASE buffer = <<>> /\ UNCHANGED buffer /\ GivesUp
      BY <1>7, <3>2 DEF GivesUp
    <3> QED  BY <3>1, <3>2 DEF WriteCommand, Drain
  <2>3. CASE max200' = LockedBy(c) /\ line' = Sent(<<Echo(c)>>)
    <3>1. line' \in {<<>>, <<Echo(c)>>}
      BY <1>1, <2>2, <2>3, SentOne, PartValues DEF IInv
    <3> QED  BY <2>2, <2>3, <3>1 DEF Echoed, Locked, Quiet
  <2>4. CASE UNCHANGED line
    BY <2>2, <2>4 DEF Echoed, Quiet
  <2> QED  BY <2>3, <2>4 DEF WriteCommand, Receive
<1>8. AtRecord(t)' /\ (~disturbed' => Expected(t)' /\ Belonging(names[t]))
  BY <1>4, <1>6, <1>7 DEF AtRecord, Expected, In, IInv
<1> QED  BY <1>1, <1>2, <1>3, <1>4, <1>5, <1>8, ActiveStep DEF IInv, TypeOK

LEMMA ReadEchoKeeps ==
    ASSUME IInv, NEW t \in Threads, ReadEcho(t)
    PROVE  IInv'
<1> DEFINE c == CommandOf[t]
           w == [thread[t] EXCEPT !.step = IF c = "clock" THEN "pay" ELSE "address",
                                  !.attempt = 0, !.record = 1]
<1>1. /\ thread \in [Threads -> ThreadStates] /\ names \in [Threads -> NamesRead]
      /\ In(t, {"echo"}) /\ Active(t) /\ c \in Commands
  BY CommandAssumption DEF IInv, TypeOK, NamesRead, ReadEcho, Active, In
<1>2. UNCHANGED <<names, max200, clock, line, disturbed>>
  BY DEF ReadEcho
<1>3. CASE Head(buffer) # Echo(c)
  BY <1>1, <1>2, <1>3, RetryKeeps DEF ReadEcho, In, IInv, TypeOK
<1>4. CASE Head(buffer) = Echo(c)
  <2>1. w \in ThreadStates /\ w.step = (IF c = "clock" THEN "pay" ELSE "address") /\ w.record = 1
    <3>1. thread[t] \in ThreadStates /\ 0 \in 0..Attempts
      BY <1>1, AttemptsAssumption
    <3>2. (IF c = "clock" THEN "pay" ELSE "address") \in Steps
      BY DEF Steps
    <3> QED  BY <3>1, <3>2 DEF ThreadStates
  <2>2. thread' = [thread EXCEPT ![t] = w] /\ buffer' = Tail(buffer) /\ buffer # <<>>
    BY <1>1, <1>4 DEF ReadEcho
  <2> HIDE DEF w
  <2>3. thread'[t].step = (IF c = "clock" THEN "pay" ELSE "address") /\ thread'[t].record = 1
    BY <1>1, <2>1, <2>2
  <2>4. names' = [names EXCEPT ![t] = names[t]] /\ names[t] \in NamesRead
    BY <1>1, <1>2
  <2>5. buffer' \in Seq(Parts) /\ Len(buffer') <= MaxLine
    <3>1. Tail(buffer) \in Seq(Parts) /\ Len(Tail(buffer)) = Len(buffer) - 1 /\ Len(buffer) \in Nat
      BY <2>2, HeadTailProperties, LenProperties DEF IInv, TypeOK
    <3> QED  BY <2>2, <3>1, LineAssumption DEF IInv, TypeOK
  <2>6. AtRecord(t)'
    BY <1>1, <2>3, RecordsAssumption DEF AtRecord, In, RecordParts, Commands
  <2>7. ASSUME ~disturbed' PROVE ~disturbed /\ Expected(t)' /\ Belonging(names[t])
    <3>1. ~disturbed /\ Echoed(t) /\ Belonging(names[t])
      BY <1>1, <1>2, <2>7 DEF IInv, Expected
    <3>2. Locked(t) /\ line = <<>> /\ buffer = <<Echo(c)>>
      BY <2>2, <3>1 DEF Echoed, Quiet
    <3>3. Quiet' /\ Locked(t)'
      BY <1>1, <1>2, <2>2, <3>2, PartValues, ShortSequences DEF Quiet, Locked
    <3>4. c = "clock" => max200' = [command |-> "clock", got |-> thread'[t].record - 1, skew |-> FALSE]
      BY <2>3, <3>3 DEF Locked, LockedBy
    <3> QED  BY <2>3, <3>1, <3>3, <3>4 DEF Expected, In
  <2> QED  BY <1>1, <1>2, <2>1, <2>2, <2>4, <2>5, <2>6, <2>7, ActiveStep DEF IInv, TypeOK
<1> QED  BY <1>3, <1>4

LEMMA EchoTimesOutKeeps ==
    ASSUME IInv, NEW t \in Threads, EchoTimesOut(t)
    PROVE  IInv'
BY RetryKeeps DEF EchoTimesOut, GivesUp, In, IInv, TypeOK

LEMMA WriteTimeKeeps ==
    ASSUME IInv, NEW t \in Threads, WriteTime(t)
    PROVE  IInv'
<1> DEFINE k == thread[t].record
           w == IF k < RecordParts THEN [thread[t] EXCEPT !.record = @ + 1]
                                   ELSE [thread[t] EXCEPT !.step = "ok", !.record = 0]
           got == max200.got + 1
<1>1. /\ thread \in [Threads -> ThreadStates] /\ names \in [Threads -> NamesRead]
      /\ thread[t].step = "pay" /\ Active(t) /\ CommandOf[t] = "clock" /\ k \in {1, 2}
      /\ UNCHANGED <<names, line, buffer, disturbed>>
  BY DEF IInv, TypeOK, NamesRead, WriteTime, Active, In, AtRecord, RecordParts
<1>2. /\ w \in ThreadStates /\ w.step # "idle"
      /\ k = 1 => w.step = "pay" /\ w.record = 2
      /\ k = 2 => w.step = "ok"
  <2>1. thread[t] \in ThreadStates /\ thread[t].step = "pay"
    BY <1>1
  <2>2. CASE k = 1
    <3> DEFINE v == [thread[t] EXCEPT !.record = 2]
    <3>1. v \in ThreadStates /\ v.step = "pay" /\ v.record = 2
      BY <2>1 DEF ThreadStates
    <3>2. w = v
      BY <2>2 DEF RecordParts
    <3> HIDE DEF v, w
    <3> QED  BY <2>2, <3>1, <3>2
  <2>3. CASE k = 2
    <3> DEFINE v == [thread[t] EXCEPT !.step = "ok", !.record = 0]
    <3>1. v \in ThreadStates /\ v.step = "ok"
      BY <2>1 DEF ThreadStates, Steps
    <3>2. w = v
      BY <2>3 DEF RecordParts
    <3> HIDE DEF v, w
    <3> QED  BY <2>3, <3>1, <3>2
  <2> QED  BY <1>1, <2>2, <2>3
<1>3. thread' = [thread EXCEPT ![t] = w]
  BY <1>1 DEF WriteTime
<1> HIDE DEF w
<1>4. /\ thread'[t] = w
      /\ names' = [names EXCEPT ![t] = names[t]] /\ names[t] \in NamesRead
  BY <1>1, <1>3
<1>5. max200' \in Max200States /\ clock' \in Threads \cup {None}
  <2>1. Free \in Max200States
    BY LockedStates DEF Free
  <2>2. got < RecordParts => [max200 EXCEPT !.got = got] \in Max200States
    BY DEF IInv, TypeOK, Max200States, RecordParts
  <2> QED  BY <2>1, <2>2 DEF WriteTime, ReceiveTime, IInv, TypeOK
<1>6. AtRecord(t)'
  BY <1>1, <1>2, <1>4 DEF AtRecord, In, RecordParts
<1>7. ASSUME ~disturbed' PROVE ~disturbed /\ Expected(t)' /\ Belonging(names[t])
  <2>1. ~disturbed /\ Belonging(names[t]) /\ max200 = [command |-> "clock", got |-> k - 1, skew |-> FALSE]
    BY <1>1, <1>7 DEF IInv, Expected, In
  <2>2. CASE k = 1
    <3>1. max200' = [max200 EXCEPT !.got = 1]
      BY <2>1, <2>2 DEF WriteTime, ReceiveTime, RecordParts
    <3>2. max200' = [command |-> "clock", got |-> 1, skew |-> FALSE]
      BY <2>1, <3>1
    <3>3. thread'[t].step = "pay" /\ thread'[t].record - 1 = 1
      BY <1>2, <1>4, <2>2
    <3> QED  BY <2>1, <3>2, <3>3 DEF Expected, In
  <2>3. CASE k = 2
    <3>1. clock' = t
      BY <2>1, <2>3 DEF WriteTime, ReceiveTime, RecordParts
    <3> QED  BY <1>2, <1>4, <2>1, <2>3, <3>1 DEF Expected, In
  <2> QED  BY <1>1, <2>2, <2>3
<1> QED  BY <1>1, <1>2, <1>3, <1>4, <1>5, <1>6, <1>7, ActiveStep DEF IInv, TypeOK

LEMMA WriteAddressKeeps ==
    ASSUME IInv, NEW t \in Threads, WriteAddress(t)
    PROVE  IInv'
<1> DEFINE r == thread[t].record
           w == [thread[t] EXCEPT !.step = "read"]
<1>1. /\ thread \in [Threads -> ThreadStates] /\ names \in [Threads -> NamesRead]
      /\ In(t, {"address"}) /\ Active(t) /\ CommandOf[t] = "names" /\ r \in 1..Records
      /\ UNCHANGED <<names, clock, buffer, disturbed>>
  BY DEF IInv, TypeOK, NamesRead, WriteAddress, Active, In, AtRecord
<1>2. w \in ThreadStates /\ w.step = "read" /\ w.record = r /\ thread' = [thread EXCEPT ![t] = w]
  BY <1>1 DEF WriteAddress, Goto, ThreadStates, Steps
<1>3. names' = [names EXCEPT ![t] = names[t]] /\ names[t] \in NamesRead
  BY <1>1
<1>4. line' \in Seq(Parts) /\ Len(line') <= MaxLine /\ max200' \in Max200States
  <2>1. \A other \in 1..Records : Sent(Record(other)) \in Seq(Parts) /\ Len(Sent(Record(other))) <= MaxLine
    BY SentIsBounded, PartValues DEF IInv
  <2>2. \A skew \in BOOLEAN : [max200 EXCEPT !.skew = skew] \in Max200States
    BY DEF IInv, TypeOK, Max200States
  <2> QED  BY <1>1, <2>1, <2>2 DEF WriteAddress, ReceiveAddress, IInv, TypeOK
<1> HIDE DEF w
<1>5. thread'[t].step = "read" /\ thread'[t].record = r
  BY <1>1, <1>2
<1>6. ASSUME ~disturbed' PROVE ~disturbed /\ Expected(t)' /\ Belonging(names[t])
  <2>1. ~disturbed /\ Quiet /\ Locked(t) /\ Belonging(names[t])
    BY <1>1, <1>6 DEF IInv, Expected, In
  <2>2. line' = Sent(Record(r)) /\ UNCHANGED max200
    BY <1>1, <2>1 DEF WriteAddress, ReceiveAddress, Locked, LockedBy
  <2>3. line' \in {<<>>, <<<<"record", r, 1>>>>, <<<<"record", r, 1>>, <<"record", r, 2>>>>}
    BY <1>1, <2>1, <2>2, SentTwo, PartValues DEF IInv, Record, Quiet
  <2>4. PartsOf(r)'
    BY <1>1, <1>5, <2>1, <2>3 DEF PartsOf, Quiet
  <2>5. Locked(t)'
    BY <2>1, <2>2 DEF Locked
  <2> QED  BY <1>5, <2>1, <2>4, <2>5 DEF Expected, In, PartsOf
<1>7. AtRecord(t)'
  BY <1>1, <1>5 DEF AtRecord, In
<1> QED  BY <1>1, <1>2, <1>3, <1>4, <1>6, <1>7, ActiveStep DEF IInv, TypeOK

LEMMA NameIsTyped ==
    ASSUME NEW data
    PROVE  NameIn(data) \in (1..Records) \cup {None, Mixed}
BY DEF NameIn

LEMMA ReadRecordKeeps ==
    ASSUME IInv, NEW t \in Threads, ReadRecord(t)
    PROVE  IInv'
<1> DEFINE r == thread[t].record
           size == IF Len(buffer) < RecordParts THEN Len(buffer) ELSE RecordParts
           data == SubSeq(buffer, 1, size)
           n == [names[t] EXCEPT ![r] = NameIn(data)]
           next == [thread[t] EXCEPT !.step = "address", !.record = @ + 1]
           last == [thread[t] EXCEPT !.step = "ok", !.record = 0]
           w == IF r < Records THEN next ELSE last
<1>1. /\ thread \in [Threads -> ThreadStates] /\ names \in [Threads -> NamesRead]
      /\ In(t, {"read"}) /\ Active(t) /\ CommandOf[t] = "names" /\ r \in 1..Records
      /\ UNCHANGED <<max200, clock, line>>
      /\ buffer \in Seq(Parts) /\ Len(buffer) \in Nat /\ Len(buffer) <= MaxLine
  BY LenProperties DEF IInv, TypeOK, NamesRead, ReadRecord, Active, In, AtRecord
<1>2. next \in ThreadStates /\ next.step = "address" /\ next.record = r + 1
  <2>1. thread[t] \in ThreadStates /\ r + 1 \in Nat
    BY <1>1, RecordsAssumption
  <2> QED  BY <2>1 DEF ThreadStates, Steps
<1>3. last \in ThreadStates /\ last.step = "ok"
  BY <1>1 DEF ThreadStates, Steps
<1>4. thread' = [thread EXCEPT ![t] = w]
  BY <1>1 DEF ReadRecord
<1> HIDE DEF next, last
<1>5. /\ w \in ThreadStates
      /\ (w.step = "address" /\ w.record = r + 1 /\ r + 1 \in 1..Records) \/ w.step = "ok"
  BY <1>1, <1>2, <1>3, RecordsAssumption
<1> HIDE DEF w
<1>6. thread'[t] = w
  BY <1>1, <1>4
<1>7. n \in NamesRead /\ names' = [names EXCEPT ![t] = n]
  BY <1>1, NameIsTyped DEF ReadRecord, NamesRead
<1>8. /\ size \in 0..2 /\ size <= Len(buffer) /\ (size < 2 => size = Len(buffer))
      /\ data \in Seq(Parts) /\ Len(data) = size
      /\ buffer' \in Seq(Parts) /\ Len(buffer') = Len(buffer) - size
  <2>1. size \in 0..2 /\ size <= Len(buffer) /\ (size < 2 => size = Len(buffer))
    <3>1. CASE Len(buffer) < 2
      <4>1. size = Len(buffer)
        BY <3>1 DEF RecordParts
      <4> HIDE DEF size
      <4> QED  BY <1>1, <3>1, <4>1
    <3>2. CASE ~(Len(buffer) < 2)
      <4>1. size = 2
        BY <3>2 DEF RecordParts
      <4> HIDE DEF size
      <4> QED  BY <1>1, <3>2, <4>1
    <3> QED  BY <3>1, <3>2
  <2>2. \A i \in 1..Len(buffer) : buffer[i] \in Parts
    BY <1>1, ElementOfSeq
  <2>3. buffer' = SubSeq(buffer, size + 1, Len(buffer))
    BY DEF ReadRecord
  <2> HIDE DEF size
  <2>4. data \in Seq(Parts) /\ Len(data) = IF 1 <= size THEN size - 1 + 1 ELSE 0
    BY <1>1, <2>1, <2>2, SubSeqProperties
  <2>5. buffer' \in Seq(Parts)
        /\ Len(buffer') = IF size + 1 <= Len(buffer) THEN Len(buffer) - (size + 1) + 1 ELSE 0
    BY <1>1, <2>1, <2>2, <2>3, SubSeqProperties
  <2> QED  BY <1>1, <2>1, <2>4, <2>5
<1>9. Len(buffer') <= MaxLine /\ disturbed' \in BOOLEAN /\ AtRecord(t)'
  <2>1. Len(buffer') <= MaxLine
    BY <1>1, <1>8, LineAssumption
  <2>2. disturbed' \in BOOLEAN
    BY DEF ReadRecord, GivesUp, IInv, TypeOK
  <2>3. AtRecord(t)'
    BY <1>1, <1>5, <1>6 DEF AtRecord, In
  <2> QED  BY <2>1, <2>2, <2>3
<1>10. ASSUME ~disturbed' PROVE ~disturbed /\ Expected(t)' /\ Belonging(n)
  <2>1. ~disturbed /\ (size < 2 => line = <<>>)
    BY <1>10 DEF ReadRecord, GivesUp, RecordParts, IInv, TypeOK
  <2>2. PartsOf(r) /\ Locked(t) /\ Belonging(names[t])
    BY <1>1, <2>1 DEF IInv, Expected, In
  <2>3. line = <<>> /\ buffer' = <<>> /\ NameIn(data) \in {None, r}
    <3>1. CASE size < 2
      <4>1. NameIn(data) = None
        BY <1>8, <3>1 DEF NameIn, RecordParts
      <4>2. Len(buffer') = 0
        BY <1>1, <1>8, <3>1
      <4> QED  BY <1>8, <2>1, <3>1, <4>1, <4>2, EmptySeq
    <3>2. CASE size = 2
      <4>1. Len(buffer) >= 2
        BY <1>8, <3>2
      <4>2. buffer = Record(r) /\ line = <<>>
        <5> DEFINE p == <<"record", r, 1>>
                   q == <<"record", r, 2>>
        <5>1. \/ line = <<>> /\ buffer \in {<<>>, <<p>>, <<q>>, <<p, q>>}
              \/ buffer = <<>> \/ buffer = <<p>>
          BY <2>2 DEF PartsOf
        <5>2. Record(r) = <<p, q>>
          BY DEF Record
        <5> HIDE DEF p, q
        <5>3. Len(<<>>) = 0 /\ Len(<<p>>) = 1 /\ Len(<<q>>) = 1
          OBVIOUS
        <5> QED  BY <4>1, <5>1, <5>2, <5>3
      <4>3. Len(buffer) = 2
        BY <4>2 DEF Record
      <4>4. data = buffer
        BY <1>1, <3>2, <4>3, SubSeqFull
      <4>5. Len(buffer') = 0
        BY <1>8, <3>2, <4>3
      <4> QED  BY <1>1, <1>8, <4>2, <4>4, <4>5, RecordIsItsName, EmptySeq
    <3> QED  BY <1>8, <3>1, <3>2
  <2>4. Quiet' /\ Locked(t)'
    BY <1>1, <2>2, <2>3 DEF Quiet, Locked
  <2>5. Belonging(n)
    BY <1>1, <2>2, <2>3 DEF Belonging, NamesRead
  <2> QED  BY <1>1, <1>5, <1>6, <2>1, <2>4, <2>5 DEF Expected, In
<1> HIDE DEF n
<1> QED  BY <1>1, <1>4, <1>5, <1>7, <1>8, <1>9, <1>10, ActiveStep DEF IInv, TypeOK

LEMMA UnpluggedKeeps ==
    ASSUME IInv, NEW t \in Threads, Unplugged(t)
    PROVE  IInv'
<1>1. CASE In(t, {"ready", "echo"}) /\ Retry(t)
  BY <1>1, RetryKeeps DEF Unplugged, IInv, TypeOK
<1>2. CASE In(t, {"pay", "address", "read"}) /\ Goto(t, "failed") /\ UNCHANGED buffer
  <2> DEFINE w == [thread[t] EXCEPT !.step = "failed"]
  <2>1. /\ thread \in [Threads -> ThreadStates] /\ names \in [Threads -> NamesRead] /\ Active(t)
        /\ UNCHANGED <<names, max200, clock, line, buffer, disturbed>>
    BY <1>2 DEF IInv, TypeOK, NamesRead, Unplugged, Active, In
  <2>2. w \in ThreadStates /\ w.step = "failed" /\ thread' = [thread EXCEPT ![t] = w]
    BY <1>2, <2>1 DEF Goto, ThreadStates, Steps
  <2> HIDE DEF w
  <2>3. thread'[t].step = "failed"
    BY <2>1, <2>2
  <2>4. AtRecord(t)' /\ Expected(t)'
    BY <2>3 DEF AtRecord, Expected, In
  <2>5. names' = [names EXCEPT ![t] = names[t]] /\ names[t] \in NamesRead
    BY <2>1
  <2> QED  BY <2>1, <2>2, <2>4, <2>5, ActiveStep DEF IInv, TypeOK
<1> QED  BY <1>1, <1>2 DEF Unplugged

-----------------------------------------------------------------------------
(* Steps that begin and end a command.                                     *)

LEMMA NoNamesRead == NoNames \in NamesRead /\ Belonging(NoNames)
BY DEF NoNames, NamesRead, Belonging

LEMMA PassiveStep ==
    ASSUME IInv, NEW t \in Threads,
           NEW w \in ThreadStates, thread' = [thread EXCEPT ![t] = w], w.step \in {"idle", "failed"},
           NEW n \in NamesRead, names' = [names EXCEPT ![t] = n],
           w.step = "idle" => n = NoNames, ~disturbed => Belonging(n),
           UNCHANGED <<max200, clock, line, buffer, disturbed>>
    PROVE  IInv'
<1>1. TypeOK'
  BY DEF IInv, TypeOK, NamesRead
<1>2. /\ thread'[t] = w /\ names'[t] = n
      /\ \A u \in Threads \ {t} : thread'[u] = thread[u] /\ names'[u] = names[u]
  BY DEF IInv, TypeOK
<1>3. ASSUME NEW u \in Threads PROVE AtRecord(u)' /\ (In(u, {"idle"})' => names'[u] = NoNames)
  BY <1>2 DEF IInv, AtRecord, In
<1>4. ASSUME ~disturbed'
      PROVE  /\ Exclusive'
             /\ \A u \in Threads : Expected(u)' /\ Belonging(names'[u])
  <2>1. Expected(t)'
    BY <1>2 DEF Expected, In
  <2>2. ASSUME NEW u \in Threads \ {t} PROVE Expected(u)'
    BY <1>2, <1>4 DEF IInv, Expected, In, OnePart, Echoed, Locked, Quiet, PartsOf
  <2>3. Exclusive'
    BY <1>2, <1>4 DEF IInv, Exclusive, Active, In
  <2>4. \A u \in Threads : Belonging(names'[u])
    BY <1>2, <1>4 DEF IInv
  <2> QED  BY <2>1, <2>2, <2>3, <2>4
<1> QED  BY <1>1, <1>3, <1>4 DEF IInv

LEMMA ReturnKeeps ==
    ASSUME IInv, NEW t \in Threads, Return(t)
    PROVE  IInv'
<1>1. Idle \in ThreadStates /\ Idle.step = "idle"
  BY AttemptsAssumption DEF Idle, ThreadStates, Steps
<1> QED  BY <1>1, NoNamesRead, PassiveStep DEF Return

LEMMA OpenFailsKeeps ==
    ASSUME IInv, NEW t \in Threads, OpenFails(t)
    PROVE  IInv'
<1> DEFINE w == [thread[t] EXCEPT !.step = "failed"]
<1>1. /\ thread \in [Threads -> ThreadStates] /\ names \in [Threads -> NamesRead]
  BY DEF IInv, TypeOK, NamesRead
<1>2. w \in ThreadStates /\ w.step = "failed" /\ thread' = [thread EXCEPT ![t] = w]
  BY <1>1 DEF OpenFails, Goto, ThreadStates, Steps
<1>3. names' = [names EXCEPT ![t] = names[t]] /\ names[t] \in NamesRead
  BY <1>1 DEF OpenFails
<1>4. ~disturbed => Belonging(names[t])
  BY DEF IInv
<1> HIDE DEF w
<1> QED  BY <1>2, <1>3, <1>4, PassiveStep DEF OpenFails

\* A thread that opens the device alone, with nothing on the line, starts anew.
LEMMA OpenKeeps ==
    ASSUME IInv, NEW t \in Threads, Open(t)
    PROVE  IInv'
<1> DEFINE w == [thread[t] EXCEPT !.step = "ready", !.attempt = 1]
<1>1. w \in ThreadStates /\ w.step = "ready"
  <2>1. thread[t] \in ThreadStates /\ 1 \in 0..Attempts
    BY AttemptsAssumption DEF IInv, TypeOK
  <2> QED  BY <2>1 DEF ThreadStates, Steps
<1>2. /\ thread' = [thread EXCEPT ![t] = w] /\ buffer' = <<>> /\ In(t, {"idle"})
      /\ disturbed' = (~Alone(t) \/ line # <<>>) /\ UNCHANGED <<names, clock>>
      /\ \/ max200' = Free /\ line' = Sent(<<Ready>>)
         \/ UNCHANGED <<max200, line>>
  BY DEF Open, Busy, IInv, TypeOK
<1> HIDE DEF w
<1>3. /\ thread'[t] = w /\ \A u \in Threads \ {t} : thread'[u] = thread[u]
  BY <1>2 DEF IInv, TypeOK
<1>4. TypeOK'
  <2>1. Free \in Max200States
    BY LockedStates DEF Free
  <2>2. Sent(<<Ready>>) \in Seq(Parts) /\ Len(Sent(<<Ready>>)) <= MaxLine
    BY SentIsBounded, PartValues DEF IInv
  <2>3. <<>> \in Seq(Parts) /\ Len(<<>>) <= MaxLine
    BY EmptySeq, LineAssumption
  <2> QED  BY <1>1, <1>2, <2>1, <2>2, <2>3 DEF IInv, TypeOK
<1>5. ASSUME NEW u \in Threads PROVE AtRecord(u)' /\ (In(u, {"idle"})' => names'[u] = NoNames)
  BY <1>1, <1>2, <1>3 DEF IInv, AtRecord, In
<1>6. ASSUME ~disturbed'
      PROVE  /\ Exclusive'
             /\ \A u \in Threads : Expected(u)' /\ Belonging(names'[u])
  <2>1. line = <<>> /\ \A u \in Threads : In(u, {"idle"})
    BY <1>2, <1>6 DEF Alone, Busy
  <2>2. \A u \in Threads \ {t} : thread'[u].step = "idle"
    BY <1>3, <2>1 DEF In
  <2>3. Exclusive'
    BY <2>2 DEF Exclusive, Active, In
  <2>4. \A u \in Threads : Belonging(names'[u])
    BY <1>2, <2>1, NoNamesRead DEF IInv
  <2>5. OnePart'
    <3>1. Len(<<>>) = 0 /\ Len(<<Ready>>) = 1
      OBVIOUS
    <3>2. line' \in {<<>>, <<Ready>>}
      BY <1>2, <2>1, SentOne, PartValues DEF IInv
    <3> QED  BY <1>2, <3>1, <3>2 DEF OnePart
  <2>6. \A u \in Threads : Expected(u)'
    BY <1>1, <1>3, <2>2, <2>5 DEF Expected, In
  <2> QED  BY <2>3, <2>4, <2>6
<1> QED  BY <1>4, <1>5, <1>6 DEF IInv

-----------------------------------------------------------------------------
(* Steps of the line.                                                      *)

\* What comes next on a line that expects few parts.
LEMMA NextPart ==
    ASSUME TypeOK, line # <<>>
    PROVE  /\ Head(line) \in Parts /\ Tail(line) \in Seq(Parts)
           /\ Len(Tail(line)) = Len(line) - 1 /\ Len(line) \in Nat \ {0}
           /\ Len(line) <= 1 => Tail(line) = <<>>
           /\ Append(buffer, Head(line)) \in Seq(Parts)
           /\ Len(Append(buffer, Head(line))) = Len(buffer) + 1
<1>1. line \in Seq(Parts) /\ buffer \in Seq(Parts) /\ Len(line) \in Nat \ {0}
  BY EmptySeq DEF TypeOK
<1>2. Head(line) \in Parts /\ Tail(line) \in Seq(Parts) /\ Len(Tail(line)) = Len(line) - 1
  BY <1>1, HeadTailProperties
<1>3. Len(line) <= 1 => Tail(line) = <<>>
  <2>1. Len(line) <= 1 => Len(Tail(line)) = 0
    BY <1>1, <1>2
  <2> QED  BY <1>2, <2>1, EmptySeq
<1>4. Append(buffer, Head(line)) \in Seq(Parts) /\ Len(Append(buffer, Head(line))) = Len(buffer) + 1
  BY <1>1, <1>2, AppendProperties
<1> QED  BY <1>1, <1>2, <1>3, <1>4

LEMMA LineStep ==
    ASSUME IInv, line # <<>>, line' = Tail(line),
           \/ buffer' = Append(buffer, Head(line)) /\ Len(buffer) < MaxLine
           \/ UNCHANGED buffer,
           UNCHANGED <<thread, names, max200, clock, disturbed>>
    PROVE  IInv'
<1>1. /\ TypeOK
      /\ line' \in Seq(Parts) /\ Len(line') = Len(line) - 1 /\ Len(line) \in Nat \ {0}
      /\ Len(line) <= 1 => line' = <<>>
      /\ buffer' \in Seq(Parts) /\ Len(buffer) \in Nat
      /\ \/ Len(buffer') = Len(buffer) + 1 /\ Len(buffer) < MaxLine
         \/ Len(buffer') = Len(buffer)
  <2>1. TypeOK
    BY DEF IInv
  <2>2. Len(buffer) \in Nat
    BY <2>1, LenProperties DEF TypeOK
  <2>3. /\ buffer' \in Seq(Parts)
        /\ \/ Len(buffer') = Len(buffer) + 1 /\ Len(buffer) < MaxLine
           \/ Len(buffer') = Len(buffer)
    <3>1. CASE buffer' = Append(buffer, Head(line)) /\ Len(buffer) < MaxLine
      BY <2>1, <3>1, NextPart, Zenon
    <3>2. CASE UNCHANGED buffer
      BY <2>1, <3>2 DEF TypeOK
    <3> QED  BY <3>1, <3>2
  <2> QED  BY <2>1, <2>2, <2>3, NextPart
<1>2. TypeOK'
  <2>1. Len(line') <= MaxLine
    BY <1>1, LineAssumption DEF TypeOK
  <2>2. Len(buffer') <= MaxLine
    BY <1>1, LineAssumption DEF TypeOK
  <2> QED  BY <1>1, <2>1, <2>2 DEF TypeOK
<1>3. \A t \in Threads : AtRecord(t)' /\ (In(t, {"idle"})' => names'[t] = NoNames)
  BY DEF IInv, AtRecord, In
<1>4. ASSUME ~disturbed' PROVE Exclusive' /\ \A t \in Threads : Belonging(names'[t])
  BY <1>4 DEF IInv, Exclusive, Active, In
<1>5. ASSUME NEW t \in Threads, Expected(t) PROVE Expected(t)'
  <2>1. ~Quiet
    BY DEF Quiet
  <2>2. OnePart => OnePart'
    <3> SUFFICES ASSUME OnePart PROVE OnePart'
      OBVIOUS
    <3>1. buffer = <<>> /\ line' = <<>>
      BY <1>1 DEF OnePart
    <3>2. Len(buffer') <= 1
      <4>1. Len(buffer) = 0
        BY <3>1, EmptySeq
      <4>2. Len(buffer') = 0 + 1 \/ Len(buffer') = 0
        BY <1>1, <4>1, Zenon
      <4>3. \A n : n = 0 + 1 \/ n = 0 => n <= 1
        OBVIOUS
      <4> QED  BY <4>2, <4>3, Zenon
    <3> QED  BY <3>1, <3>2 DEF OnePart
  <2>3. Echoed(t) => Echoed(t)'
    <3> SUFFICES ASSUME Echoed(t) PROVE Echoed(t)'
      OBVIOUS
    <3>1. Locked(t)' /\ line = <<Echo(CommandOf[t])>> /\ buffer = <<>>
      BY <2>1 DEF Echoed, Locked
    <3>2. Echo(CommandOf[t]) \in Parts
      BY CommandAssumption, PartValues
    <3>3. line' = <<>> /\ buffer' \in {<<>>, <<Echo(CommandOf[t])>>}
      BY <3>1, <3>2, ShortSequences
    <3> QED  BY <3>1, <3>3 DEF Echoed, Quiet
  <2>4. ASSUME NEW r \in 1..Records, PartsOf(r) PROVE PartsOf(r)'
    <3> DEFINE p == <<"record", r, 1>>
               q == <<"record", r, 2>>
    <3>1. p \in Parts /\ q \in Parts
      BY PartValues
    <3>2. \/ line = <<p>> /\ buffer = <<>>
          \/ line = <<q>> /\ buffer \in {<<>>, <<p>>}
          \/ line = <<p, q>> /\ buffer = <<>>
      BY <2>4 DEF PartsOf
    <3> HIDE DEF p, q
    <3>3. \/ line' = <<>> /\ buffer' \in {<<>>, <<p>>, <<q>>, <<p, q>>}
          \/ line' = <<q>> /\ buffer' \in {<<>>, <<p>>}
      BY <3>1, <3>2, ShortSequences
    <3> QED  BY <3>3 DEF PartsOf, p, q
  <2>5. In(t, {"read"}) => PartsOf(thread[t].record)'
    BY <1>5, <2>4 DEF Expected, AtRecord, IInv, In
  <2> QED  BY <1>5, <2>1, <2>2, <2>3, <2>5 DEF Expected, In, Locked
<1> QED  BY <1>2, <1>3, <1>4, <1>5 DEF IInv

-----------------------------------------------------------------------------
(* The theorems.                                                           *)

LEMMA InitHolds == Init => IInv
<1> SUFFICES ASSUME Init PROVE IInv
  OBVIOUS
<1>1. Idle \in ThreadStates /\ Idle.step = "idle" /\ Free \in Max200States
  <2>1. 0 \in 0..Attempts
    BY AttemptsAssumption
  <2> QED  BY <2>1, LockedStates DEF Idle, ThreadStates, Steps, Free
<1>2. TypeOK
  <2>1. <<>> \in Seq(Parts) /\ Len(<<>>) <= MaxLine
    BY EmptySeq, LineAssumption
  <2> QED  BY <1>1, <2>1, NoNamesRead DEF Init, TypeOK, NamesRead
<1>3. \A t \in Threads : AtRecord(t) /\ Expected(t) /\ ~Active(t)
  BY <1>1 DEF Init, AtRecord, Expected, Active, In
<1> QED  BY <1>2, <1>3, NoNamesRead DEF Init, IInv, Exclusive

\* Where a thread is says what may come of the line, for any number of threads,
\* records and attempts.
THEOREM InductiveInvariant == Spec => []IInv
<1>1. IInv /\ [Next]_vars => IInv'
  <2> SUFFICES ASSUME IInv, [Next]_vars PROVE IInv'
    OBVIOUS
  <2>1. CASE AnswerArrives
    BY <2>1, LineStep DEF AnswerArrives
  <2>2. CASE AnswerLost
    BY <2>2, LineStep DEF AnswerLost
  <2>3. ASSUME NEW t \in Threads, Open(t) \/ OpenFails(t) \/ Working(t) PROVE IInv'
    BY <2>3, OpenKeeps, OpenFailsKeeps, WriteCommandKeeps, ReadEchoKeeps, EchoTimesOutKeeps,
       WriteTimeKeeps, WriteAddressKeeps, ReadRecordKeeps, UnpluggedKeeps, ReturnKeeps
       DEF Working
  <2>4. CASE UNCHANGED vars
    BY <2>4 DEF vars, IInv, TypeOK, Exclusive, Active, In, Expected, AtRecord, OnePart, Echoed,
                Quiet, Locked, PartsOf
  <2> QED  BY <2>1, <2>2, <2>3, <2>4 DEF Next
<1> QED  BY InitHolds, <1>1, PTL DEF Spec

\* Threads, names, the Max200 and the line keep their types.
THEOREM TypeCorrect == Spec => []TypeOK
<1>1. IInv => TypeOK
  BY DEF IInv
<1> QED  BY InductiveInvariant, <1>1, PTL

\* No download files a name under another output, whatever answers are lost and
\* however long the records and the retries are, unless it was disturbed.
THEOREM NamesBelongToTheirOutputs == Spec => []NamesBelong
<1>1. IInv => NamesBelong
  BY DEF IInv, NamesBelong, Belonging
<1> QED  BY InductiveInvariant, <1>1, PTL

\* A clock command that returns has set the clock, unless it was disturbed.
THEOREM ClockIsSet == Spec => []OkMeansSet
<1>1. IInv => OkMeansSet
  BY DEF IInv, OkMeansSet, Expected
<1> QED  BY InductiveInvariant, <1>1, PTL

-----------------------------------------------------------------------------
(* How long a command can take: the safety half of CommandsEnd.  Every step  *)
(* of its thread leaves less to do, and no one else adds to it.              *)

\* The steps a thread has before it at most.
Work(t) ==
    CASE In(t, {"idle"}) -> 0
      [] In(t, {"ok", "failed"}) -> 1
      [] In(t, {"pay"}) -> RecordParts - thread[t].record + 2
      [] In(t, {"read"}) -> 2 * (Records - thread[t].record) + 2
      [] In(t, {"address"}) -> 2 * (Records - thread[t].record) + 3
      [] In(t, {"echo"}) -> 2 * (Records + Attempts - thread[t].attempt) + 3
      [] In(t, {"ready"}) -> 2 * (Records + Attempts - thread[t].attempt) + 4

MaxWork == 2 * (Records + Attempts) + 2

Counted(t) == In(t, {"ready", "echo"}) => thread[t].attempt >= 1

WorkBounded == \A t \in Threads : Work(t) \in 0..MaxWork
WorkShrinks ==
    [][\A t \in Threads : /\ Busy(t) => Work(t)' = Work(t) \/ Work(t)' < Work(t)
                          /\ Working(t) => Work(t)' < Work(t)]_vars

LEMMA WorkOf ==
    ASSUME NEW t \in Threads, thread[t] \in ThreadStates, AtRecord(t), Counted(t)
    PROVE  Work(t) \in 0..MaxWork
<1> USE AttemptsAssumption, RecordsAssumption DEF In
<1>1. /\ thread[t].step \in Steps /\ thread[t].attempt \in 0..Attempts /\ thread[t].record \in Nat
      /\ MaxWork \in Nat /\ MaxWork >= 6
  <2>1. thread[t].step \in Steps /\ thread[t].attempt \in 0..Attempts /\ thread[t].record \in Nat
    BY DEF ThreadStates
  <2>2. MaxWork \in Nat /\ MaxWork >= 6
    BY AttemptsAssumption, RecordsAssumption DEF MaxWork
  <2>3. QED
    BY <2>1, <2>2
<1>2. CASE In(t, {"idle", "ok", "failed"})
  <2>1. Work(t) = 0 \/ Work(t) = 1
    BY <1>2 DEF Work
  <2>2. QED
    BY <1>1, <2>1
<1>3. CASE In(t, {"pay"})
  <2>1. Work(t) = 4 - thread[t].record /\ thread[t].record \in 1..2
    BY <1>1, <1>3 DEF Work, AtRecord, RecordParts
  <2>2. QED
    BY <1>1, <2>1
<1>4. CASE In(t, {"read", "address"})
  <2>1. /\ thread[t].record \in 1..Records
        /\ \/ Work(t) = 2 * (Records - thread[t].record) + 2
           \/ Work(t) = 2 * (Records - thread[t].record) + 3
    BY <1>4 DEF Work, AtRecord
  <2>2. QED
    BY <2>1 DEF MaxWork
<1>5. CASE In(t, {"echo", "ready"})
  <2>1. \/ Work(t) = 2 * (Records + Attempts - thread[t].attempt) + 3
        \/ Work(t) = 2 * (Records + Attempts - thread[t].attempt) + 4
    BY <1>5 DEF Work
  <2>2. thread[t].attempt \in 1..Attempts
    BY <1>1, <1>5 DEF Counted
  <2>3. QED
    BY <2>1, <2>2 DEF MaxWork
<1>6. QED
  BY <1>1, <1>2, <1>3, <1>4, <1>5 DEF Steps

\* An attempt that fails is followed by one less, or by none.
LEMMA RetryCounts ==
    ASSUME TypeOK, NEW t \in Threads, In(t, {"ready", "echo"}), Retry(t)
    PROVE  Work(t)' < Work(t) /\ Counted(t)'
<1>1. thread[t] \in ThreadStates
  BY DEF TypeOK
<1>2. CASE thread[t].attempt < Attempts
  BY <1>1, <1>2, AttemptsAssumption, RecordsAssumption
  DEF Retry, Work, Counted, In, ThreadStates, TypeOK
<1>3. CASE ~(thread[t].attempt < Attempts)
  BY <1>1, <1>3, AttemptsAssumption, RecordsAssumption
  DEF Retry, Goto, Work, Counted, In, ThreadStates, TypeOK
<1>4. QED
  BY <1>2, <1>3

LEMMA WorkingShrinks ==
    ASSUME TypeOK, NEW t \in Threads, AtRecord(t), Counted(t), Working(t)
    PROVE  Work(t)' < Work(t) /\ Counted(t)'
<1> USE AttemptsAssumption, RecordsAssumption
<1>1. thread[t] \in ThreadStates /\ thread \in [Threads -> ThreadStates]
  BY DEF TypeOK
<1>2. CASE WriteCommand(t)
  BY <1>1, <1>2 DEF WriteCommand, Goto, Work, Counted, In, ThreadStates
<1>3. CASE ReadEcho(t)
  <2>1. CASE Head(buffer) = Echo(CommandOf[t])
    BY <1>1, <1>3, <2>1 DEF ReadEcho, Work, Counted, In, ThreadStates, RecordParts
  <2>2. CASE Head(buffer) # Echo(CommandOf[t])
    BY <1>3, <2>2, RetryCounts DEF ReadEcho, In
  <2>3. QED
    BY <2>1, <2>2
<1>4. CASE EchoTimesOut(t)
  BY <1>4, RetryCounts DEF EchoTimesOut, In
<1>5. CASE WriteTime(t)
  BY <1>1, <1>5 DEF WriteTime, Work, Counted, In, ThreadStates, RecordParts
<1>6. CASE WriteAddress(t)
  BY <1>1, <1>6 DEF WriteAddress, Goto, Work, Counted, In, ThreadStates
<1>7. CASE ReadRecord(t)
  BY <1>1, <1>7 DEF ReadRecord, Work, Counted, AtRecord, In, ThreadStates
<1>8. CASE Unplugged(t)
  <2>1. CASE In(t, {"ready", "echo"}) /\ Retry(t)
    BY <2>1, RetryCounts
  <2>2. CASE In(t, {"pay", "address", "read"}) /\ Goto(t, "failed")
    BY <1>1, <2>2 DEF Goto, Work, Counted, AtRecord, In, ThreadStates, RecordParts
  <2>3. QED
    BY <1>8, <2>1, <2>2 DEF Unplugged
<1>9. CASE Return(t)
  BY <1>1, <1>9 DEF Return, Idle, Work, Counted, In, ThreadStates
<1>10. QED
  BY <1>2, <1>3, <1>4, <1>5, <1>6, <1>7, <1>8, <1>9 DEF Working

\* What a thread does leaves the others where they are.
LEMMA OthersStay ==
    ASSUME TypeOK, NEW t \in Threads, Open(t) \/ OpenFails(t) \/ Working(t), NEW u \in Threads \ {t}
    PROVE  thread'[u] = thread[u]
BY DEF TypeOK, Open, OpenFails, Working, WriteCommand, ReadEcho, EchoTimesOut, Retry, WriteTime,
       WriteAddress, ReadRecord, Unplugged, Return, Goto

LEMMA SameWork ==
    ASSUME NEW t \in Threads, thread'[t] = thread[t]
    PROVE  Work(t)' = Work(t) /\ (Counted(t) => Counted(t)')
BY DEF Work, Counted, In

\* Who is at work has the device open and opens it no second time.
LEMMA WorkingIsBusy ==
    ASSUME NEW t \in Threads, Working(t)
    PROVE  Busy(t)
BY DEF Working, WriteCommand, ReadEcho, EchoTimesOut, WriteTime, WriteAddress, ReadRecord,
       Unplugged, Return, Busy, In

\* However many threads share the device and whatever is lost, late or unplugged:
\* a command ends after at most 2 * (Records + Attempts) + 2 steps of its thread,
\* and no step of another one adds to these (_handshake, SERIAL_HANDSHAKE_RETRIES).
THEOREM CommandsAreBounded == Spec => []WorkBounded /\ WorkShrinks
<1> DEFINE Inv == IInv /\ \A t \in Threads : Counted(t)
           Step == \A t \in Threads : /\ Busy(t) => Work(t)' = Work(t) \/ Work(t)' < Work(t)
                                      /\ Working(t) => Work(t)' < Work(t)
<1>1. Init => \A t \in Threads : Counted(t)
  BY DEF Init, Idle, Counted, In
<1>2. ASSUME Inv, [Next]_vars PROVE (\A t \in Threads : Counted(t))' /\ [Step]_vars
  <2>1. TypeOK /\ \A t \in Threads : AtRecord(t) /\ Work(t) \in Nat
    <3>1. TypeOK /\ \A t \in Threads : thread[t] \in ThreadStates /\ AtRecord(t)
      BY <1>2 DEF IInv, TypeOK
    <3>2. \A t \in Threads : Work(t) \in 0..MaxWork
      BY <1>2, <3>1, WorkOf
    <3>3. QED
      BY <3>1, <3>2
  <2>2. ASSUME UNCHANGED thread PROVE \A t \in Threads : Counted(t)' /\ Work(t)' = Work(t) /\ ~Working(t)
    <3>1. ASSUME NEW t \in Threads, Working(t) PROVE FALSE
      <4>1. Work(t)' < Work(t) /\ Work(t)' = Work(t)
        BY <1>2, <2>1, <2>2, <3>1, WorkingShrinks, SameWork
      <4>2. QED
        BY <2>1, <4>1
    <3>2. QED
      BY <1>2, <2>2, <3>1, SameWork
  <2>3. CASE AnswerArrives \/ AnswerLost \/ UNCHANGED vars
    BY <2>1, <2>2, <2>3 DEF AnswerArrives, AnswerLost, vars
  <2>4. ASSUME NEW t \in Threads, Open(t) \/ OpenFails(t) \/ Working(t)
        PROVE  (\A u \in Threads : Counted(u))' /\ Step
    <3>1. ASSUME NEW u \in Threads \ {t} PROVE Counted(u)' /\ Work(u)' = Work(u) /\ ~Working(u)
      <4>1. thread'[u] = thread[u]
        BY <2>1, <2>4, OthersStay
      <4>2. Counted(u)' /\ Work(u)' = Work(u)
        BY <1>2, <4>1, SameWork
      <4>3. ASSUME Working(u) PROVE FALSE
        BY <1>2, <2>1, <4>2, <4>3, WorkingShrinks
      <4>4. QED
        BY <4>2, <4>3
    <3>2. CASE Working(t)
      <4>1. Work(t)' < Work(t) /\ Counted(t)'
        BY <1>2, <2>1, <3>2, WorkingShrinks
      <4>2. QED
        BY <3>1, <4>1
    <3>3. CASE ~Working(t)
      <4>1. ~Busy(t) /\ Counted(t)'
        BY <2>1, <2>4, <3>3 DEF Open, OpenFails, Goto, Counted, In, TypeOK, ThreadStates
      <4>2. QED
        BY <2>1, <3>1, <3>3, <4>1
    <3>4. QED
      BY <3>2, <3>3
  <2>5. QED
    BY <1>2, <2>3, <2>4 DEF Next
<1>3. Inv => WorkBounded
  BY WorkOf DEF WorkBounded, IInv, TypeOK
<1>4. QED
  BY InductiveInvariant, <1>1, <1>2, <1>3, PTL DEF Spec, WorkShrinks

=============================================================================
