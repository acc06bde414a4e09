----------------------------- MODULE SerialLink -----------------------------
(***************************************************************************)
(* The RS-232 link to the Max200 (serial_client.py): the handshake with its *)
(* time-outs and retries, the paced bytes of a clock command, the records   *)
(* of a download.                                                           *)
(*                                                                         *)
(* Every method runs in a worker thread and opens the device for itself;    *)
(* nothing keeps two of them apart, and what both read comes from one input *)
(* buffer.  Answers come in order; a byte may be lost, and come after the   *)
(* read that waited for it has timed out.  What goes out arrives.  A record *)
(* and the seven bytes of a clock command are two parts each: enough to be  *)
(* cut, and to have something come in between.                              *)
(***************************************************************************)
EXTENDS Naturals, Sequences

CONSTANTS
    Threads,        \* worker threads that use the device
    CommandOf,      \* what each of them does: "clock" or "names"
    Records,        \* how many records a download asks for
    Attempts,       \* SERIAL_HANDSHAKE_RETRIES
    None,
    Mixed,          \* a text that is of no record
    MaxLine         \* bound: parts on the way to the host, and in its buffer

Commands == {"clock", "names"}

ASSUME CommandAssumption == CommandOf \in [Threads -> Commands]
ASSUME RecordsAssumption == Records \in Nat \ {0}
ASSUME AttemptsAssumption == Attempts \in Nat \ {0}
ASSUME LineAssumption == MaxLine \in Nat

VARIABLES
    thread,         \* thread[t]: where the thread is
    names,          \* names[t]: the names a download has read
    max200,         \* the command that locks the Max200, and how far it is
    clock,          \* the thread whose clock command was carried out last
    line,           \* what the Max200 sent and has not arrived, oldest first
    buffer,         \* the input buffer of the device
    disturbed       \* history: a thread uses the device next to another one,
                    \* or stopped waiting for an answer that was on the way

vars == <<thread, names, max200, clock, line, buffer, disturbed>>

Idle == [step |-> "idle", attempt |-> 0, record |-> 0]
Steps == {"idle", "ready", "echo", "pay", "address", "read", "ok", "failed"}
ThreadStates == [step : Steps, attempt : 0..Attempts, record : Nat]
In(t, steps) == thread[t].step \in steps
Busy(t) == ~In(t, {"idle"})
Alone(t) == \A u \in Threads \ {t} : ~Busy(u)

Ready == <<"ready", 0>>
Echo(c) == <<"echo", c>>
Record(r) == <<<<"record", r, 1>>, <<"record", r, 2>>>>
RecordParts == 2
Parts == {Ready} \cup {Echo(c) : c \in Commands}
                 \cup {<<"record", r, i>> : r \in 1..Records, i \in 1..RecordParts}

LockedBy(command) == [command |-> command, got |-> 0, skew |-> FALSE]
Free == LockedBy(None)
Max200States == [command : Commands \cup {None}, got : 0..RecordParts, skew : BOOLEAN]

Goto(t, step) == thread' = [thread EXCEPT ![t].step = step]

-----------------------------------------------------------------------------
(* The Max200.                                                             *)

\* It sends; what does not fit the bound is lost.
Sent(parts) == LET all == line \o parts
               IN SubSeq(all, 1, IF Len(all) < MaxLine THEN Len(all) ELSE MaxLine)

\* It takes a command, locks itself and echoes its first letter, or, locked by
\* an earlier one, takes the two bytes for data of that one.
Receive(command) ==
    \/ /\ max200' = LockedBy(command)
       /\ line' = Sent(<<Echo(command)>>)
    \/ /\ max200.command # None
       /\ max200' = [max200 EXCEPT !.skew = TRUE]
       /\ UNCHANGED line

\* It is asked for a record while it is locked for names; out of step it sends
\* some record or none.
ReceiveAddress(r) ==
    IF max200.command = "names" /\ ~max200.skew
    THEN line' = Sent(Record(r)) /\ UNCHANGED max200
    ELSE /\ \/ \E other \in 1..Records : max200.command = "names" /\ line' = Sent(Record(other))
            \/ UNCHANGED line
         /\ max200' = [max200 EXCEPT !.skew = max200.command # None]

\* It takes a part of what it believes to be the time.
ReceiveTime(t) ==
    LET got == max200.got + 1 IN
    IF max200.command # "clock" THEN UNCHANGED <<max200, clock>>
    ELSE IF got < RecordParts THEN max200' = [max200 EXCEPT !.got = got] /\ UNCHANGED clock
    ELSE /\ max200' = Free
         /\ clock' = IF max200.skew THEN None ELSE t

AnswerArrives ==
    /\ line # <<>> /\ Len(buffer) < MaxLine
    /\ buffer' = Append(buffer, Head(line))
    /\ line' = Tail(line)
    /\ UNCHANGED <<thread, names, max200, clock, disturbed>>

AnswerLost ==
    /\ line # <<>>
    /\ line' = Tail(line)
    /\ UNCHANGED <<thread, names, max200, clock, buffer, disturbed>>

-----------------------------------------------------------------------------
(* Opening the device and the handshake.                                   *)

NoNames == [r \in 1..Records |-> None]

\* _open; the buffer is reset at once.  The Max200 may notice that the port
\* was opened, and sends its ready byte.
Open(t) ==
    /\ ~Busy(t)
    /\ thread' = [thread EXCEPT ![t].step = "ready", ![t].attempt = 1]
    /\ buffer' = <<>>
    /\ \/ max200' = Free /\ line' = Sent(<<Ready>>)
       \/ UNCHANGED <<max200, line>>
    /\ disturbed' = (~Alone(t) \/ line # <<>>)
    /\ UNCHANGED <<names, clock>>

OpenFails(t) ==
    /\ ~Busy(t)
    /\ Goto(t, "failed")
    /\ UNCHANGED <<names, max200, clock, line, buffer, disturbed>>

\* A read gives up while what it waits for is still on the way.
GivesUp == disturbed' = (disturbed \/ line # <<>>)

\* The byte before the command: the ready byte, some other one, or none in time.
Drain ==
    \/ buffer # <<>> /\ buffer' = Tail(buffer) /\ UNCHANGED disturbed
    \/ buffer = <<>> /\ UNCHANGED buffer /\ GivesUp

WriteCommand(t) ==
    /\ In(t, {"ready"})
    /\ Drain
    /\ Receive(CommandOf[t])
    /\ Goto(t, "echo")
    /\ UNCHANGED <<names, clock>>

\* Mutant of Retry: the attempts are not counted.
RetryForever(t) == Goto(t, "ready") /\ buffer' = <<>>

\* The loop goes round with an empty buffer, or gives up.
Retry(t) ==
    IF thread[t].attempt < Attempts
    THEN /\ thread' = [thread EXCEPT ![t].step = "ready", ![t].attempt = @ + 1]
         /\ buffer' = <<>>
    ELSE Goto(t, "failed") /\ UNCHANGED buffer

ReadEcho(t) ==
    /\ In(t, {"echo"}) /\ buffer # <<>>
    /\ IF Head(buffer) = Echo(CommandOf[t])
       THEN /\ thread' = [thread EXCEPT ![t].step = IF CommandOf[t] = "clock" THEN "pay" ELSE "address",
                                        ![t].attempt = 0, ![t].record = 1]
            /\ buffer' = Tail(buffer)
       ELSE Retry(t)
    /\ UNCHANGED <<names, max200, clock, line, disturbed>>

\* Mutant of EchoTimesOut: no answer is taken for the echo.
EchoAssumed(t) ==
    /\ In(t, {"echo"}) /\ buffer = <<>>
    /\ GivesUp
    /\ thread' = [thread EXCEPT ![t].step = IF CommandOf[t] = "clock" THEN "pay" ELSE "address",
                                ![t].attempt = 0, ![t].record = 1]
    /\ UNCHANGED <<names, max200, clock, line, buffer>>

EchoTimesOut(t) ==
    /\ In(t, {"echo"}) /\ buffer = <<>>
    /\ GivesUp
    /\ Retry(t)
    /\ UNCHANGED <<names, max200, clock, line>>

-----------------------------------------------------------------------------
(* The commands.                                                           *)

\* sync_clock: the bytes go out one by one.
WriteTime(t) ==
    /\ In(t, {"pay"})
    /\ ReceiveTime(t)
    /\ thread' = IF thread[t].record < RecordParts
                 THEN [thread EXCEPT ![t].record = @ + 1]
                 ELSE [thread EXCEPT ![t].step = "ok", ![t].record = 0]
    /\ UNCHANGED <<names, line, buffer, disturbed>>

\* _write_control_byte.
WriteAddress(t) ==
    /\ In(t, {"address"})
    /\ ReceiveAddress(thread[t].record)
    /\ Goto(t, "read")
    /\ UNCHANGED <<names, clock, buffer, disturbed>>

\* Mutant of NameIn: what came of a record is taken for its text.
AnyText(data) == IF data = <<>> THEN None ELSE Mixed

\* parse_output_name: too short is no name, anything else is the text it reads.
NameIn(data) ==
    IF Len(data) < RecordParts THEN None
    ELSE IF \E r \in 1..Records : data = Record(r)
         THEN CHOOSE r \in 1..Records : data = Record(r)
         ELSE Mixed

\* port.read returns what there is when its time is over.
ReadRecord(t) ==
    LET r == thread[t].record
        size == IF Len(buffer) < RecordParts THEN Len(buffer) ELSE RecordParts IN
    /\ In(t, {"read"})
    /\ names' = [names EXCEPT ![t][r] = NameIn(SubSeq(buffer, 1, size))]
    /\ buffer' = SubSeq(buffer, size + 1, Len(buffer))
    /\ IF size < RecordParts THEN GivesUp ELSE UNCHANGED disturbed
    /\ thread' = IF r < Records
                 THEN [thread EXCEPT ![t].step = "address", ![t].record = @ + 1]
                 ELSE [thread EXCEPT ![t].step = "ok", ![t].record = 0]
    /\ UNCHANGED <<max200, clock, line>>

\* A SerialException: caught in the handshake, the end of the command elsewhere.
Unplugged(t) ==
    /\ \/ In(t, {"ready", "echo"}) /\ Retry(t)
       \/ In(t, {"pay", "address", "read"}) /\ Goto(t, "failed") /\ UNCHANGED buffer
    /\ UNCHANGED <<names, max200, clock, line, disturbed>>

\* The device is closed, the result or the exception reaches the event loop.
Return(t) ==
    /\ In(t, {"ok", "failed"})
    /\ thread' = [thread EXCEPT ![t] = Idle]
    /\ names' = [names EXCEPT ![t] = NoNames]
    /\ UNCHANGED <<max200, clock, line, buffer, disturbed>>

-----------------------------------------------------------------------------
Init ==
    /\ thread = [t \in Threads |-> Idle]
    /\ names = [t \in Threads |-> NoNames]
    /\ max200 = Free
    /\ clock = None
    /\ line = <<>>
    /\ buffer = <<>>
    /\ disturbed = FALSE

Working(t) ==
    \/ WriteCommand(t) \/ ReadEcho(t) \/ EchoTimesOut(t)
    \/ WriteTime(t) \/ WriteAddress(t) \/ ReadRecord(t)
    \/ Unplugged(t) \/ Return(t)

Next ==
    \/ AnswerArrives \/ AnswerLost
    \/ \E t \in Threads : Open(t) \/ OpenFails(t) \/ Working(t)

Spec == Init /\ [][Next]_vars

\* Reads and sleeps end; nothing is promised of the Max200 or of the line.
Fairness == \A t \in Threads : WF_vars(Working(t))
FairSpec == Spec /\ Fairness

-----------------------------------------------------------------------------
TypeOK ==
    /\ thread \in [Threads -> ThreadStates]
    /\ names \in [Threads -> [1..Records -> (1..Records) \cup {None, Mixed}]]
    /\ max200 \in Max200States
    /\ clock \in Threads \cup {None}
    /\ line \in Seq(Parts) /\ Len(line) <= MaxLine
    /\ buffer \in Seq(Parts) /\ Len(buffer) <= MaxLine
    /\ disturbed \in BOOLEAN

\* A download may miss names but files none under another output, however many
\* answers are lost, however often the handshake is repeated and whatever a
\* download before it has left: unless a read gave up on an answer that came
\* after all, or another thread used the device (download_module_output_names,
\* download_mood_names, _handshake).
NamesBelong ==
    \A t \in Threads, r \in 1..Records : ~disturbed => names[t][r] \in {None, r}

\* A clock command that returns has set the clock, with the same exceptions: a
\* Max200 that did not answer is never taken for one that did (sync_clock).
OkMeansSet ==
    \A t \in Threads :
       In(t, {"ok"}) /\ CommandOf[t] = "clock" /\ ~disturbed => clock = t

\* A command ends, whatever the Max200 answers: a worker thread is not kept
\* (the read time-outs and SERIAL_HANDSHAKE_RETRIES).
CommandsEnd == \A t \in Threads : In(t, {"ready"}) ~> ~Busy(t)

=============================================================================
