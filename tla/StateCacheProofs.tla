------------------------- MODULE StateCacheProofs --------------------------
(***************************************************************************)
(* Proofs about StateCache for any outputs, writes and refreshes: the       *)
(* cache drifts only through overtaken writes, and a refresh settles on the *)
(* answer to its own request.                                              *)
(***************************************************************************)
EXTENDS StateCache, SequenceTheorems, FiniteSetTheorems, TLAPS

FrameType == [key : Keys, value : Values, dump : BOOLEAN]

Has(s, k) == \E i \in DOMAIN s : s[i].key = k

\* The last frame of s to k, if there is one, has the value v.
Latest(s, k, v) ==
    \A i \in DOMAIN s :
       (s[i].key = k /\ \A j \in DOMAIN s : j > i => s[j].key # k) => s[i].value = v

NoAnswer(s) == \A i \in DOMAIN s : ~s[i].dump

-----------------------------------------------------------------------------
(* Bursts of frames that are appended, and frames that are taken off.      *)

LEMMA BurstProperties ==
    ASSUME NEW S \in SUBSET Keys, NEW o \in Orders(S), NEW val,
           NEW burst \in [DOMAIN o -> FrameType],
           \A i \in DOMAIN o : burst[i].key = o[i] /\ burst[i].value = val[o[i]]
    PROVE  /\ burst \in Seq(FrameType) /\ Len(burst) = Cardinality(S)
           /\ Cardinality(S) \in Nat
           /\ \A i \in DOMAIN burst : burst[i].key \in S /\ burst[i].value = val[burst[i].key]
           /\ \A k \in S : Has(burst, k)
<1>1. Cardinality(S) \in Nat
  BY KeysAssumption, FS_Subset, FS_CardinalityType
<1>2. o \in [1..Cardinality(S) -> S] /\ \A x \in S : \E i \in DOMAIN o : o[i] = x
  BY DEF Orders
<1>3. burst \in [1..Cardinality(S) -> FrameType]
  BY <1>2
<1>4. burst \in Seq(FrameType) /\ Len(burst) = Cardinality(S)
  BY <1>1, <1>3
<1>5. \A i \in DOMAIN burst : burst[i].key \in S /\ burst[i].value = val[burst[i].key]
  BY <1>2
<1>6. \A k \in S : Has(burst, k)
  BY <1>2 DEF Has
<1> QED  BY <1>1, <1>4, <1>5, <1>6

\* What t = s \o burst says of their elements, and t = Tail(s) of theirs.
Joins(t, s, burst) ==
    /\ Len(t) = Len(s) + Len(burst)
    /\ \A i \in 1..Len(s) + Len(burst) :
          t[i] = IF i <= Len(s) THEN s[i] ELSE burst[i - Len(s)]
Drops(t, s) == Len(t) = Len(s) - 1 /\ \A i \in 1..Len(t) : t[i] = s[i + 1]

LEMMA Appended ==
    ASSUME NEW s \in Seq(FrameType), NEW burst \in Seq(FrameType), NEW k, NEW v,
           NEW t \in Seq(FrameType), Joins(t, s, burst)
    PROVE  /\ Has(t, k) <=> Has(s, k) \/ Has(burst, k)
           /\ Latest(burst, k, v) /\ (Has(burst, k) \/ Latest(s, k, v)) => Latest(t, k, v)
           /\ NoAnswer(s) /\ NoAnswer(burst) => NoAnswer(t)
<1> DEFINE n == Len(s)
           m == Len(burst)
<1>1. /\ t \in Seq(FrameType) /\ Len(t) = n + m /\ n \in Nat /\ m \in Nat
      /\ \A i \in 1..n+m : t[i] = IF i <= n THEN s[i] ELSE burst[i - n]
  BY LenProperties DEF Joins
<1>2. DOMAIN t = 1..n+m /\ DOMAIN s = 1..n /\ DOMAIN burst = 1..m
  BY <1>1, LenProperties
<1> HIDE DEF n, m
<1>3. \A i \in DOMAIN s : i \in DOMAIN t /\ t[i] = s[i]
  BY <1>1, <1>2
<1>4. \A i \in DOMAIN burst : i + n \in DOMAIN t /\ t[i + n] = burst[i]
  BY <1>1, <1>2
<1>5. \A i \in DOMAIN t : (i \in DOMAIN s) \/ (i - n \in DOMAIN burst /\ i > n)
  BY <1>1, <1>2
<1>6. \A i \in DOMAIN t : i - n \in DOMAIN burst /\ i > n => t[i] = burst[i - n]
  BY <1>1, <1>2
<1>7. Has(t, k) <=> Has(s, k) \/ Has(burst, k)
  BY <1>3, <1>4, <1>5, <1>6 DEF Has
<1>8. ASSUME Latest(burst, k, v), Has(burst, k) \/ Latest(s, k, v)
      PROVE  Latest(t, k, v)
  <2> SUFFICES ASSUME NEW i \in DOMAIN t, t[i].key = k,
                      \A j \in DOMAIN t : j > i => t[j].key # k
               PROVE  t[i].value = v
    BY DEF Latest
  <2>1. CASE i \in DOMAIN s
    <3>1. \A j \in DOMAIN burst : j + n > i
      BY <1>1, <1>2, <2>1
    <3>2. ~Has(burst, k)
      BY <1>4, <3>1 DEF Has
    <3>3. \A j \in DOMAIN s : j > i => s[j].key # k
      BY <1>3
    <3> QED  BY <1>3, <1>8, <2>1, <3>2, <3>3 DEF Latest
  <2>2. CASE i - n \in DOMAIN burst /\ i > n
    <3>1. \A j \in DOMAIN burst : j > i - n => j + n > i
      BY <1>1, <1>2, <2>2
    <3>2. \A j \in DOMAIN burst : j > i - n => burst[j].key # k
      BY <1>4, <3>1
    <3> QED  BY <1>6, <1>8, <2>2, <3>2 DEF Latest
  <2> QED  BY <1>5, <2>1, <2>2
<1>9. NoAnswer(s) /\ NoAnswer(burst) => NoAnswer(t)
  BY <1>3, <1>5, <1>6 DEF NoAnswer
<1> QED  BY <1>1, <1>7, <1>8, <1>9

LEMMA TakenOff ==
    ASSUME NEW s \in Seq(FrameType), s # <<>>, NEW k, NEW v,
           NEW t \in Seq(FrameType), Drops(t, s)
    PROVE  /\ Has(s, k) <=> s[1].key = k \/ Has(t, k)
           /\ Latest(s, k, v) => Latest(t, k, v)
           /\ Latest(s, k, v) /\ s[1].key = k /\ ~Has(t, k) => s[1].value = v
           /\ NoAnswer(s) => NoAnswer(t) /\ ~s[1].dump
<1> DEFINE n == Len(s)
<1>1. Len(t) = n - 1 /\ \A i \in 1..Len(t) : t[i] = s[i + 1]
  BY DEF Drops
<1>2. n \in Nat \ {0} /\ DOMAIN s = 1..n /\ DOMAIN t = 1..n-1
  BY <1>1, EmptySeq, LenProperties
<1> HIDE DEF n
<1>3. \A i \in DOMAIN t : i + 1 \in DOMAIN s /\ t[i] = s[i + 1]
  BY <1>1, <1>2
<1>4. 1 \in DOMAIN s /\ \A i \in DOMAIN s : i = 1 \/ (i - 1 \in DOMAIN t /\ t[i - 1] = s[i])
  BY <1>1, <1>2
<1>5. Has(s, k) <=> s[1].key = k \/ Has(t, k)
  BY <1>2, <1>3, <1>4 DEF Has
<1>6. ASSUME Latest(s, k, v) PROVE Latest(t, k, v)
  <2> SUFFICES ASSUME NEW i \in DOMAIN t, t[i].key = k,
                      \A j \in DOMAIN t : j > i => t[j].key # k
               PROVE  t[i].value = v
    BY DEF Latest
  <2>1. \A j \in DOMAIN s : j > i + 1 => j - 1 \in DOMAIN t /\ j - 1 > i
    BY <1>2
  <2>2. \A j \in DOMAIN s : j > i + 1 => s[j].key # k
    BY <1>2, <1>4, <2>1
  <2> QED  BY <1>3, <1>6, <2>2 DEF Latest
<1>7. ASSUME Latest(s, k, v), s[1].key = k, ~Has(t, k) PROVE s[1].value = v
  <2>1. \A j \in DOMAIN s : j > 1 => s[j].key # k
    BY <1>2, <1>4, <1>7 DEF Has
  <2> QED  BY <1>2, <1>4, <1>7, <2>1 DEF Latest
<1>8. NoAnswer(s) => NoAnswer(t) /\ ~s[1].dump
  BY <1>2, <1>3, <1>4 DEF NoAnswer
<1> QED  BY <1>5, <1>6, <1>7, <1>8

-----------------------------------------------------------------------------
(* Types.                                                                  *)

LEMMA WriteTypes ==
    ASSUME TypeOK, NEW w \in Writers, Pending(w)
    PROVE  /\ write[w] \in [step : {"queued", "sent"}, cmd : Commands, late : BOOLEAN]
           /\ write[w].cmd \in Commands /\ DOMAIN write[w].cmd \subseteq Keys
           /\ \A k \in DOMAIN write[w].cmd : write[w].cmd[k] \in Values
BY CommandsAssumption DEF TypeOK, WriteStates, Pending

\* A change of outputs: what it does to them and to the frames on the way.
LEMMA BroadcastsProperties ==
    ASSUME TypeOK, NEW change, DOMAIN change \subseteq Keys,
           \A k \in DOMAIN change : change[k] \in Values, Broadcasts(change)
    PROVE  /\ real' \in [Keys -> Values]
           /\ frames' \in Seq(FrameType) /\ Len(frames') <= MaxFrames
           /\ \A k \in Keys : real'[k] = IF k \in DOMAIN change THEN change[k] ELSE real[k]
           /\ link # "up" => UNCHANGED frames
           /\ link = "up" => \A k \in Keys :
                /\ Latest(frames, k, real[k]) => Latest(frames', k, real'[k])
                /\ Has(frames', k) \/ (~Has(frames, k) /\ real'[k] = real[k])
           /\ NoAnswer(frames) => NoAnswer(frames')
<1>1. /\ real' = [k \in Keys |-> IF k \in DOMAIN change THEN change[k] ELSE real[k]]
      /\ real' \in [Keys -> Values]
  BY DEF Broadcasts, TypeOK
<1>2. CASE link # "up"
  BY <1>1, <1>2 DEF Broadcasts, TypeOK, FrameType
<1>3. CASE link = "up"
  <2>1. PICK told \in SUBSET DOMAIN change :
           /\ \A k \in DOMAIN change \ told : change[k] = real[k]
           /\ Len(frames) + Cardinality(told) <= MaxFrames
           /\ \E o \in Orders(told) :
                 frames' = frames \o [i \in DOMAIN o |-> Frame(o[i], change[o[i]], FALSE)]
    BY <1>3 DEF Broadcasts
  <2> PICK o \in Orders(told) :
           frames' = frames \o [i \in DOMAIN o |-> Frame(o[i], change[o[i]], FALSE)]
    BY <2>1
  <2>0. PICK burst : burst = [i \in DOMAIN o |-> Frame(o[i], change[o[i]], FALSE)]
    OBVIOUS
  <2>2. /\ burst \in Seq(FrameType) /\ Len(burst) = Cardinality(told)
        /\ Cardinality(told) \in Nat
        /\ \A i \in DOMAIN burst : /\ burst[i].key \in told
                                   /\ burst[i].value = change[burst[i].key]
        /\ \A k \in told : Has(burst, k)
        /\ NoAnswer(burst)
    <3>1. told \in SUBSET Keys /\ (\A x \in told : change[x] \in Values)
      OBVIOUS
    <3>2. /\ DOMAIN burst = DOMAIN o /\ burst \in [DOMAIN o -> FrameType]
          /\ \A i \in DOMAIN o : /\ burst[i].key = o[i]
                                  /\ burst[i].value = change[o[i]] /\ ~burst[i].dump
      BY <2>0, <3>1 DEF Orders, Frame, FrameType
    <3> QED  BY <3>1, <3>2, BurstProperties DEF NoAnswer
  <2>3. frames \in Seq(FrameType) /\ frames' = frames \o burst
    BY <2>0 DEF TypeOK, FrameType
  <2>6. Joins(frames', frames, burst) /\ frames' \in Seq(FrameType)
    <3>1. /\ frames \o burst \in Seq(FrameType) /\ Len(frames \o burst) = Len(frames) + Len(burst)
          /\ \A i \in 1..Len(frames) + Len(burst) :
                (frames \o burst)[i] = IF i <= Len(frames) THEN frames[i] ELSE burst[i - Len(frames)]
      BY <2>2, <2>3, ConcatProperties
    <3> QED  BY <2>3, <3>1 DEF Joins
  <2>4. /\ frames' \in Seq(FrameType) /\ Len(frames') <= MaxFrames
        /\ NoAnswer(frames) => NoAnswer(frames')
    <3>2. Len(frames) \in Nat /\ MaxFrames \in Nat
      BY <2>3, LenProperties, FramesAssumption
    <3> QED  BY <2>1, <2>2, <2>3, <2>6, <3>2, Appended DEF Joins
  <2>5. ASSUME NEW k \in Keys
        PROVE  /\ Latest(frames, k, real[k]) => Latest(frames', k, real'[k])
               /\ Has(frames', k) \/ (~Has(frames, k) /\ real'[k] = real[k])
    <3>1. Has(burst, k) <=> k \in told
      BY <2>2 DEF Has
    <3>2. k \in told => real'[k] = change[k]
      BY <1>1, <2>1
    <3>3. k \notin told => real'[k] = real[k]
      BY <1>1, <2>1
    <3>4. Latest(burst, k, real'[k])
      BY <2>2, <3>2 DEF Latest
    <3>5. /\ Has(frames', k) <=> Has(frames, k) \/ k \in told
          /\ k \in told \/ Latest(frames, k, real'[k]) => Latest(frames', k, real'[k])
      BY <2>2, <2>3, <2>6, <3>1, <3>4, Appended
    <3> QED  BY <3>3, <3>5
  <2> QED  BY <1>1, <1>3, <2>4, <2>5
<1> QED  BY <1>2, <1>3

LEMMA OvertakesProperties ==
    ASSUME TypeOK, NEW change
    PROVE  /\ Overtakes(change) \in [Writers -> WriteStates]
           /\ \A w \in Writers :
                 /\ Overtakes(change)[w].step = write[w].step
                 /\ Pending(w) => Overtakes(change)[w] # Idle
                 /\ Overtakes(change)[w].cmd = write[w].cmd
                 /\ write[w].step = "sent" /\ ~Overtakes(change)[w].late
                       => ~write[w].late /\ DOMAIN change \cap DOMAIN write[w].cmd = {}
<1> DEFINE after(w) == IF write[w].step = "sent" /\ DOMAIN change \cap DOMAIN write[w].cmd # {}
                       THEN [write[w] EXCEPT !.late = TRUE] ELSE write[w]
<1>1. Overtakes(change) = [w \in Writers |-> after(w)]
  BY DEF Overtakes
<1>2. ASSUME NEW w \in Writers
      PROVE  /\ after(w) \in WriteStates
             /\ after(w).step = write[w].step /\ after(w).cmd = write[w].cmd
             /\ Pending(w) => after(w) # Idle
             /\ write[w].step = "sent" /\ ~after(w).late
                   => ~write[w].late /\ DOMAIN change \cap DOMAIN write[w].cmd = {}
  <2>1. CASE write[w].step = "sent" /\ DOMAIN change \cap DOMAIN write[w].cmd # {}
    <3>1. write[w] \in [step : {"queued", "sent"}, cmd : Commands, late : BOOLEAN]
      BY <2>1, WriteTypes DEF Pending, Idle
    <3>2. after(w) = [write[w] EXCEPT !.late = TRUE]
      BY <2>1
    <3> QED  BY <2>1, <3>1, <3>2 DEF WriteStates, Idle
  <2>2. CASE ~(write[w].step = "sent" /\ DOMAIN change \cap DOMAIN write[w].cmd # {})
    <3>1. after(w) = write[w]
      BY <2>2
    <3>2. write[w] \in WriteStates
      BY DEF TypeOK
    <3> QED  BY <2>2, <3>1, <3>2 DEF Pending
  <2> QED  BY <2>1, <2>2
<1> HIDE DEF after
<1> QED  BY <1>1, <1>2

LEMMA AnswersDumpProperties ==
    ASSUME TypeOK, AnswersDump
    PROVE  /\ frames' \in Seq(FrameType) /\ Len(frames') <= MaxFrames
           /\ \A k \in Keys : Has(frames', k) /\ Latest(frames', k, real[k])
<1>1. PICK o \in Orders(Keys) :
         frames' = frames \o [i \in DOMAIN o |-> Frame(o[i], real[o[i]], TRUE)]
  BY DEF AnswersDump
<1>2. PICK burst : burst = [i \in DOMAIN o |-> Frame(o[i], real[o[i]], TRUE)]
  OBVIOUS
<1>3. /\ burst \in [DOMAIN o -> FrameType]
      /\ \A i \in DOMAIN o : burst[i].key = o[i] /\ burst[i].value = real[o[i]]
  BY <1>2 DEF Orders, Frame, FrameType, TypeOK
<1>4. /\ burst \in Seq(FrameType) /\ Len(burst) = Cardinality(Keys)
      /\ Cardinality(Keys) \in Nat
      /\ \A i \in DOMAIN burst : burst[i].key \in Keys /\ burst[i].value = real[burst[i].key]
      /\ \A k \in Keys : Has(burst, k)
  BY <1>3, BurstProperties
<1>5. frames \in Seq(FrameType) /\ frames' = frames \o burst
  BY <1>1, <1>2 DEF TypeOK, FrameType
<1>6. /\ frames \o burst \in Seq(FrameType) /\ Len(frames \o burst) = Len(frames) + Len(burst)
      /\ \A i \in 1..Len(frames) + Len(burst) :
            (frames \o burst)[i] = IF i <= Len(frames) THEN frames[i] ELSE burst[i - Len(frames)]
  BY <1>4, <1>5, ConcatProperties
<1>7. Joins(frames', frames, burst) /\ frames' \in Seq(FrameType)
  BY <1>5, <1>6 DEF Joins
<1>8. Len(frames') <= MaxFrames
  BY <1>4, <1>7 DEF AnswersDump, Joins
<1>9. ASSUME NEW k \in Keys PROVE Has(frames', k) /\ Latest(frames', k, real[k])
  <2>1. Latest(burst, k, real[k])
    BY <1>4 DEF Latest
  <2> QED  BY <1>4, <1>5, <1>7, <2>1, Appended
<1> QED  BY <1>7, <1>8, <1>9

LEMMA IngestProperties ==
    ASSUME TypeOK, Ingest
    PROVE  /\ frames \in Seq(FrameType) /\ frames # <<>>
           /\ frames' \in Seq(FrameType) /\ Drops(frames', frames)
           /\ Len(frames') <= MaxFrames
           /\ Head(frames) = frames[1] /\ frames[1] \in FrameType
<1>1. frames \in Seq(FrameType) /\ frames # <<>> /\ frames' = Tail(frames)
  BY DEF Ingest, TypeOK, FrameType
<1>2. /\ Head(frames) \in FrameType /\ Tail(frames) \in Seq(FrameType)
      /\ Len(Tail(frames)) = Len(frames) - 1
      /\ \A i \in 1..Len(Tail(frames)) : Tail(frames)[i] = frames[i + 1]
  BY <1>1, HeadTailProperties
<1>3. Len(frames) \in Nat /\ Len(frames) <= MaxFrames /\ MaxFrames \in Nat
  BY <1>1, LenProperties, FramesAssumption DEF TypeOK
<1>4. Head(frames) = frames[1]
  BY <1>1
<1> QED  BY <1>1, <1>2, <1>3, <1>4 DEF Drops

LEMMA TypeStep == TypeOK /\ [Next]_vars => TypeOK'
<1> SUFFICES ASSUME TypeOK, [Next]_vars PROVE TypeOK'
  OBVIOUS
<1> USE FramesAssumption
<1>0. /\ real \in [Keys -> Values] /\ frames \in Seq(FrameType) /\ Len(frames) <= MaxFrames
      /\ <<>> \in Seq(FrameType) /\ Len(<<>>) <= MaxFrames
  BY EmptySeq DEF TypeOK, FrameType
<1>1. CASE WallSwitch
  <2>1. PICK k \in Keys, v \in Values :
           /\ Broadcasts([x \in {k} |-> v])
           /\ write' = Overtakes([x \in {k} |-> v])
    BY <1>1 DEF WallSwitch
  <2>2. /\ DOMAIN [x \in {k} |-> v] \subseteq Keys
        /\ \A z \in DOMAIN [x \in {k} |-> v] : [x \in {k} |-> v][z] \in Values
    OBVIOUS
  <2>3. /\ real' \in [Keys -> Values] /\ frames' \in Seq(FrameType) /\ Len(frames') <= MaxFrames
    BY <2>1, <2>2, BroadcastsProperties
  <2>4. write' \in [Writers -> WriteStates]
    BY <2>1, OvertakesProperties
  <2> QED  BY <1>1, <2>3, <2>4 DEF WallSwitch, TypeOK, FrameType, cacheVars, refreshVars
<1>2. CASE AnswersDump
  BY <1>2, AnswersDumpProperties DEF AnswersDump, TypeOK, FrameType, cacheVars, refreshVars
<1>3. CASE \E timer \in {1, 2} : Flush(timer)
  BY <1>3 DEF Flush, TypeOK, refreshVars
<1>4. CASE Ingest
  <2>1. frames' \in Seq(FrameType) /\ Len(frames') <= MaxFrames /\ Head(frames) \in FrameType
    BY <1>4, IngestProperties
  <2>2. states' \in [Keys -> Values \cup {None}] /\ debounce' \in 0..2 /\ shown' = shown
    BY <1>4, <2>1 DEF Ingest, Apply, TypeOK, FrameType, cacheVars
  <2>3. fired' \in BOOLEAN /\ disturbed' \in BOOLEAN
    BY <1>4, <2>1 DEF Ingest, Signal, TypeOK, FrameType
  <2>4. raced' \in [Keys -> BOOLEAN]
    BY <1>4, <2>1 DEF Ingest, TypeOK, FrameType
  <2> QED  BY <1>4, <2>1, <2>2, <2>3, <2>4 DEF Ingest, TypeOK, FrameType
<1>5. ASSUME NEW w \in Writers, BeginWrite(w) PROVE TypeOK'
  <2>1. PICK c \in Commands :
           write' = [write EXCEPT ![w] = [step |-> "queued", cmd |-> c, late |-> FALSE]]
    BY <1>5 DEF BeginWrite
  <2>2. write' \in [Writers -> WriteStates]
    BY <2>1 DEF TypeOK, WriteStates
  <2> QED  BY <1>5, <2>2 DEF BeginWrite, TypeOK, cacheVars, refreshVars
<1>6. ASSUME NEW w \in Writers, WriteReaches(w) PROVE TypeOK'
  <2>1. /\ write[w].cmd \in Commands /\ DOMAIN write[w].cmd \subseteq Keys
        /\ \A k \in DOMAIN write[w].cmd : write[w].cmd[k] \in Values
    BY <1>6, WriteTypes DEF WriteReaches
  <2>2. /\ real' \in [Keys -> Values] /\ frames' \in Seq(FrameType) /\ Len(frames') <= MaxFrames
    BY <1>6, <2>1, BroadcastsProperties DEF WriteReaches
  <2>3. PICK o : o = Overtakes(write[w].cmd)
    OBVIOUS
  <2>4. o \in [Writers -> WriteStates] /\ o[w] # Idle
    BY <1>6, <2>3, OvertakesProperties DEF WriteReaches
  <2>5. [o[w] EXCEPT !.step = "sent"] \in WriteStates
    BY <2>4 DEF WriteStates
  <2>6. write' \in [Writers -> WriteStates]
    BY <1>6, <2>3, <2>4, <2>5 DEF WriteReaches
  <2> QED  BY <1>6, <2>2, <2>6 DEF WriteReaches, TypeOK, FrameType, cacheVars, refreshVars
<1>7. ASSUME NEW w \in Writers, WriteIsLost(w) PROVE TypeOK'
  <2>1. write[w] \in [step : {"queued", "sent"}, cmd : Commands, late : BOOLEAN]
    BY <1>7, WriteTypes DEF WriteIsLost
  <2>2. [[write[w] EXCEPT !.step = "sent"] EXCEPT !.late = TRUE] \in WriteStates
    BY <2>1 DEF WriteStates
  <2>3. write' \in [Writers -> WriteStates]
    BY <1>7, <2>2 DEF WriteIsLost, TypeOK, WriteStates
  <2> QED  BY <1>7, <2>3 DEF WriteIsLost, TypeOK, cacheVars, refreshVars
<1>8. ASSUME NEW w \in Writers, WriteApplies(w) PROVE TypeOK'
  <2>1. /\ write[w] \in [step : {"queued", "sent"}, cmd : Commands, late : BOOLEAN]
        /\ \A k \in DOMAIN write[w].cmd : write[w].cmd[k] \in Values
    BY <1>8, WriteTypes DEF WriteApplies
  <2>2. states' \in [Keys -> Values \cup {None}] /\ debounce' \in 0..2
    BY <1>8, <2>1 DEF WriteApplies, Apply, TypeOK
  <2>3. raced' \in [Keys -> BOOLEAN] /\ write' \in [Writers -> WriteStates]
    BY <1>8, <2>1 DEF WriteApplies, TypeOK, WriteStates
  <2> QED  BY <1>8, <2>2, <2>3 DEF WriteApplies, Apply, TypeOK, refreshVars
<1>9. ASSUME NEW r \in Refreshers, BeginRefresh(r) \/ TakeLock(r) PROVE TypeOK'
  BY <1>9 DEF BeginRefresh, TakeLock, TypeOK, cacheVars
<1>10. ASSUME NEW r \in Refreshers, AskDump(r) PROVE TypeOK'
  <2>1. disturbed' \in BOOLEAN /\ asked' \in BOOLEAN
    BY <1>10 DEF AskDump, TypeOK
  <2> QED  BY <1>10, <2>1 DEF AskDump, Leave, TypeOK, cacheVars
<1>11. ASSUME NEW r \in Refreshers, SeesArrival(r) \/ DrainIdle(r) \/ RefreshTimesOut(r) \/ PushCache(r)
       PROVE  TypeOK'
  BY <1>11 DEF SeesArrival, DrainIdle, RefreshTimesOut, PushCache, Leave, TypeOK, cacheVars
<1>12. CASE RequestDump \/ LinkBreaks \/ Reconnect
  BY <1>0, <1>12 DEF RequestDump, LinkBreaks, Reconnect, TypeOK, FrameType, cacheVars, refreshVars
<1>13. CASE UNCHANGED vars
  BY <1>13 DEF vars, TypeOK
<1> QED  BY <1>1, <1>2, <1>3, <1>4, <1>5, <1>6, <1>7, <1>8, <1>9, <1>10, <1>11, <1>12, <1>13
         DEF Next, Max200, Writing, Refreshing

\* Every variable of the cache, its writes and its refreshes keeps its type
\* (controller.py), for any outputs, values and tasks.
THEOREM TypeCorrect == Spec => []TypeOK
<1>1. Init => TypeOK
  <2>1. <<>> \in Seq([key : Keys, value : Values, dump : BOOLEAN]) /\ Len(<<>>) = 0
    BY EmptySeq
  <2> SUFFICES ASSUME Init PROVE TypeOK
    OBVIOUS
  <2>2. write \in [Writers -> WriteStates]
    BY DEF Init, WriteStates
  <2>3. frames = <<>> /\ Len(frames) <= MaxFrames
    BY <2>1, FramesAssumption DEF Init
  <2>4. states \in [Keys -> Values \cup {None}] /\ shown = states /\ raced \in [Keys -> BOOLEAN]
    BY DEF Init
  <2>5. refresh \in [Refreshers -> {"idle", "queueing", "asking", "waiting", "draining",
                                   "settled", "over"}]
    BY DEF Init
  <2>6. frames \in Seq([key : Keys, value : Values, dump : BOOLEAN]) /\ real \in [Keys -> Values]
    BY <2>1, <2>3 DEF Init
  <2>7. /\ link \in {"up", "deaf"} /\ debounce \in 0..2
        /\ lock \in Refreshers \cup {None} /\ arrival \in Refreshers \cup {None}
    BY DEF Init
  <2>8. asked \in BOOLEAN /\ fired \in BOOLEAN /\ disturbed \in BOOLEAN
    BY Zenon DEF Init
  <2> QED  BY <2>2, <2>3, <2>4, <2>5, <2>6, <2>7, <2>8, Zenon DEF TypeOK
<1> QED  BY <1>1, TypeStep, PTL DEF Spec

-----------------------------------------------------------------------------
(* The event of a refresh.                                                 *)

InProgress == {"asking", "waiting", "draining"}

\* Only the holder of the lock is in progress, and it has the event.
Held == \A r \in Refreshers : refresh[r] \in InProgress => lock = r /\ arrival = r

LEMMA HeldStep == TypeOK /\ Held /\ [Next]_vars => Held'
<1> SUFFICES ASSUME TypeOK, Held, [Next]_vars PROVE Held'
  OBVIOUS
<1> USE DEF InProgress
<1>1. CASE UNCHANGED <<refresh, lock, arrival>>
  BY <1>1 DEF Held
<1>2. ASSUME NEW r \in Refreshers, TakeLock(r) PROVE Held'
  <2>1. \A q \in Refreshers : refresh[q] \notin InProgress
    BY <1>2, NoneUnused DEF TakeLock, LockFree, Held
  <2> QED  BY <1>2, <2>1 DEF TakeLock, Held, TypeOK
<1>3. ASSUME NEW r \in Refreshers, refresh[r] \in InProgress, NEW how \in {"settled", "over"},
             Leave(r, how)
      PROVE  Held'
  BY <1>3 DEF Leave, Held, TypeOK
<1>4. ASSUME NEW r \in Refreshers, AskDump(r) PROVE Held'
  <2>1. CASE refresh' = [refresh EXCEPT ![r] = "waiting"] /\ UNCHANGED <<lock, arrival>>
    BY <1>4, <2>1 DEF AskDump, Held, TypeOK
  <2> QED  BY <1>3, <1>4, <2>1 DEF AskDump
<1>5. ASSUME NEW r \in Refreshers, DrainIdle(r) \/ RefreshTimesOut(r) PROVE Held'
  BY <1>3, <1>5 DEF DrainIdle, RefreshTimesOut
<1>6. ASSUME NEW r \in Refreshers, BeginRefresh(r) \/ SeesArrival(r) \/ PushCache(r) PROVE Held'
  BY <1>6 DEF BeginRefresh, SeesArrival, PushCache, Held, TypeOK
<1>7. \/ UNCHANGED <<refresh, lock, arrival>>
      \/ \E r \in Refreshers : \/ BeginRefresh(r) \/ TakeLock(r) \/ AskDump(r) \/ SeesArrival(r)
                               \/ DrainIdle(r) \/ RefreshTimesOut(r) \/ PushCache(r)
  BY DEF Next, Max200, WallSwitch, AnswersDump, Flush, Ingest, BeginWrite, Writing, WriteReaches,
         WriteIsLost, WriteApplies, Refreshing, RequestDump, LinkBreaks, Reconnect, refreshVars, vars
<1> QED  BY <1>1, <1>2, <1>4, <1>5, <1>6, <1>7

\* For any number of overlapping refreshes: one that is in progress holds the lock
\* and has the event, so that the others wait for it alone (_refresh_lock).
THEOREM RefreshesTakeTurns == Spec => []Held
<1>1. Init => Held
  BY DEF Init, Held, InProgress
<1> QED  BY TypeCorrect, HeldStep, <1>1, PTL DEF Spec

\* For any number of overlapping refreshes: the event a refresh sleeps on is the
\* one that frames fire (async_refresh_and_settle).
THEOREM RefreshIsSignalled == Spec => []WaiterIsSignalled
<1>1. Held => WaiterIsSignalled
  BY DEF Held, InProgress, WaiterIsSignalled
<1> QED  BY RefreshesTakeTurns, <1>1, PTL

-----------------------------------------------------------------------------
(* What a refresh settles on.                                              *)

\* Nothing is on a broken link; and while the answer to an undisturbed refresh
\* is still to come, no frame that could be it is there or has been heard.
AnswerIsAwaited ==
    /\ link = "deaf" => ~asked /\ frames = <<>>
    /\ \A r \in Refreshers :
          refresh[r] \in {"waiting", "draining"} /\ ~disturbed /\ (asked \/ link = "deaf")
             => refresh[r] = "waiting" /\ ~fired /\ NoAnswer(frames)

LEMMA AwaitedStep == TypeOK /\ Held /\ AnswerIsAwaited /\ [Next]_vars => AnswerIsAwaited'
<1> SUFFICES ASSUME TypeOK, Held, AnswerIsAwaited, [Next]_vars PROVE AnswerIsAwaited'
  OBVIOUS
<1>1. ASSUME NEW change, DOMAIN change \subseteq Keys, Broadcasts(change),
             \A k \in DOMAIN change : change[k] \in Values, UNCHANGED <<asked, link, refreshVars>>
      PROVE  AnswerIsAwaited'
  <2>1. (link # "up" => UNCHANGED frames) /\ (NoAnswer(frames) => NoAnswer(frames'))
    BY <1>1, BroadcastsProperties
  <2> QED  BY <1>1, <2>1 DEF AnswerIsAwaited, refreshVars
<1>2. CASE WallSwitch
  <2>1. PICK k \in Keys, v \in Values : Broadcasts([x \in {k} |-> v])
    BY <1>2 DEF WallSwitch
  <2>2. /\ DOMAIN [x \in {k} |-> v] \subseteq Keys
        /\ \A z \in DOMAIN [x \in {k} |-> v] : [x \in {k} |-> v][z] \in Values
    OBVIOUS
  <2>3. UNCHANGED <<asked, link, refreshVars>>
    BY <1>2 DEF WallSwitch
  <2> QED  BY <1>1, <2>1, <2>2, <2>3
<1>3. ASSUME NEW w \in Writers, WriteReaches(w) PROVE AnswerIsAwaited'
  <2>1. /\ DOMAIN write[w].cmd \subseteq Keys
        /\ \A k \in DOMAIN write[w].cmd : write[w].cmd[k] \in Values
    BY <1>3, WriteTypes DEF WriteReaches
  <2> QED  BY <1>1, <1>3, <2>1 DEF WriteReaches
<1>4. CASE AnswersDump
  BY <1>4 DEF AnswersDump, AnswerIsAwaited, refreshVars
<1>5. CASE Ingest
  <2>1. /\ frames # <<>> /\ frames' \in Seq(FrameType)
        /\ NoAnswer(frames) => NoAnswer(frames') /\ ~Head(frames).dump
    BY <1>5, IngestProperties, TakenOff
  <2>2. link # "deaf" /\ UNCHANGED <<asked, link, refresh>>
    BY <1>5, <2>1 DEF Ingest, AnswerIsAwaited
  <2>3. \A r \in Refreshers : refresh[r] \in {"waiting", "draining"} => arrival # None
    BY NoneUnused DEF Held, InProgress
  <2>4. Signal(Head(frames))
    BY <1>5 DEF Ingest
  <2> QED  BY <2>1, <2>2, <2>3, <2>4 DEF AnswerIsAwaited, Signal
<1>6. ASSUME NEW r \in Refreshers, TakeLock(r) PROVE AnswerIsAwaited'
  <2>1. \A q \in Refreshers : refresh'[q] \notin {"waiting", "draining"}
    BY <1>6, NoneUnused DEF TakeLock, LockFree, Held, InProgress, TypeOK
  <2> QED  BY <1>6, <2>1 DEF TakeLock, AnswerIsAwaited
<1>7. ASSUME NEW r \in Refreshers, refresh[r] \in InProgress, NEW how \in {"settled", "over"},
             Leave(r, how), UNCHANGED <<asked, link, frames>>
      PROVE  AnswerIsAwaited'
  <2>1. \A q \in Refreshers : refresh'[q] \notin {"waiting", "draining"}
    BY <1>7 DEF Leave, Held, InProgress, TypeOK
  <2> QED  BY <1>7, <2>1 DEF AnswerIsAwaited
<1>8. ASSUME NEW r \in Refreshers, AskDump(r) PROVE AnswerIsAwaited'
  <2>1. CASE /\ asked' = (asked \/ link = "up")
             /\ refresh' = [refresh EXCEPT ![r] = "waiting"]
             /\ UNCHANGED fired
             /\ disturbed' = (fired \/ asked \/ frames # <<>>)
    <3>1. \A q \in Refreshers : refresh'[q] \in {"waiting", "draining"} => q = r
      BY <1>8, <2>1 DEF AskDump, Held, InProgress, TypeOK
    <3>2. refresh'[r] = "waiting"
      BY <2>1 DEF TypeOK
    <3>3. UNCHANGED <<frames, link>>
      BY <1>8 DEF AskDump
    <3>4. frames = <<>> => NoAnswer(frames)
      BY DEF NoAnswer
    <3> QED  BY <2>1, <3>1, <3>2, <3>3, <3>4 DEF AnswerIsAwaited
  <2>2. CASE Leave(r, "over") /\ UNCHANGED asked
    BY <1>7, <1>8, <2>2 DEF AskDump, InProgress
  <2> QED  BY <1>8, <2>1, <2>2 DEF AskDump
<1>9. ASSUME NEW r \in Refreshers, DrainIdle(r) \/ RefreshTimesOut(r) PROVE AnswerIsAwaited'
  BY <1>7, <1>9 DEF DrainIdle, RefreshTimesOut, InProgress
<1>10. ASSUME NEW r \in Refreshers, SeesArrival(r) PROVE AnswerIsAwaited'
  <2>1. \A q \in Refreshers : refresh'[q] \in {"waiting", "draining"} =>
           refresh[q] \in {"waiting", "draining"}
    BY <1>10 DEF SeesArrival, TypeOK
  <2> QED  BY <1>10, <2>1 DEF SeesArrival, AnswerIsAwaited, Held, InProgress
<1>11. ASSUME NEW r \in Refreshers, BeginRefresh(r) \/ PushCache(r) PROVE AnswerIsAwaited'
  BY <1>11 DEF BeginRefresh, PushCache, AnswerIsAwaited, TypeOK
<1>12. CASE RequestDump \/ LinkBreaks
  BY <1>12 DEF RequestDump, LinkBreaks, AnswerIsAwaited
<1>13. CASE Reconnect
  BY <1>13 DEF Reconnect, AnswerIsAwaited, refreshVars
<1>14. CASE UNCHANGED <<asked, link, frames, refresh, fired, disturbed>>
  BY <1>14 DEF AnswerIsAwaited
<1>15. \/ UNCHANGED <<asked, link, frames, refresh, fired, disturbed>>
       \/ WallSwitch \/ AnswersDump \/ Ingest \/ RequestDump \/ LinkBreaks \/ Reconnect
       \/ \E w \in Writers : WriteReaches(w)
       \/ \E r \in Refreshers : \/ BeginRefresh(r) \/ TakeLock(r) \/ AskDump(r) \/ SeesArrival(r)
                                \/ DrainIdle(r) \/ RefreshTimesOut(r) \/ PushCache(r)
  BY DEF Next, Max200, Flush, BeginWrite, Writing, WriteIsLost, WriteApplies, Refreshing, refreshVars, vars
<1> QED  BY <1>2, <1>3, <1>4, <1>5, <1>6, <1>8, <1>9, <1>10, <1>11, <1>12, <1>13, <1>14, <1>15

-----------------------------------------------------------------------------
(* The cache and the outputs.                                              *)

\* A write that is on its way back to the cache, and was not overtaken, holds
\* what its outputs have.
WritesAreCurrent ==
    \A w \in Writers :
       write[w].step = "sent" /\ ~write[w].late
          => \A k \in DOMAIN write[w].cmd : real[k] = write[w].cmd[k]

\* What is known of k on the host is what it has, or the last frame will say so.
InformedOf(k) == Latest(frames, k, real[k]) /\ (Has(frames, k) \/ raced[k] \/ states[k] = real[k])
CacheFollows == link = "up" /\ ~asked => \A k \in Keys : InformedOf(k)

LEMMA WritesStep == TypeOK /\ WritesAreCurrent /\ [Next]_vars => WritesAreCurrent'
<1> SUFFICES ASSUME TypeOK, WritesAreCurrent, [Next]_vars PROVE WritesAreCurrent'
  OBVIOUS
<1>1. CASE WallSwitch
  <2>1. PICK k \in Keys, v \in Values :
           /\ Broadcasts([x \in {k} |-> v])
           /\ write' = Overtakes([x \in {k} |-> v])
    BY <1>1 DEF WallSwitch
  <2>2. PICK change : change = [x \in {k} |-> v]
    OBVIOUS
  <2>3. \A x \in Keys \ DOMAIN change : real'[x] = real[x]
    BY <2>1, <2>2 DEF Broadcasts
  <2>4. ASSUME NEW w \in Writers, write'[w].step = "sent", ~write'[w].late
        PROVE  \A x \in DOMAIN write'[w].cmd : real'[x] = write'[w].cmd[x]
    <3>1. /\ write[w].step = "sent" /\ ~write[w].late /\ write'[w].cmd = write[w].cmd
          /\ DOMAIN change \cap DOMAIN write[w].cmd = {}
      BY <2>1, <2>2, <2>4, OvertakesProperties
    <3>2. DOMAIN write[w].cmd \subseteq Keys
      BY <3>1, WriteTypes DEF Pending, Idle
    <3> QED  BY <2>3, <3>1, <3>2 DEF WritesAreCurrent
  <2> QED  BY <2>4 DEF WritesAreCurrent
<1>2. ASSUME NEW w \in Writers, WriteReaches(w) PROVE WritesAreCurrent'
  <2>1. PICK o : o = Overtakes(write[w].cmd)
    OBVIOUS
  <2>2. o \in [Writers -> WriteStates] /\ o[w] # Idle /\ o[w].cmd = write[w].cmd
    BY <1>2, <2>1, OvertakesProperties DEF WriteReaches
  <2>3. write' = [o EXCEPT ![w].step = "sent"]
    BY <1>2, <2>1 DEF WriteReaches
  <2>4. \A x \in Keys : real'[x] = IF x \in DOMAIN write[w].cmd THEN write[w].cmd[x] ELSE real[x]
    BY <1>2 DEF WriteReaches, Broadcasts
  <2>5. DOMAIN write[w].cmd \subseteq Keys
    BY <1>2, WriteTypes DEF WriteReaches
  <2>6. \A x \in DOMAIN write'[w].cmd : real'[x] = write'[w].cmd[x]
    <3>1. write'[w] = [o[w] EXCEPT !.step = "sent"]
      BY <2>2, <2>3
    <3>2. write'[w].cmd = write[w].cmd
      BY <2>2, <3>1 DEF WriteStates
    <3> QED  BY <2>4, <2>5, <3>2
  <2>7. ASSUME NEW u \in Writers \ {w}, write'[u].step = "sent", ~write'[u].late
        PROVE  \A x \in DOMAIN write'[u].cmd : real'[x] = write'[u].cmd[x]
    <3>1. write'[u] = o[u]
      BY <2>2, <2>3
    <3>2. /\ write[u].step = "sent" /\ ~write[u].late /\ write'[u].cmd = write[u].cmd
          /\ DOMAIN write[w].cmd \cap DOMAIN write[u].cmd = {}
      BY <2>1, <2>7, <3>1, OvertakesProperties
    <3>3. DOMAIN write[u].cmd \subseteq Keys
      BY <3>2, WriteTypes DEF Pending, Idle
    <3> QED  BY <2>4, <3>2, <3>3 DEF WritesAreCurrent
  <2> QED  BY <2>6, <2>7 DEF WritesAreCurrent
<1>3. ASSUME NEW w \in Writers, BeginWrite(w) PROVE WritesAreCurrent'
  <2>1. write'[w].step = "queued" /\ \A u \in Writers \ {w} : write'[u] = write[u]
    BY <1>3 DEF BeginWrite, TypeOK
  <2> QED  BY <1>3, <2>1 DEF BeginWrite, WritesAreCurrent
<1>4. ASSUME NEW w \in Writers, WriteIsLost(w) \/ WriteApplies(w) PROVE WritesAreCurrent'
  <2>1. write[w] \in [step : {"queued", "sent"}, cmd : Commands, late : BOOLEAN]
    BY <1>4, WriteTypes DEF WriteIsLost, WriteApplies
  <2>2. /\ write'[w] = Idle \/ write'[w].late
        /\ \A u \in Writers \ {w} : write'[u] = write[u]
    BY <1>4, <2>1 DEF WriteIsLost, WriteApplies, TypeOK
  <2>3. real' = real /\ Idle.step # "sent"
    BY <1>4 DEF WriteIsLost, WriteApplies, Idle
  <2> QED  BY <2>2, <2>3 DEF WritesAreCurrent
<1>5. CASE UNCHANGED <<real, write>>
  BY <1>5 DEF WritesAreCurrent
<1>6. \/ UNCHANGED <<real, write>> \/ WallSwitch
      \/ \E w \in Writers : BeginWrite(w) \/ WriteReaches(w) \/ WriteIsLost(w) \/ WriteApplies(w)
  BY DEF Next, Max200, AnswersDump, Flush, Ingest, Writing, BeginRefresh, Refreshing, TakeLock, AskDump,
         SeesArrival, DrainIdle, RefreshTimesOut, PushCache, RequestDump, LinkBreaks, Reconnect, vars
<1> QED  BY <1>1, <1>2, <1>3, <1>4, <1>5, <1>6

LEMMA CacheStep == TypeOK /\ WritesAreCurrent /\ CacheFollows /\ [Next]_vars => CacheFollows'
<1> SUFFICES ASSUME TypeOK, WritesAreCurrent, CacheFollows, [Next]_vars,
                    link' = "up", ~asked', NEW k \in Keys
             PROVE  InformedOf(k)'
  BY DEF CacheFollows
<1>1. ASSUME NEW change, DOMAIN change \subseteq Keys, Broadcasts(change),
             \A x \in DOMAIN change : change[x] \in Values, UNCHANGED <<asked, link, raced, states>>
      PROVE  InformedOf(k)'
  BY <1>1, BroadcastsProperties DEF CacheFollows, InformedOf
<1>2. CASE WallSwitch
  <2>1. PICK y \in Keys, v \in Values : Broadcasts([x \in {y} |-> v])
    BY <1>2 DEF WallSwitch
  <2>2. /\ DOMAIN [x \in {y} |-> v] \subseteq Keys
        /\ \A z \in DOMAIN [x \in {y} |-> v] : [x \in {y} |-> v][z] \in Values
    OBVIOUS
  <2>3. UNCHANGED <<asked, link, raced, states>>
    BY <1>2 DEF WallSwitch, cacheVars
  <2> QED  BY <1>1, <2>1, <2>2, <2>3
<1>3. ASSUME NEW w \in Writers, WriteReaches(w) PROVE InformedOf(k)'
  <2>1. /\ DOMAIN write[w].cmd \subseteq Keys
        /\ \A x \in DOMAIN write[w].cmd : write[w].cmd[x] \in Values
    BY <1>3, WriteTypes DEF WriteReaches
  <2> QED  BY <1>1, <1>3, <2>1 DEF WriteReaches, cacheVars
<1>4. CASE AnswersDump
  BY <1>4, AnswersDumpProperties DEF AnswersDump, InformedOf
<1>5. CASE Ingest
  <2>1. /\ frames \in Seq(FrameType) /\ frames # <<>>
        /\ frames' \in Seq(FrameType) /\ Drops(frames', frames)
        /\ Head(frames) = frames[1] /\ frames[1] \in FrameType
    BY <1>5, IngestProperties
  <2>2. InformedOf(k) /\ UNCHANGED <<real, link, asked>>
    BY <1>5 DEF Ingest, CacheFollows
  <2>3. /\ Has(frames, k) <=> frames[1].key = k \/ Has(frames', k)
        /\ Latest(frames', k, real[k])
        /\ frames[1].key = k /\ ~Has(frames', k) => frames[1].value = real[k]
    BY <2>1, <2>2, TakenOff DEF InformedOf
  <2>4. CASE frames[1].key = k
    <3>1. states'[k] = frames[1].value
      BY <1>5, <2>1, <2>4 DEF Ingest, Apply, cacheVars
    <3> QED  BY <2>2, <2>3, <2>4, <3>1 DEF InformedOf
  <2>5. CASE frames[1].key # k
    <3>1. states'[k] = states[k] /\ raced'[k] = raced[k]
      BY <1>5, <2>1, <2>5 DEF Ingest, Apply, cacheVars, TypeOK
    <3> QED  BY <2>2, <2>3, <2>5, <3>1 DEF InformedOf
  <2> QED  BY <2>4, <2>5
<1>6. ASSUME NEW w \in Writers, WriteApplies(w) PROVE InformedOf(k)'
  <2>1. InformedOf(k) /\ UNCHANGED <<real, frames>>
    BY <1>6 DEF WriteApplies, CacheFollows
  <2>2. CASE k \in DOMAIN write[w].cmd
    <3>1. states'[k] = write[w].cmd[k] /\ raced'[k] = write[w].late
      BY <1>6, <2>2 DEF WriteApplies, Apply
    <3>2. ~write[w].late => real[k] = write[w].cmd[k]
      BY <1>6, <2>2 DEF WriteApplies, WritesAreCurrent
    <3> QED  BY <2>1, <3>1, <3>2 DEF InformedOf
  <2>3. CASE k \notin DOMAIN write[w].cmd
    <3>1. states'[k] = states[k] /\ raced'[k] = raced[k]
      BY <1>6, <2>3 DEF WriteApplies, Apply
    <3> QED  BY <2>1, <3>1 DEF InformedOf
  <2> QED  BY <2>2, <2>3
<1>7. ASSUME NEW r \in Refreshers, AskDump(r) PROVE InformedOf(k)'
  BY <1>7 DEF AskDump, CacheFollows, InformedOf, cacheVars
<1>8. CASE RequestDump
  BY <1>8 DEF RequestDump, CacheFollows, InformedOf, cacheVars
<1>9. CASE LinkBreaks \/ Reconnect
  BY <1>9 DEF LinkBreaks, Reconnect
<1>10. CASE UNCHANGED <<real, frames, asked, link, states, raced>>
  BY <1>10 DEF CacheFollows, InformedOf
<1>11. \/ UNCHANGED <<real, frames, asked, link, states, raced>>
       \/ WallSwitch \/ AnswersDump \/ Ingest \/ RequestDump \/ LinkBreaks \/ Reconnect
       \/ \E w \in Writers : WriteReaches(w) \/ WriteApplies(w)
       \/ \E r \in Refreshers : AskDump(r)
  BY DEF Next, Max200, Flush, BeginWrite, Writing, WriteIsLost, BeginRefresh, Refreshing, TakeLock,
         SeesArrival, DrainIdle, RefreshTimesOut, PushCache, cacheVars, vars
<1> QED  BY <1>2, <1>3, <1>4, <1>5, <1>6, <1>7, <1>8, <1>9, <1>10, <1>11

\* For any outputs, writes and frames on the way: the cache stays wrong only
\* through a write that was overtaken before it was stored (_apply_local,
\* _ingest_message, _read_loop).
THEOREM CacheIsRight == Spec => []DriftOnlyFromRaces
<1>1. Init => WritesAreCurrent /\ CacheFollows
  BY DEF Init, WritesAreCurrent, CacheFollows, Idle
<1>2. CacheFollows => DriftOnlyFromRaces
  BY DEF CacheFollows, InformedOf, DriftOnlyFromRaces, Quiet, FrameTo, Has
<1> QED  BY TypeCorrect, WritesStep, CacheStep, <1>1, <1>2, PTL DEF Spec

\* Only an idle window that ends settles a refresh.
LEMMA SettlesByIdling ==
    ASSUME TypeOK, [Next]_vars, NEW r \in Refreshers, refresh[r] = "draining", refresh'[r] = "settled"
    PROVE  frames = <<>>
<1> SUFFICES ASSUME ~DrainIdle(r) PROVE FALSE
  BY DEF DrainIdle
<1>1. ASSUME NEW q \in Refreshers, Refreshing(q) \/ BeginRefresh(q) PROVE FALSE
  <2>1. DrainIdle(q) => q = r
    BY DEF DrainIdle, Leave, TypeOK
  <2>2. ~DrainIdle(q)
    BY <2>1
  <2> QED
    BY <1>1, <2>2 DEF Refreshing, BeginRefresh, TakeLock, AskDump, SeesArrival, RefreshTimesOut, PushCache,
       Leave, TypeOK
<1>2. UNCHANGED refresh \/ \E q \in Refreshers : Refreshing(q) \/ BeginRefresh(q)
  BY DEF Next, Max200, WallSwitch, AnswersDump, Flush, Ingest, BeginWrite, Writing, WriteReaches,
         WriteIsLost, WriteApplies, RequestDump, LinkBreaks, Reconnect, refreshVars, vars
<1> QED  BY <1>1, <1>2

\* For any number of refreshes: one that settles has had the answer to its own
\* dump request and leaves a right cache, unless something disturbed it or a
\* write was overtaken (_refresh_and_settle_locked).
THEOREM RefreshIsAnswered == Spec => SettledMeansAnswered
<1> DEFINE Inv == TypeOK /\ Held /\ AnswerIsAwaited /\ WritesAreCurrent /\ CacheFollows
<1>1. Init => Held /\ AnswerIsAwaited /\ WritesAreCurrent /\ CacheFollows
  BY DEF Init, Held, InProgress, AnswerIsAwaited, WritesAreCurrent, CacheFollows, Idle
<1>2. ASSUME Inv, [Next]_vars, NEW r \in Refreshers, refresh[r] = "draining",
             refresh'[r] = "settled", ~disturbed
      PROVE  ~asked /\ \A k \in Keys : raced[k] \/ states[k] = real[k]
  <2>1. ~asked /\ link = "up"
    BY <1>2 DEF AnswerIsAwaited, TypeOK
  <2>2. frames = <<>>
    BY <1>2, SettlesByIdling
  <2>3. \A k \in Keys : ~Has(frames, k)
    BY <2>2 DEF Has
  <2> QED  BY <1>2, <2>1, <2>3 DEF CacheFollows, InformedOf
<1>3. Inv /\ [Next]_vars =>
         [\A r \in Refreshers :
             (refresh[r] = "draining" /\ refresh'[r] = "settled") =>
                disturbed \/ (~asked /\ \A k \in Keys : raced[k] \/ states[k] = real[k])]_vars
  BY <1>2
<1> QED  BY TypeCorrect, HeldStep, AwaitedStep, WritesStep, CacheStep, <1>1, <1>3, PTL
         DEF Spec, SettledMeansAnswered

-----------------------------------------------------------------------------
(* What the entities show.                                                 *)

ShownOrDue == debounce # 0 \/ shown = states

LEMMA ShownStep == ShownOrDue /\ [Next]_vars => ShownOrDue'
<1> SUFFICES ASSUME ShownOrDue, [Next]_vars PROVE ShownOrDue'
  OBVIOUS
<1>1. ASSUME NEW change, Apply(change) PROVE ShownOrDue'
  BY <1>1 DEF Apply, ShownOrDue
<1>2. CASE UNCHANGED <<states, debounce, shown>>
  BY <1>2 DEF ShownOrDue
<1>3. ASSUME NEW timer, Flush(timer) PROVE ShownOrDue'
  BY <1>3 DEF Flush, ShownOrDue
<1>4. ASSUME NEW r \in Refreshers, PushCache(r) PROVE ShownOrDue'
  BY <1>4 DEF PushCache, ShownOrDue
<1>5. CASE Ingest \/ \E w \in Writers : WriteApplies(w)
  BY <1>1, <1>2, <1>5 DEF Ingest, WriteApplies, cacheVars
<1>6. \/ UNCHANGED <<states, debounce, shown>>
      \/ Ingest \/ (\E w \in Writers : WriteApplies(w))
      \/ (\E timer \in {1, 2} : Flush(timer)) \/ \E r \in Refreshers : PushCache(r)
  BY DEF Next, Max200, WallSwitch, AnswersDump, BeginWrite, Writing, WriteReaches, WriteIsLost, BeginRefresh,
         Refreshing, TakeLock, AskDump, SeesArrival, DrainIdle, RefreshTimesOut, RequestDump, LinkBreaks,
         Reconnect, cacheVars, vars
<1> QED  BY <1>2, <1>3, <1>4, <1>5, <1>6

\* For any outputs, writes, refreshes and frames: the entities show what the
\* outputs are once nothing is due, unless a write was overtaken
\* (_on_controller_update, _make_reload_listener).
THEOREM EntitiesShowOutputs == Spec => []ShownIsReal
<1>1. Init => ShownOrDue
  BY DEF Init, ShownOrDue
<1>2. ShownOrDue /\ DriftOnlyFromRaces => ShownIsReal
  BY DEF ShownOrDue, DriftOnlyFromRaces, ShownIsReal
<1> QED  BY CacheIsRight, ShownStep, <1>1, <1>2, PTL DEF Spec

-----------------------------------------------------------------------------
(* The refinement: every step is one of OutputMirror or leaves it alone.   *)

LEMMA StandingOf ==
    /\ link # "up" \/ asked => Standing = [k \in Keys |-> "blind"]
    /\ Standing = [k \in Keys |-> Standing[k]]
    /\ link = "up" /\ ~asked =>
         \A k \in Keys : /\ Has(frames, k) => Standing[k] = "due"
                         /\ ~Has(frames, k) => Standing[k] = IF raced[k] THEN "spoilt" ELSE "right"
BY DEF Standing, FrameTo, Has

LEMMA StandingNext ==
    /\ link' # "up" \/ asked' => Standing' = [k \in Keys |-> "blind"]
    /\ Standing' = [k \in Keys |-> Standing'[k]]
    /\ link' = "up" /\ ~asked' =>
         \A k \in Keys : /\ Has(frames', k) => Standing'[k] = "due"
                         /\ ~Has(frames', k) => Standing'[k] = IF raced'[k] THEN "spoilt" ELSE "right"
BY DEF Standing, FrameTo, Has

\* Wall switches and writes that reach the Max200 change outputs.
LEMMA BroadcastIsChange ==
    ASSUME TypeOK, NEW change, DOMAIN change \subseteq Keys,
           \A k \in DOMAIN change : change[k] \in Values, Broadcasts(change),
           UNCHANGED <<asked, link, states, raced>>
    PROVE  Mirror!Change
<1>1. CASE link # "up" \/ asked
  <2>1. /\ Standing = [k \in Keys |-> "blind"] /\ Standing' = [k \in Keys |-> "blind"]
        /\ real' \in [Keys -> Values]
    BY <1>1, StandingOf, StandingNext, BroadcastsProperties
  <2>2. /\ Keys \in SUBSET Keys /\ \A k \in Keys \ Keys : real'[k] = real[k]
        /\ Standing' = [k \in Keys |-> IF k \in Keys /\ Standing[k] # "blind" THEN "due" ELSE Standing[k]]
    BY <2>1
  <2> QED  BY <2>1, <2>2 DEF Mirror!Change
<1>2. CASE link = "up" /\ ~asked
  <2> DEFINE told == {k \in Keys : Has(frames', k)}
  <2>1. /\ real' \in [Keys -> Values]
        /\ \A k \in Keys \ told : ~Has(frames, k) /\ real'[k] = real[k]
    BY <1>2, BroadcastsProperties
  <2>2. \A k \in Keys : Standing'[k] = IF k \in told /\ Standing[k] # "blind" THEN "due" ELSE Standing[k]
    BY <1>2, <2>1, StandingOf, StandingNext
  <2>3. Standing' = [k \in Keys |-> IF k \in told /\ Standing[k] # "blind" THEN "due" ELSE Standing[k]]
    BY <2>2, StandingNext
  <2>4. told \in SUBSET Keys
    OBVIOUS
  <2> HIDE DEF told
  <2> QED  BY <2>1, <2>3, <2>4 DEF Mirror!Change
<1> QED  BY <1>1, <1>2

\* A frame that is read is a piece of news, the last one of an output says what
\* it has.
LEMMA IngestIsHear ==
    ASSUME TypeOK, CacheFollows, Ingest
    PROVE  \E k \in Keys : Mirror!Hear(k)
<1>1. /\ frames \in Seq(FrameType) /\ frames # <<>>
      /\ frames' \in Seq(FrameType) /\ Drops(frames', frames)
      /\ Head(frames) = frames[1] /\ frames[1] \in FrameType
  BY IngestProperties
<1>2. PICK k \in Keys, v \in Values : k = frames[1].key /\ v = frames[1].value
  BY <1>1 DEF FrameType
<1>3. UNCHANGED <<real, asked, link>> /\ raced' = [raced EXCEPT ![k] = FALSE]
  BY <1>1, <1>2 DEF Ingest
<1>4. states' = [states EXCEPT ![k] = v]
  BY <1>1, <1>2 DEF Ingest, Apply, cacheVars, TypeOK
<1>5. CASE link # "up" \/ asked
  <2>1. Standing = [x \in Keys |-> "blind"] /\ Standing' = Standing
    BY <1>3, <1>5, StandingOf, StandingNext
  <2> QED  BY <1>2, <1>3, <1>4, <2>1 DEF Mirror!Hear
<1>6. CASE link = "up" /\ ~asked
  <2>1. \A x \in Keys : Has(frames, x) <=> k = x \/ Has(frames', x)
    BY <1>1, <1>2, TakenOff
  <2>2. ~Has(frames', k) => v = real[k]
    BY <1>1, <1>2, <1>6, TakenOff DEF CacheFollows, InformedOf
  <2>3. Standing[k] = "due" /\ \A x \in Keys \ {k} : Standing'[x] = Standing[x]
    BY <1>2, <1>3, <1>6, <2>1, StandingOf, StandingNext DEF TypeOK
  <2>4. CASE Has(frames', k)
    <3>1. Standing'[k] = "due"
      BY <1>2, <1>3, <1>6, <2>4, StandingNext
    <3>2. Standing' = Standing
      BY <2>3, <3>1, StandingOf, StandingNext
    <3> QED  BY <1>2, <1>3, <1>4, <2>3, <3>2 DEF Mirror!Hear
  <2>5. CASE ~Has(frames', k)
    <3>1. Standing'[k] = "right"
      BY <1>2, <1>3, <1>6, <2>5, StandingNext DEF TypeOK
    <3>2. Standing' = [Standing EXCEPT ![k] = "right"]
      BY <2>3, <3>1, StandingOf, StandingNext
    <3>3. states'[k] = real[k]
      BY <1>2, <1>4, <2>2, <2>5 DEF TypeOK
    <3> QED  BY <1>2, <1>3, <1>4, <2>3, <3>2, <3>3 DEF Mirror!Hear
  <2> QED  BY <2>4, <2>5
<1> QED  BY <1>5, <1>6

\* A write that returns is stored; unless it was overtaken its outputs have it.
LEMMA WriteIsStore ==
    ASSUME TypeOK, WritesAreCurrent, NEW w \in Writers, WriteApplies(w)
    PROVE  Mirror!Store
<1> DEFINE written == DOMAIN write[w].cmd
           late == write[w].late
           value == [k \in written |-> write[w].cmd[k]]
           settled == {k \in written : Standing[k] \notin {"due", "blind"}}
<1>1. /\ write[w] \in [step : {"queued", "sent"}, cmd : Commands, late : BOOLEAN]
      /\ written \subseteq Keys /\ \A k \in written : write[w].cmd[k] \in Values
      /\ write[w].step = "sent"
  BY WriteTypes DEF WriteApplies
<1>2. written \in SUBSET Keys /\ late \in BOOLEAN /\ value \in [written -> Values]
  BY <1>1
<1>3. late \/ \A k \in settled : value[k] = real[k]
  BY <1>1 DEF WritesAreCurrent
<1>4. /\ states' = [k \in Keys |-> IF k \in written THEN value[k] ELSE states[k]]
      /\ raced' = [k \in Keys |-> IF k \in written THEN late ELSE raced[k]]
      /\ UNCHANGED <<real, frames, asked, link>>
  BY DEF WriteApplies, Apply
<1>5. \A k \in Keys : Standing'[k] = IF k \in settled THEN IF late THEN "spoilt" ELSE "right"
                                     ELSE Standing[k]
  <2>1. CASE link # "up" \/ asked
    <3>1. Standing = [k \in Keys |-> "blind"] /\ Standing' = Standing
      BY <1>4, <2>1, StandingOf, StandingNext
    <3> QED  BY <1>2, <3>1
  <2>2. CASE link = "up" /\ ~asked
    <3> SUFFICES ASSUME NEW k \in Keys
                 PROVE  Standing'[k] = IF k \in settled THEN IF late THEN "spoilt" ELSE "right"
                                       ELSE Standing[k]
      OBVIOUS
    <3>1. k \in settled <=> k \in written /\ ~Has(frames, k)
      BY <2>2, StandingOf
    <3>2. raced'[k] = IF k \in written THEN late ELSE raced[k]
      BY <1>4
    <3> HIDE DEF settled, written, late
    <3> QED  BY <1>4, <2>2, <3>1, <3>2, StandingOf, StandingNext
  <2> QED  BY <2>1, <2>2
<1>6. Standing' = [k \in Keys |-> IF k \in settled THEN IF late THEN "spoilt" ELSE "right"
                                 ELSE Standing[k]]
  <2> HIDE DEF settled, late
  <2> QED  BY <1>5, StandingNext
<1> HIDE DEF written, late, value
<1> QED  BY <1>2, <1>3, <1>4, <1>6 DEF Mirror!Store

LEMMA MirrorStep ==
    ASSUME TypeOK, WritesAreCurrent, CacheFollows, [Next]_vars
    PROVE  [Mirror!MNext]_Mirror!mvars
<1>1. CASE WallSwitch
  <2>1. PICK y \in Keys, v \in Values : Broadcasts([x \in {y} |-> v])
    BY <1>1 DEF WallSwitch
  <2>2. /\ DOMAIN [x \in {y} |-> v] \subseteq Keys
        /\ \A z \in DOMAIN [x \in {y} |-> v] : [x \in {y} |-> v][z] \in Values
    OBVIOUS
  <2>3. UNCHANGED <<asked, link, raced, states>>
    BY <1>1 DEF WallSwitch, cacheVars
  <2> QED  BY <2>1, <2>2, <2>3, BroadcastIsChange DEF Mirror!MNext
<1>2. ASSUME NEW w \in Writers, WriteReaches(w) PROVE Mirror!MNext
  <2>1. /\ DOMAIN write[w].cmd \subseteq Keys
        /\ \A x \in DOMAIN write[w].cmd : write[w].cmd[x] \in Values
    BY <1>2, WriteTypes DEF WriteReaches
  <2> QED  BY <1>2, <2>1, BroadcastIsChange DEF WriteReaches, cacheVars, Mirror!MNext
<1>3. CASE AnswersDump
  <2>1. /\ link = "up" /\ asked /\ ~asked' /\ link' = "up" /\ UNCHANGED <<real, states>>
        /\ \A k \in Keys : Has(frames', k)
    BY <1>3, AnswersDumpProperties DEF AnswersDump, cacheVars
  <2>2. /\ Standing = [k \in Keys |-> "blind"]
        /\ Standing' = [k \in Keys |-> "due"]
    BY <2>1, StandingOf, StandingNext
  <2> QED  BY <2>1, <2>2 DEF Mirror!Answer, Mirror!MNext
<1>4. CASE Ingest
  BY <1>4, IngestIsHear DEF Mirror!MNext
<1>5. ASSUME NEW w \in Writers, WriteApplies(w) PROVE Mirror!MNext
  BY <1>5, WriteIsStore DEF Mirror!MNext
<1>6. CASE RequestDump \/ LinkBreaks \/ Reconnect \/ \E r \in Refreshers : AskDump(r)
  <2>1. (link' # "up" \/ asked') /\ UNCHANGED <<real, states>>
    BY <1>6 DEF RequestDump, LinkBreaks, Reconnect, AskDump, cacheVars, TypeOK
  <2> QED  BY <2>1, StandingNext DEF Mirror!GoBlind, Mirror!MNext
<1>7. CASE UNCHANGED <<real, frames, asked, link, states, raced>>
  BY <1>7 DEF Standing, FrameTo, Mirror!mvars
<1>8. \/ UNCHANGED <<real, frames, asked, link, states, raced>>
      \/ WallSwitch \/ AnswersDump \/ Ingest \/ RequestDump \/ LinkBreaks \/ Reconnect
      \/ \E w \in Writers : WriteReaches(w) \/ WriteApplies(w)
      \/ \E r \in Refreshers : AskDump(r)
  BY DEF Next, Max200, Flush, BeginWrite, Writing, WriteIsLost, BeginRefresh, Refreshing, TakeLock,
         SeesArrival, DrainIdle, RefreshTimesOut, PushCache, cacheVars, vars
<1> QED  BY <1>1, <1>2, <1>3, <1>4, <1>5, <1>6, <1>7, <1>8

\* Whatever frames, dumps, writes and refreshes do, each step of the cache is a
\* change that is reported, a piece of news, a stored write, an outage or the
\* answer that ends it (_ingest_message, _apply_local, _read_loop).
THEOREM CacheMirrorsOutputs == Spec => MirrorsOutputs
<1>1. Init => Mirror!MInit /\ WritesAreCurrent /\ CacheFollows
  BY StandingOf DEF Init, Mirror!MInit, WritesAreCurrent, CacheFollows, Idle
<1>2. TypeOK /\ WritesAreCurrent /\ CacheFollows /\ [Next]_vars => [Mirror!MNext]_Mirror!mvars
  BY MirrorStep
<1> QED  BY TypeCorrect, WritesStep, CacheStep, <1>1, <1>2, PTL DEF Spec, MirrorsOutputs, Mirror!MSpec

\* A mirror never calls a cached state right that is not, whatever implements it.
THEOREM MirrorIsRight == MirrorsOutputs => []Mirror!RightIsRight
<1> DEFINE Inv == Mirror!MTypeOK /\ Mirror!RightIsRight
<1>1. Mirror!MInit => Inv
  BY DEF Mirror!MInit, Mirror!MTypeOK, Mirror!Standings, Mirror!RightIsRight
<1>2. Inv /\ [Mirror!MNext]_Mirror!mvars => Inv'
  <2> SUFFICES ASSUME Inv, [Mirror!MNext]_Mirror!mvars PROVE Inv'
    OBVIOUS
  <2> USE DEF Mirror!MTypeOK, Mirror!Standings, Mirror!RightIsRight
  <2> HIDE DEF Standing
  <2>1. CASE Mirror!Change
    BY <2>1 DEF Mirror!Change
  <2>2. ASSUME NEW k \in Keys, Mirror!Hear(k) PROVE Inv'
    BY <2>2 DEF Mirror!Hear
  <2>3. CASE Mirror!Store
    BY <2>3 DEF Mirror!Store
  <2>4. CASE Mirror!GoBlind \/ Mirror!Answer
    BY <2>4 DEF Mirror!GoBlind, Mirror!Answer
  <2>5. CASE UNCHANGED Mirror!mvars
    BY <2>5 DEF Mirror!mvars
  <2> QED  BY <2>1, <2>2, <2>3, <2>4, <2>5 DEF Mirror!MNext
<1> QED  BY <1>1, <1>2, PTL DEF MirrorsOutputs, Mirror!MSpec

=============================================================================
