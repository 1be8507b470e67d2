----------------------------- MODULE RingProofs -----------------------------
(***************************************************************************)
(* Whatever the latency, the ring's length, the width of a position and    *)
(* the environments are, the ring of src/media/ring.rs never plays a       *)
(* sample early (NeverEarly), never overwrites what is still to be played  *)
(* (DueIsKept), withholds nothing that is due (TailIsPlayed) and, in time, *)
(* is a buffer of samples by position (IsJitterBuffer).                    *)
(*                                                                         *)
(* The argument: the code's words are remainders, and as long as           *)
(* timestamps are not half a word's range from the clock (NearTimestamps)  *)
(* its test keeps exactly the RingLen positions from the read position.    *)
(* Positions that share a slot are a lap apart, so of those RingLen each   *)
(* slot is for one. A reader that was delayed may be behind the writer by  *)
(* its delay; it still meets no later lap if the ring has room for it      *)
(* (RoomForDelay).                                                         *)
(***************************************************************************)
EXTENDS Ring, TLAPS

------------------------------------------------------------------------------
(* Remainders *)

\* Division with remainder.
LEMMA Division ==
    ASSUME NEW m \in Int, m > 0, NEW x \in Int
    PROVE  x % m \in Int /\ 0 <= x % m /\ x % m < m /\ \E q \in Int : x = q * m + (x % m)
  <1>1. x % m \in 0..m - 1
    OBVIOUS
  <1>2. \E q \in Int : x = q * m + (x % m)
    BY SMTT(30)
  <1> QED BY <1>1, <1>2

\* There is one remainder.
LEMMA Remainder ==
    ASSUME NEW m \in Int, m > 0, NEW q \in Int, NEW r \in Int, 0 <= r, r < m
    PROVE  (q * m + r) % m = r
  OBVIOUS

\* Different multiples are at least one apart.
LEMMA Multiples ==
    ASSUME NEW m \in Int, m > 0, NEW q \in Int, NEW p \in Int, q > p
    PROVE  q * m >= p * m + m
  <1>1. q - p - 1 >= 0 /\ q - p - 1 \in Int OBVIOUS
  <1>2. (q - p - 1) * m >= 0 BY <1>1
  <1>3. (q - p - 1) * m = q * m - p * m - m OBVIOUS
  <1> QED BY <1>2, <1>3

\* A multiple of the modulus does not show in a remainder.
LEMMA AddMultiple ==
    ASSUME NEW m \in Int, m > 0, NEW x \in Int, NEW q \in Int, NEW y \in Int, y = q * m + x
    PROVE  y % m = x % m
  <1> DEFINE r == x % m
  <1>1. PICK qx \in Int : x = qx * m + r BY Division
  <1>2. r \in Int /\ 0 <= r /\ r < m BY Division
  <1> HIDE DEF r
  <1>3. y = (q + qx) * m + r /\ q + qx \in Int BY <1>1, <1>2
  <1>4. ((q + qx) * m + r) % m = r BY <1>2, <1>3, Remainder
  <1> QED BY ONLY <1>3, <1>4 DEF r

\* Remainders can be taken early.
LEMMA EarlyLeft ==
    ASSUME NEW m \in Int, m > 0, NEW a \in Int, NEW b \in Int
    PROVE  ((a % m) - b) % m = (a - b) % m
  <1> DEFINE r == a % m
             x == r - b
             y == a - b
  <1>1. r \in Int BY Division
  <1>2. PICK q \in Int : a = q * m + r BY Division
  <1> HIDE DEF r
  <1>3. y = q * m + x /\ y \in Int /\ x \in Int BY <1>1, <1>2
  <1> HIDE DEF x, y
  <1>4. y % m = x % m BY <1>3, AddMultiple
  <1> QED BY <1>4 DEF r, x, y

\* The same on the right of a difference.
LEMMA EarlyRight ==
    ASSUME NEW m \in Int, m > 0, NEW a \in Int, NEW b \in Int
    PROVE  (a - (b % m)) % m = (a - b) % m
  <1> DEFINE r == b % m
             x == a - b
             y == a - r
  <1>1. r \in Int BY Division
  <1>2. PICK q \in Int : b = q * m + r BY Division
  <1> HIDE DEF r
  <1>3. y = q * m + x /\ y \in Int /\ x \in Int BY <1>1, <1>2
  <1> HIDE DEF x, y
  <1>4. y % m = x % m BY <1>3, AddMultiple
  <1> QED BY <1>4 DEF r, x, y

------------------------------------------------------------------------------
(* Words and slots *)

\* The constants as integers.
LEMMA Lengths ==
    /\ WordMod \in Int /\ RingLen \in Int /\ RingLen > 0 /\ 2 * RingLen <= WordMod /\ WordMod > 0
    /\ WordMod % RingLen = 0 /\ Latency \in Int /\ Latency >= 0
    /\ MaxFrames \in Int /\ MaxFrames > 0 /\ StaleAfter \in Int /\ StaleAfter >= 0
  BY RingAssumption, RingLenAssumption

\* A lap of words is a number of laps of the ring: the slot of a position is
\* that of its word.
LEMMA SlotOfPosition ==
    ASSUME NEW p \in Int
    PROVE  SlotOf(p) = p % RingLen
  <1> DEFINE w == p % WordMod
  <1>1. PICK k \in Int : WordMod = k * RingLen
    BY Lengths, Division
  <1>2. PICK q \in Int : p = q * WordMod + w
    BY Lengths, Division
  <1>3. w \in Int BY Lengths, Division
  <1> HIDE DEF w
  <1>4. PICK j \in Int : w = j * RingLen + (w % RingLen)
    BY <1>3, Lengths, Division
  <1>5. w % RingLen \in Int /\ 0 <= w % RingLen /\ w % RingLen < RingLen
    BY <1>3, Lengths, Division
  <1>6. p = (q * k + j) * RingLen + (w % RingLen) /\ q * k + j \in Int
    <2>1. q * WordMod = (q * k) * RingLen BY <1>1, Lengths
    <2>2. q * k \in Int OBVIOUS
    <2> QED BY <1>2, <1>4, <1>5, <2>1, <2>2, Lengths
  <1>7. p % RingLen = w % RingLen
    BY <1>5, <1>6, Lengths, Remainder
  <1> QED BY <1>7 DEF SlotOf, Word, w

\* Positions that share a slot are the same or a lap apart.
LEMMA SameSlot ==
    ASSUME NEW p \in Int, NEW q \in Int, SlotOf(p) = SlotOf(q)
    PROVE  p = q \/ p >= q + RingLen \/ q >= p + RingLen
  <1> DEFINE r == p % RingLen
  <1>1. r = q % RingLen BY SlotOfPosition
  <1>2. PICK i \in Int : p = i * RingLen + r BY Lengths, Division
  <1>3. PICK j \in Int : q = j * RingLen + r BY <1>1, Lengths, Division
  <1>4. r \in Int BY Lengths, Division
  <1> HIDE DEF r
  <1>5. CASE i = j BY <1>2, <1>3, <1>5
  <1>6. CASE i > j
    <2>1. i * RingLen >= j * RingLen + RingLen BY <1>6, Lengths, Multiples
    <2>2. i * RingLen \in Int /\ j * RingLen \in Int BY Lengths
    <2> QED BY <1>2, <1>3, <1>4, <2>1, <2>2, Lengths
  <1>7. CASE j > i
    <2>1. j * RingLen >= i * RingLen + RingLen BY <1>7, Lengths, Multiples
    <2>2. i * RingLen \in Int /\ j * RingLen \in Int BY Lengths
    <2> QED BY <1>2, <1>3, <1>4, <2>1, <2>2, Lengths
  <1> QED BY <1>5, <1>6, <1>7

\* Every position has a slot.
LEMMA SlotType == \A p \in Int : SlotOf(p) \in Slots
  <1> SUFFICES ASSUME NEW p \in Int PROVE SlotOf(p) \in Slots
    OBVIOUS
  <1> DEFINE r == p % RingLen
  <1>1. r \in Int /\ 0 <= r /\ r < RingLen BY Lengths, Division
  <1>2. SlotOf(p) = r BY SlotOfPosition
  <1> HIDE DEF r
  <1> QED BY <1>1, <1>2, Lengths DEF Slots

\* What write_packet keeps, on true positions: a ring's length from the read
\* position, as long as timestamps are not half a word's range away.
LEMMA KeepsOnPositions ==
    ASSUME NEW p \in Int, NEW seen \in Int,
           RingLen - WordMod <= p - (seen - Latency), p - (seen - Latency) < WordMod
    PROVE  Keeps(p, seen) <=> seen - Latency <= p /\ p < seen - Latency + RingLen
  <1> DEFINE d == p - (seen - Latency)
             h == WordMod \div 2
  <1>1. d \in Int /\ seen - Latency \in Int BY Lengths
  <1>2. h \in Int /\ RingLen <= h /\ h <= WordMod
    BY Lengths
  <1>3. Word(Word(p) - ReadPos(seen)) = d % WordMod
    <2> DEFINE b == seen - Latency
               r == b % WordMod
    <2>1. ReadPos(seen) = r
      BY Lengths, EarlyLeft DEF ReadPos, Word
    <2>2. b \in Int /\ d = p - b BY Lengths
    <2> HIDE DEF b, d
    <2>3. r \in Int BY <2>2, Lengths, Division
    <2>4. (p - r) % WordMod = (p - b) % WordMod
      BY <2>2, Lengths, EarlyRight
    <2> HIDE DEF r
    <2>5. ((p % WordMod) - r) % WordMod = (p - r) % WordMod
      BY <2>3, Lengths, EarlyLeft
    <2> QED BY ONLY <2>1, <2>2, <2>4, <2>5 DEF Word
  <1>4. d % WordMod = IF d >= 0 THEN d ELSE d + WordMod
    <2>1. CASE d >= 0
      <3>1. d = 0 * WordMod + d BY <1>1, Lengths
      <3> QED BY <1>1, <2>1, <3>1, Lengths, Remainder
    <2>2. CASE d < 0
      <3>1. d = (-1) * WordMod + (d + WordMod) BY <1>1, Lengths
      <3>2. d + WordMod \in Int /\ 0 <= d + WordMod /\ d + WordMod < WordMod /\ -1 \in Int
        BY <1>1, <2>2, Lengths
      <3> QED BY <2>2, <3>1, <3>2, Lengths, Remainder
    <2> QED BY <1>1, <2>1, <2>2
  <1>5. Keeps(p, seen) <=> d % WordMod < h /\ d % WordMod < RingLen
    <2>1. d % WordMod \in Int BY <1>1, Lengths, Division
    <2> QED BY <1>2, <1>3, <2>1, Lengths DEF Keeps, IsBefore, h
  <1> HIDE DEF h
  <1>6. Keeps(p, seen) <=> 0 <= d /\ d < RingLen
    <2>1. CASE d >= 0 BY <1>1, <1>2, <1>4, <1>5, <2>1, Lengths
    <2>2. CASE d < 0 BY <1>1, <1>2, <1>4, <1>5, <2>2, Lengths
    <2> QED BY <1>1, <2>1, <2>2
  <1> QED BY <1>6, Lengths

------------------------------------------------------------------------------
(* The inductive invariant *)

\* What the theorems ask of the network, of the threads and of the ring's
\* length. Timestamps stay so near the clock that the sign of a difference of
\* words is the sign of the difference.
NearTimestamps ==
    \A e \in Environments : e.lag <= WordMod - RingLen /\ Latency + e.lead + MaxFrames <= WordMod

\* A block is no longer than the ring, and either a thread takes the mutex at
\* the instant it looks at the clock or the ring has room for the delay.
RoomForDelay ==
    /\ MaxFrames <= RingLen
    /\ \A e \in Environments : e.delay = 0 \/ Latency + e.lead + e.delay + MaxFrames <= RingLen

\* The clock when the media thread last looked at it, if that look counts.
LastLook == IF wr.busy THEN wr.seen ELSE now

\* The clock, and what the two threads remember of it while they wait.
ClockInv ==
    /\ env.start <= now /\ now <= env.start + env.ticks
    /\ wr.busy => /\ wr.seen <= now
                  /\ wr.seen - env.lag <= wr.pos /\ wr.pos <= wr.seen + env.lead
    /\ rd.busy => /\ rd.n >= 1 /\ rd.seen <= now /\ now - rd.seen <= env.delay
                  /\ Latency <= rd.seen /\ env.start <= rd.seen

\* A sample lies in the slot of its position, less than a ring's length ahead
\* of what is due, and no further ahead than a packet reached at its arrival.
SampleInv(c, s) ==
    LET l == lane[c][s]
    IN  l # Silence => /\ SlotOf(l) = s
                       /\ l < LastLook - Latency + RingLen
                       /\ age # Never /\ l < now - age + env.lead + MaxFrames

LaneInv == \A c \in Chan : \A s \in Slots : SampleInv(c, s)

FilledInv == \A c \in Chan : \A s \in Slots : filled[c][s] => lane[c][s] # Silence

\* A reader that keeps up finds nothing in the ring that it has passed.
TimelyInv ==
    env.timely => /\ now - Latency <= consumed
                  /\ \A c \in Chan : \A s \in Slots : filled[c][s] => consumed <= lane[c][s]

RingInv == TypeOK /\ ClockInv /\ LaneInv /\ FilledInv /\ TimelyInv

------------------------------------------------------------------------------
(* The initial states and the effects of the actions *)

\* The environment's bounds.
LEMMA EnvType ==
    ASSUME TypeOK
    PROVE  /\ env.start \in Nat /\ env.ticks \in Nat /\ env.lead \in Nat /\ env.lag \in Nat
           /\ env.delay \in Nat /\ env.timely \in BOOLEAN /\ env \in Environments
  <1>1. env \in Environment /\ env \in Environments BY RingAssumption DEF TypeOK
  <1> QED BY <1>1 DEF Environment

\* The two threads' records.
LEMMA ThreadTypes ==
    ASSUME TypeOK
    PROVE  /\ wr.busy \in BOOLEAN /\ wr.chan \in Chan /\ wr.pos \in Nat /\ wr.n \in 0..MaxFrames
           /\ wr.seen \in Nat
           /\ rd.busy \in BOOLEAN /\ rd.n \in 0..MaxFrames /\ rd.seen \in Nat
  BY DEF TypeOK

\* A thread that waits for nothing.
LEMMA IdleTypes ==
    /\ IdleWriter \in [busy: BOOLEAN, chan: Chan, pos: Nat, n: 0..MaxFrames, seen: Nat]
    /\ IdleReader \in [busy: BOOLEAN, n: 0..MaxFrames, seen: Nat]
    /\ ~IdleWriter.busy /\ ~IdleReader.busy
  <1>1. (CHOOSE c \in Chan : TRUE) \in Chan BY RingAssumption
  <1> QED BY <1>1, Lengths DEF IdleWriter, IdleReader

\* What a slot can hold.
LEMMA SlotTypes ==
    ASSUME TypeOK, NEW c \in Chan, NEW s \in Slots
    PROVE  /\ lane[c][s] \in Int /\ (lane[c][s] # Silence => lane[c][s] \in Nat)
           /\ filled[c][s] \in BOOLEAN
  <1>1. lane[c] \in [Slots -> Nat \cup {Silence}] /\ filled[c] \in [Slots -> BOOLEAN] BY DEF TypeOK
  <1>2. lane[c][s] \in Nat \cup {Silence} /\ filled[c][s] \in BOOLEAN BY <1>1
  <1> QED BY <1>2 DEF Silence

\* The empty ring.
LEMMA InitInv == Init => RingInv
  <1> SUFFICES ASSUME Init PROVE RingInv OBVIOUS
  <1>1. env \in Environment /\ env \in Environments BY RingAssumption DEF Init
  <1>2. env.start \in Nat /\ env.ticks \in Nat BY <1>1 DEF Environment
  <1>3. TypeOK
    <2>1. lane \in [Chan -> [Slots -> Nat \cup {Silence}]] BY DEF Init
    <2>2. filled \in [Chan -> [Slots -> BOOLEAN]] BY DEF Init
    <2>3. patched \in [Chan -> BOOLEAN] BY DEF Init
    <2>4. now \in Nat /\ consumed \in Int BY <1>2, Lengths DEF Init
    <2> QED BY <1>1, <2>1, <2>2, <2>3, <2>4, IdleTypes DEF Init, TypeOK
  <1>4. ClockInv BY <1>2, IdleTypes DEF Init, ClockInv
  <1>5. LaneInv BY DEF Init, LaneInv, SampleInv
  <1>6. FilledInv BY DEF Init, FilledInv
  <1>7. TimelyInv BY <1>2, Lengths DEF Init, TimelyInv
  <1> QED BY <1>3, <1>4, <1>5, <1>6, <1>7 DEF RingInv

\* What write_packet does to one slot: nothing, or it leaves there the one
\* frame of the packet that the slot is for, among those that are kept.
LEMMA WriteEffect ==
    ASSUME NearTimestamps, TypeOK, ClockInv, WritePacket
    PROVE  /\ lane' \in [Chan -> [Slots -> Nat \cup {Silence}]]
           /\ filled' \in [Chan -> [Slots -> BOOLEAN]]
           /\ \A c \in Chan : \A s \in Slots :
                \/ lane'[c][s] = lane[c][s] /\ (filled'[c][s] => filled[c][s]) /\ (filled[c][s] => filled'[c][s])
                \/ /\ c = wr.chan /\ filled'[c][s]
                   /\ lane'[c][s] \in Nat /\ SlotOf(lane'[c][s]) = s
                   /\ wr.pos <= lane'[c][s] /\ lane'[c][s] < wr.pos + wr.n
                   /\ wr.seen - Latency <= lane'[c][s]
                   /\ lane'[c][s] < wr.seen - Latency + RingLen
  <1> DEFINE frames == wr.pos..wr.pos + wr.n - 1
             kept == {p \in frames : Keeps(p, wr.seen)}
             hit == {SlotOf(p) : p \in kept}
             top(s) == CHOOSE p \in kept : SlotOf(p) = s /\ \A q \in kept : SlotOf(q) = s => q <= p
             Lands(p, s) == /\ p \in Nat /\ SlotOf(p) = s
                            /\ wr.pos <= p /\ p < wr.pos + wr.n
                            /\ wr.seen - Latency <= p /\ p < wr.seen - Latency + RingLen
  <1>1. /\ lane' = [lane EXCEPT ![wr.chan] = [s \in Slots |-> IF s \in hit THEN top(s) ELSE @[s]]]
        /\ filled' = [filled EXCEPT ![wr.chan] = [s \in Slots |-> s \in hit \/ @[s]]]
    BY DEF WritePacket
  <1>2. ASSUME NEW p \in kept
        PROVE  Lands(p, SlotOf(p))
    <2>1. p \in Nat /\ wr.pos <= p /\ p < wr.pos + wr.n /\ Keeps(p, wr.seen)
      BY ThreadTypes, Lengths
    <2>2. RingLen - WordMod <= p - (wr.seen - Latency) /\ p - (wr.seen - Latency) < WordMod
      <3>1. env.lag <= WordMod - RingLen /\ Latency + env.lead + MaxFrames <= WordMod
        BY EnvType DEF NearTimestamps
      <3>2. wr.seen - env.lag <= wr.pos /\ wr.pos <= wr.seen + env.lead
        BY DEF ClockInv, WritePacket
      <3> QED BY <2>1, <3>1, <3>2, ThreadTypes, EnvType, Lengths
    <2>3. wr.seen \in Int /\ p \in Int BY <2>1, ThreadTypes
    <2>4. wr.seen - Latency <= p /\ p < wr.seen - Latency + RingLen
      BY <2>1, <2>2, <2>3, KeepsOnPositions
    <2> QED BY <2>1, <2>4
  <1>3. ASSUME NEW s \in Slots, s \in hit
        PROVE  Lands(top(s), s)
    <2>1. PICK p \in kept : SlotOf(p) = s BY <1>3
    <2>2. ASSUME NEW q \in kept, SlotOf(q) = s PROVE q <= p
      <3>1. Lands(p, s) /\ Lands(q, s) BY <1>2, <2>1, <2>2
      <3> HIDE DEF kept
      <3>2. p = q \/ p >= q + RingLen \/ q >= p + RingLen BY <3>1, SameSlot
      <3> QED BY <3>1, <3>2, ThreadTypes, Lengths
    <2>3. top(s) \in kept /\ SlotOf(top(s)) = s
      <3> HIDE DEF kept
      <3> QED BY <2>1, <2>2
    <2> HIDE DEF top
    <2> QED BY <1>2, <2>3
  <1> HIDE DEF kept, hit, top
  <1>4. ASSUME NEW c \in Chan, NEW s \in Slots
        PROVE  /\ lane'[c][s] = IF c = wr.chan /\ s \in hit THEN top(s) ELSE lane[c][s]
               /\ filled'[c][s] = IF c = wr.chan THEN s \in hit \/ filled[c][s] ELSE filled[c][s]
    BY <1>1 DEF TypeOK
  <1>5. lane' \in [Chan -> [Slots -> Nat \cup {Silence}]]
    <2> DEFINE L == [s \in Slots |-> IF s \in hit THEN top(s) ELSE lane[wr.chan][s]]
    <2>1. \A s \in Slots : lane[wr.chan][s] \in Nat \cup {Silence} BY ThreadTypes DEF TypeOK
    <2>2. L \in [Slots -> Nat \cup {Silence}] BY <1>3, <2>1
    <2>3. lane' = [lane EXCEPT ![wr.chan] = L] BY <1>1
    <2> HIDE DEF L
    <2> QED BY <2>2, <2>3 DEF TypeOK
  <1>6. filled' \in [Chan -> [Slots -> BOOLEAN]]
    <2> DEFINE F == [s \in Slots |-> s \in hit \/ filled[wr.chan][s]]
    <2>1. F \in [Slots -> BOOLEAN] OBVIOUS
    <2>2. filled' = [filled EXCEPT ![wr.chan] = F] BY <1>1
    <2> HIDE DEF F
    <2> QED BY <2>1, <2>2 DEF TypeOK
  <1>7. ASSUME NEW c \in Chan, NEW s \in Slots
        PROVE  \/ lane'[c][s] = lane[c][s] /\ (filled'[c][s] => filled[c][s]) /\ (filled[c][s] => filled'[c][s])
               \/ c = wr.chan /\ filled'[c][s] /\ Lands(lane'[c][s], s)
    <2> HIDE DEF Lands
    <2>1. CASE c = wr.chan /\ s \in hit
      <3>1. lane'[c][s] = top(s) BY <1>4, <2>1
      <3>2. filled'[c][s] BY <1>4, <2>1
      <3> QED BY <1>3, <2>1, <3>1, <3>2
    <2>2. CASE ~(c = wr.chan /\ s \in hit)
      <3>1. lane'[c][s] = lane[c][s] BY <1>4, <2>2
      <3>2. filled'[c][s] <=> filled[c][s] BY <1>4, <2>2
      <3> QED BY <3>1, <3>2
    <2> QED BY <2>1, <2>2
  <1> QED BY <1>5, <1>6, <1>7

------------------------------------------------------------------------------
(* Every step preserves the invariant *)

\* A sample stays where it is while the clock, the last look at it and the
\* reach of the packets only move on.
LEMMA SamplesStay ==
    ASSUME TypeOK, now' \in Int, age' \in Int, wr.busy => wr.seen <= now, LaneInv,
           UNCHANGED <<lane, env>>, LastLook <= LastLook', LastLook' \in Int,
           age # Never => age' # Never /\ now - age <= now' - age'
    PROVE  LaneInv'
  <1> SUFFICES ASSUME NEW c \in Chan, NEW s \in Slots, lane[c][s] # Silence
               PROVE  /\ SlotOf(lane[c][s]) = s
                      /\ lane[c][s] < LastLook' - Latency + RingLen
                      /\ age' # Never /\ lane[c][s] < now' - age' + env.lead + MaxFrames
    BY DEF LaneInv, SampleInv
  <1>1. /\ SlotOf(lane[c][s]) = s /\ lane[c][s] < LastLook - Latency + RingLen
        /\ age # Never /\ lane[c][s] < now - age + env.lead + MaxFrames
    BY DEF LaneInv, SampleInv
  <1>2. lane[c][s] \in Int BY SlotTypes
  <1>3. now \in Int /\ age \in Int BY Lengths DEF TypeOK, Never
  <1>4. LastLook \in Int BY <1>3, ThreadTypes DEF LastLook
  <1>5. lane[c][s] < LastLook' - Latency + RingLen
    BY <1>1, <1>2, <1>4, Lengths
  <1>6. env.lead \in Int BY EnvType
  <1>7. lane[c][s] < now' - age' + env.lead + MaxFrames
    <2>1. now - age <= now' - age' BY <1>1
    <2>2. MaxFrames \in Int BY Lengths
    <2>3. lane[c][s] < now - age + env.lead + MaxFrames BY <1>1
    <2> DEFINE a == now - age
               b == now' - age'
               l == lane[c][s]
               e == env.lead
    <2>4. a \in Int /\ b \in Int /\ l \in Int /\ e \in Int BY <1>2, <1>3, <1>6
    <2>5. a <= b /\ l < a + e + MaxFrames BY <2>1, <2>3
    <2> HIDE DEF a, b, l, e
    <2>6. l < b + e + MaxFrames BY <2>2, <2>4, <2>5
    <2> QED BY <2>6 DEF b, l, e
  <1> QED BY <1>1, <1>5, <1>7

\* Time passes.
LEMMA TickInv ==
    ASSUME RingInv, Tick
    PROVE  RingInv'
  <1> USE DEF RingInv
  <1>1. /\ now' = now + 1 /\ now \in Nat
        /\ age' = IF age \in 0..StaleAfter THEN age + 1 ELSE age
        /\ age \in {Never} \cup 0..StaleAfter + 1
        /\ UNCHANGED <<lane, filled, patched, wr, rd, out, consumed, env>>
    BY DEF Tick, TypeOK
  <1>2. age' \in {Never} \cup 0..StaleAfter + 1 /\ age' \in Int
    BY <1>1, Lengths DEF Never
  <1>3. TypeOK'
    BY <1>1, <1>2 DEF TypeOK
  <1>4. ClockInv'
    BY <1>1, EnvType, ThreadTypes DEF Tick, ClockInv
  <1>5. LaneInv'
    <2>1. LastLook <= LastLook' /\ LastLook' \in Int
      BY <1>1, ThreadTypes DEF LastLook
    <2>2. age # Never => age' # Never /\ now - age <= now' - age'
      BY <1>1, Lengths DEF Never
    <2>3. wr.busy => wr.seen <= now BY DEF ClockInv
    <2> QED BY <1>1, <1>2, <2>1, <2>2, <2>3, SamplesStay
  <1>6. FilledInv' BY <1>1 DEF FilledInv
  <1>7. TimelyInv'
    <2>1. env.timely => now' - Latency <= consumed BY <1>1, Lengths DEF Tick, TypeOK
    <2> QED BY <1>1, <2>1 DEF TimelyInv
  <1> QED BY <1>3, <1>4, <1>5, <1>6, <1>7

\* A patch does not touch the lanes.
LEMMA SetPatchedInv ==
    ASSUME RingInv, NEW c \in Chan, SetPatched(c)
    PROVE  RingInv'
  <1> USE DEF RingInv
  <1>1. UNCHANGED <<now, lane, filled, age, wr, rd, out, consumed, env>>
    BY DEF SetPatched
  <1>2. TypeOK'
    <2>1. patched' \in [Chan -> BOOLEAN] BY DEF SetPatched, TypeOK
    <2> QED BY <1>1, <2>1 DEF TypeOK
  <1>3. ClockInv' BY <1>1 DEF ClockInv
  <1>4. LaneInv' BY <1>1 DEF LaneInv, SampleInv, LastLook
  <1>5. FilledInv' /\ TimelyInv' BY <1>1 DEF FilledInv, TimelyInv
  <1> QED BY <1>2, <1>3, <1>4, <1>5

\* The media thread looks at the clock: it has seen the present.
LEMMA ArriveInv ==
    ASSUME RingInv, NEW c \in Chan, NEW p \in Timestamps, NEW n \in 1..MaxFrames, Arrive(c, p, n)
    PROVE  RingInv'
  <1> USE DEF RingInv
  <1>1. /\ UNCHANGED <<now, lane, filled, patched, age, rd, out, consumed, env>>
        /\ wr' = [busy |-> TRUE, chan |-> c, pos |-> p, n |-> n, seen |-> now]
        /\ ~wr.busy
    BY DEF Arrive
  <1>2. now \in Nat /\ p \in Nat /\ now - env.lag <= p /\ p <= now + env.lead
    BY EnvType DEF TypeOK, Timestamps
  <1>3. TypeOK'
    <2>1. wr' \in [busy: BOOLEAN, chan: Chan, pos: Nat, n: 0..MaxFrames, seen: Nat]
      BY <1>1, <1>2, Lengths
    <2> QED BY <1>1, <2>1 DEF TypeOK
  <1>4. ClockInv' BY <1>1, <1>2 DEF ClockInv
  <1>5. LaneInv'
    <2>1. LastLook' = now /\ LastLook = now BY <1>1 DEF LastLook
    <2> QED BY <1>1, <2>1 DEF LaneInv, SampleInv
  <1>6. FilledInv' /\ TimelyInv' BY <1>1 DEF FilledInv, TimelyInv
  <1> QED BY <1>3, <1>4, <1>5, <1>6

\* What write_packet stores is within a ring's length of the read position,
\* and what it leaves was.
LEMMA WritePacketInv ==
    ASSUME NearTimestamps, RingInv, WritePacket
    PROVE  RingInv'
  <1> USE DEF RingInv
  <1>1. /\ UNCHANGED <<now, patched, rd, out, consumed, env>>
        /\ age' = 0 /\ wr.busy /\ ~wr'.busy /\ wr' = IdleWriter
        /\ env.timely => wr.pos >= consumed
    BY IdleTypes DEF WritePacket
  <1>2. now \in Nat /\ age \in {Never} \cup 0..StaleAfter + 1 /\ consumed \in Int BY DEF TypeOK
  <1>3. wr.seen <= now /\ wr.pos <= wr.seen + env.lead BY <1>1 DEF ClockInv
  <1>4. TypeOK'
    <2>1. /\ lane' \in [Chan -> [Slots -> Nat \cup {Silence}]]
          /\ filled' \in [Chan -> [Slots -> BOOLEAN]]
      BY WriteEffect
    <2>2. age' \in {Never} \cup 0..StaleAfter + 1 BY <1>1, Lengths
    <2> QED BY <1>1, <2>1, <2>2, IdleTypes DEF TypeOK
  <1>5. ClockInv' BY <1>1 DEF ClockInv
  <1>6. ASSUME NEW c \in Chan, NEW s \in Slots
        PROVE  /\ SampleInv(c, s)'
               /\ filled'[c][s] => lane'[c][s] # Silence
               /\ env.timely /\ filled'[c][s] => consumed <= lane'[c][s]
    <2> DEFINE l == lane'[c][s]
    <2>1. SampleInv(c, s)' <=>
            (l # Silence => SlotOf(l) = s /\ l < now - Latency + RingLen /\ l < now + env.lead + MaxFrames)
      BY <1>1, <1>2, EnvType, Lengths DEF SampleInv, LastLook, Never
    <2>2. CASE /\ l = lane[c][s] /\ (filled'[c][s] => filled[c][s])
      <3>1. (filled[c][s] => l # Silence) /\ (env.timely /\ filled[c][s] => consumed <= l)
        BY <2>2 DEF FilledInv, TimelyInv
      <3>2. l # Silence => /\ SlotOf(l) = s /\ l < wr.seen - Latency + RingLen
                           /\ age # Never /\ l < now - age + env.lead + MaxFrames
        BY <1>1, <2>2 DEF LaneInv, SampleInv, LastLook
      <3>3. l \in Int BY <2>2, SlotTypes
      <3>4. age # Never => age \in Nat BY <1>2, Lengths
      <3> HIDE DEF l
      <3>5. l # Silence => SlotOf(l) = s /\ l < now - Latency + RingLen /\ l < now + env.lead + MaxFrames
        BY <1>2, <1>3, <3>2, <3>3, <3>4, ThreadTypes, EnvType, Lengths
      <3> QED BY <2>1, <2>2, <3>1, <3>5 DEF l
    <2>3. CASE /\ l \in Nat /\ SlotOf(l) = s
               /\ wr.pos <= l /\ l < wr.pos + wr.n
               /\ wr.seen - Latency <= l /\ l < wr.seen - Latency + RingLen
      <3>1. l # Silence BY <2>3 DEF Silence
      <3>2. l < now - Latency + RingLen /\ l < now + env.lead + MaxFrames
        BY <1>2, <1>3, <2>3, ThreadTypes, EnvType, Lengths
      <3>3. env.timely => consumed <= l
        BY <1>1, <1>2, <2>3, ThreadTypes
      <3> QED BY <2>1, <2>3, <3>1, <3>2, <3>3
    <2> HIDE DEF l
    <2>4. \/ l = lane[c][s] /\ (filled'[c][s] => filled[c][s])
          \/ /\ l \in Nat /\ SlotOf(l) = s
             /\ wr.pos <= l /\ l < wr.pos + wr.n
             /\ wr.seen - Latency <= l /\ l < wr.seen - Latency + RingLen
      BY WriteEffect DEF l
    <2> QED BY <2>2, <2>3, <2>4
  <1>7. LaneInv' BY <1>6 DEF LaneInv
  <1>8. FilledInv' BY <1>6 DEF FilledInv
  <1>9. TimelyInv' BY <1>1, <1>6 DEF TimelyInv
  <1> QED BY <1>4, <1>5, <1>7, <1>8, <1>9

\* The caller of try_read looks at the clock.
LEMMA TryReadInv ==
    ASSUME RingInv, NEW n \in 1..MaxFrames, TryRead(n)
    PROVE  RingInv'
  <1> USE DEF RingInv
  <1>1. UNCHANGED <<now, lane, filled, patched, age, wr, consumed, env>>
    BY DEF TryRead
  <1>2. now \in Nat BY DEF TypeOK
  <1>3. \/ out' = {} /\ UNCHANGED rd
        \/ /\ rd' = [busy |-> TRUE, n |-> n, seen |-> now] /\ UNCHANGED out
           /\ Latency <= now
    <2>1. ASSUME now % WordMod >= Latency PROVE now >= Latency
      <3> DEFINE r == now % WordMod
      <3>1. PICK q \in Int : now = q * WordMod + r BY <1>2, Lengths, Division
      <3>2. r \in Int /\ r >= 0 /\ r < WordMod BY <1>2, Lengths, Division
      <3>3. r >= Latency BY <2>1
      <3> HIDE DEF r
      <3>4. ASSUME 0 > q PROVE FALSE
        <4>1. 0 * WordMod >= q * WordMod + WordMod BY <3>4, Lengths, Multiples
        <4>2. 0 * WordMod = 0 /\ q * WordMod \in Int BY Lengths
        <4> QED BY <1>2, <3>1, <3>2, <4>1, <4>2, Lengths
      <3>5. q * WordMod >= 0
        <4>1. q >= 0 BY <3>4
        <4> QED BY <4>1, Lengths
      <3>6. q * WordMod \in Int BY Lengths
      <3> QED BY <3>1, <3>2, <3>3, <3>5, <3>6, Lengths
    <2> QED BY <2>1 DEF TryRead, Word
  <1>4. TypeOK'
    <2>1. CASE out' = {} /\ UNCHANGED rd BY <1>1, <2>1 DEF TypeOK
    <2>2. CASE rd' = [busy |-> TRUE, n |-> n, seen |-> now] /\ UNCHANGED out
      <3>1. rd' \in [busy: BOOLEAN, n: 0..MaxFrames, seen: Nat] BY <1>2, <2>2, Lengths
      <3> QED BY <1>1, <2>2, <3>1 DEF TypeOK
    <2> QED BY <1>3, <2>1, <2>2
  <1>5. ClockInv'
    <2>1. CASE UNCHANGED rd BY <1>1, <2>1 DEF ClockInv
    <2>2. CASE rd' = [busy |-> TRUE, n |-> n, seen |-> now] /\ Latency <= now
      <3>1. n >= 1 BY Lengths
      <3>2. now - now <= env.delay /\ now <= now BY <1>2, EnvType
      <3> QED BY <1>1, <2>2, <3>1, <3>2 DEF ClockInv
    <2> QED BY <1>3, <2>1, <2>2
  <1>6. LaneInv' BY <1>1 DEF LaneInv, SampleInv, LastLook
  <1>7. FilledInv' /\ TimelyInv' BY <1>1 DEF FilledInv, TimelyInv
  <1> QED BY <1>4, <1>5, <1>6, <1>7

\* Ring::read returns no frames.
LEMMA ReadNothingInv ==
    ASSUME RingInv, ReadNothing
    PROVE  RingInv'
  <1> USE DEF RingInv
  <1>1. /\ UNCHANGED <<now, lane, filled, patched, age, wr, consumed, env>>
        /\ out' = {} /\ rd' = IdleReader
    BY DEF ReadNothing
  <1>2. TypeOK' BY <1>1, IdleTypes DEF TypeOK
  <1>3. ClockInv' BY <1>1, IdleTypes DEF ClockInv
  <1>4. LaneInv' BY <1>1 DEF LaneInv, SampleInv, LastLook
  <1>5. FilledInv' /\ TimelyInv' BY <1>1 DEF FilledInv, TimelyInv
  <1> QED BY <1>2, <1>3, <1>4, <1>5

\* The positions a read is for.
Block == rd.seen - Latency..rd.seen - Latency + rd.n - 1

\* What Ring::read does: the slots of its block are cleared, and the first
\* position no read has covered is past the block.
LEMMA ReadEffect ==
    ASSUME TypeOK, ClockInv, ReadBlock
    PROVE  /\ rd.busy /\ rd' = IdleReader /\ UNCHANGED <<now, lane, patched, age, wr, env>>
           /\ Block \subseteq Nat
           /\ out' = {[chan |-> c, at |-> p,
                       val |-> IF filled[c][SlotOf(p)] THEN lane[c][SlotOf(p)] ELSE Silence]
                       : c \in Chan, p \in Block}
           /\ filled' \in [Chan -> [Slots -> BOOLEAN]]
           /\ \A c \in Chan : \A s \in Slots :
                (filled'[c][s] => filled[c][s] /\ \A p \in Block : SlotOf(p) # s)
                /\ (filled[c][s] /\ (\A p \in Block : SlotOf(p) # s) => filled'[c][s])
           /\ consumed' \in Int
           /\ consumed' = consumed \/ consumed' = rd.seen - Latency + rd.n
  <1> DEFINE hit == {SlotOf(p) : p \in Block}
  <1>1. rd.busy /\ rd' = IdleReader /\ UNCHANGED <<now, lane, patched, age, wr, env>>
    BY DEF ReadBlock
  <1>2. Block \subseteq Nat
    <2>1. Latency <= rd.seen BY <1>1 DEF ClockInv
    <2> QED BY <2>1, ThreadTypes, Lengths DEF Block
  <1>3. out' = {[chan |-> c, at |-> p,
                 val |-> IF filled[c][SlotOf(p)] THEN lane[c][SlotOf(p)] ELSE Silence]
                 : c \in Chan, p \in Block}
    BY DEF ReadBlock, Block
  <1>4. filled' = [c \in Chan |-> [s \in Slots |-> filled[c][s] /\ s \notin hit]]
    BY DEF ReadBlock, Block
  <1>5. filled' \in [Chan -> [Slots -> BOOLEAN]]
    <2> HIDE DEF hit
    <2> QED BY <1>4
  <1>6. ASSUME NEW c \in Chan, NEW s \in Slots
        PROVE  /\ filled'[c][s] => filled[c][s] /\ \A p \in Block : SlotOf(p) # s
               /\ filled[c][s] /\ (\A p \in Block : SlotOf(p) # s) => filled'[c][s]
    <2>1. filled'[c][s] = (filled[c][s] /\ s \notin hit) BY <1>4
    <2>2. s \in hit <=> \E p \in Block : SlotOf(p) = s OBVIOUS
    <2> HIDE DEF hit
    <2> QED BY <2>1, <2>2
  <1>7. consumed' = IF rd.seen - Latency + rd.n > consumed THEN rd.seen - Latency + rd.n ELSE consumed
    BY DEF ReadBlock
  <1>8. consumed' \in Int /\ (consumed' = consumed \/ consumed' = rd.seen - Latency + rd.n)
    BY <1>7, ThreadTypes, Lengths DEF TypeOK
  <1> QED BY <1>1, <1>2, <1>3, <1>5, <1>6, <1>8

\* Ring::read clears its block: what is left is not passed yet.
LEMMA ReadBlockInv ==
    ASSUME RingInv, ReadBlock
    PROVE  RingInv'
  <1> USE DEF RingInv
  <1>1. rd.busy /\ rd' = IdleReader /\ UNCHANGED <<now, lane, patched, age, wr, env>>
    BY ReadEffect
  <1>2. /\ consumed' \in Int /\ consumed \in Int /\ now \in Nat
        /\ consumed' = consumed \/ consumed' = rd.seen - Latency + rd.n
        /\ consumed' >= consumed
    <2>1. consumed' = IF rd.seen - Latency + rd.n > consumed THEN rd.seen - Latency + rd.n ELSE consumed
      BY DEF ReadBlock
    <2> QED BY <2>1, ReadEffect, ThreadTypes, Lengths DEF TypeOK
  <1>3. ASSUME NEW c \in Chan, NEW s \in Slots, filled'[c][s]
        PROVE  filled[c][s] /\ \A p \in Block : SlotOf(p) # s
    BY <1>3, ReadEffect
  <1>4. TypeOK'
    <2>1. out' \subseteq [chan: Chan, at: Nat, val: Nat \cup {Silence}]
      <3>1. ASSUME NEW c \in Chan, NEW p \in Block
            PROVE  /\ p \in Nat
                   /\ (IF filled[c][SlotOf(p)] THEN lane[c][SlotOf(p)] ELSE Silence) \in Nat \cup {Silence}
        <4>1. p \in Nat BY ReadEffect
        <4>2. SlotOf(p) \in Slots BY <4>1, SlotType
        <4>3. lane[c][SlotOf(p)] \in Nat \cup {Silence} BY <4>2 DEF TypeOK
        <4> QED BY <4>1, <4>3
      <3>2. out' = {[chan |-> c, at |-> p,
                     val |-> IF filled[c][SlotOf(p)] THEN lane[c][SlotOf(p)] ELSE Silence]
                     : c \in Chan, p \in Block}
        BY ReadEffect
      <3> QED BY <3>1, <3>2
    <2>2. filled' \in [Chan -> [Slots -> BOOLEAN]] BY ReadEffect
    <2> QED BY <1>1, <1>2, <2>1, <2>2, IdleTypes DEF TypeOK
  <1>5. ClockInv' BY <1>1, IdleTypes DEF ClockInv
  <1>6. LaneInv' BY <1>1 DEF LaneInv, SampleInv, LastLook
  <1>7. FilledInv' BY <1>1, <1>3 DEF FilledInv
  <1>8. TimelyInv'
    <2> SUFFICES ASSUME env.timely
                 PROVE  /\ now - Latency <= consumed'
                        /\ \A c \in Chan : \A s \in Slots : filled'[c][s] => consumed' <= lane[c][s]
      BY <1>1 DEF TimelyInv
    <2>1. now - Latency <= consumed BY DEF TimelyInv
    <2>2. now - Latency <= consumed' BY <1>2, <2>1, Lengths
    <2>3. ASSUME NEW c \in Chan, NEW s \in Slots, filled'[c][s] PROVE consumed' <= lane[c][s]
      <3>1. filled[c][s] /\ \A p \in Block : SlotOf(p) # s BY <1>3, <2>3
      <3>2. consumed <= lane[c][s] BY <3>1 DEF TimelyInv
      <3>3. lane[c][s] # Silence /\ SlotOf(lane[c][s]) = s BY <3>1 DEF FilledInv, LaneInv, SampleInv
      <3>4. lane[c][s] \in Int BY SlotTypes
      <3>5. lane[c][s] \notin Block BY <3>1, <3>3
      <3>6. rd.seen <= now BY <1>1 DEF ClockInv
      <3> QED BY <1>2, <2>1, <3>2, <3>4, <3>5, <3>6, ThreadTypes, Lengths DEF Block
    <2> QED BY <2>2, <2>3
  <1> QED BY <1>4, <1>5, <1>6, <1>7, <1>8

\* write_packet, try_read and Ring::read keep the ring's invariant, as long as
\* timestamps are near the clock.
THEOREM RingInvariant == NearTimestamps /\ Spec => []RingInv
  <1> SUFFICES ASSUME NearTimestamps PROVE Spec => []RingInv
    OBVIOUS
  <1>1. Init => RingInv BY InitInv
  <1>2. RingInv /\ [Next]_vars => RingInv'
    <2> SUFFICES ASSUME RingInv, [Next]_vars PROVE RingInv' OBVIOUS
    <2>1. CASE Tick BY <2>1, TickInv
    <2>2. ASSUME NEW c \in Chan, SetPatched(c) PROVE RingInv' BY <2>2, SetPatchedInv
    <2>3. ASSUME NEW c \in Chan, NEW p \in Timestamps, NEW n \in 1..MaxFrames, Arrive(c, p, n)
          PROVE  RingInv'
      BY <2>3, ArriveInv
    <2>4. CASE WritePacket BY <2>4, WritePacketInv
    <2>5. ASSUME NEW n \in 1..MaxFrames, TryRead(n) PROVE RingInv' BY <2>5, TryReadInv
    <2>6. CASE ReadNothing BY <2>6, ReadNothingInv
    <2>7. CASE ReadBlock BY <2>7, ReadBlockInv
    <2>8. CASE UNCHANGED vars
      BY <2>8 DEF vars, RingInv, TypeOK, ClockInv, LaneInv, SampleInv, LastLook, FilledInv, TimelyInv
    <2> QED BY <2>1, <2>2, <2>3, <2>4, <2>5, <2>6, <2>7, <2>8 DEF Next
  <1> QED BY <1>1, <1>2, PTL DEF Spec

\* The ring's state and its threads' keep their types: each slot is written by
\* one frame of a packet.
THEOREM TypeCorrect == NearTimestamps /\ Spec => []TypeOK
  <1>1. RingInv => TypeOK BY DEF RingInv
  <1> QED BY <1>1, RingInvariant, PTL

------------------------------------------------------------------------------
(* What a read returns and what a write keeps *)

\* The sample of a slot is for the position that is read there, or for one of
\* an earlier lap.
LEMMA ReadsNoLaterLap ==
    ASSUME RoomForDelay, RingInv, rd.busy, NEW c \in Chan, NEW p \in Block,
           filled[c][SlotOf(p)]
    PROVE  /\ lane[c][SlotOf(p)] \in Int /\ p \in Int
           /\ SlotOf(lane[c][SlotOf(p)]) = SlotOf(p)
           /\ lane[c][SlotOf(p)] = p \/ lane[c][SlotOf(p)] <= p - RingLen
  <1> USE DEF RingInv
  <1> DEFINE l == lane[c][SlotOf(p)]
  <1>1. p \in Int /\ rd.seen - Latency <= p BY ThreadTypes, Lengths DEF Block
  <1>2. SlotOf(p) \in Slots BY <1>1, SlotType
  <1>3. l # Silence BY <1>2 DEF FilledInv
  <1>4. /\ SlotOf(l) = SlotOf(p) /\ l < LastLook - Latency + RingLen
        /\ age # Never /\ l < now - age + env.lead + MaxFrames
    BY <1>2, <1>3 DEF LaneInv, SampleInv
  <1>5. l \in Int BY <1>2, SlotTypes
  <1>6. now \in Nat /\ age \in Nat BY <1>4, Lengths DEF TypeOK
  <1>7. LastLook \in Int /\ LastLook <= now
    BY <1>6, ThreadTypes DEF LastLook, ClockInv
  <1>8. now - rd.seen <= env.delay /\ rd.seen <= now BY DEF ClockInv
  <1> HIDE DEF l, LastLook
  <1>9. l < rd.seen - Latency + RingLen
    <2>1. CASE env.delay = 0
      BY <1>4, <1>5, <1>6, <1>7, <1>8, <2>1, ThreadTypes, Lengths
    <2>2. CASE Latency + env.lead + env.delay + MaxFrames <= RingLen
      BY <1>4, <1>5, <1>6, <1>8, <2>2, EnvType, ThreadTypes, Lengths
    <2> QED BY <2>1, <2>2, EnvType DEF RoomForDelay
  <1>10. l = p \/ l >= p + RingLen \/ p >= l + RingLen
    BY <1>1, <1>4, <1>5, SameSlot
  <1>11. l = p \/ l <= p - RingLen
    BY <1>1, <1>5, <1>9, <1>10, ThreadTypes, Lengths
  <1> QED BY <1>1, <1>4, <1>5, <1>11 DEF l

\* Ring::read returns nothing before its time, whatever the delay between its
\* look at the clock and the mutex, if the ring has room for that delay.
THEOREM NothingIsPlayedEarly == NearTimestamps /\ RoomForDelay /\ Spec => []NeverEarly
  <1> SUFFICES ASSUME NearTimestamps, RoomForDelay PROVE Spec => []NeverEarly
    OBVIOUS
  <1>1. Init => NeverEarly BY DEF Init, NeverEarly
  <1>2. RingInv /\ NeverEarly /\ [Next]_vars => NeverEarly'
    <2> SUFFICES ASSUME RingInv, NeverEarly, [Next]_vars PROVE NeverEarly' OBVIOUS
    <2>1. CASE out' = out BY <2>1 DEF NeverEarly
    <2>2. CASE out' = {} BY <2>2 DEF NeverEarly
    <2>3. CASE ReadBlock
      <3>1. /\ rd.busy /\ Block \subseteq Nat
            /\ out' = {[chan |-> c, at |-> p,
                        val |-> IF filled[c][SlotOf(p)] THEN lane[c][SlotOf(p)] ELSE Silence]
                        : c \in Chan, p \in Block}
        BY <2>3, ReadEffect DEF RingInv
      <3>2. ASSUME NEW c \in Chan, NEW p \in Block
            PROVE  (IF filled[c][SlotOf(p)] THEN lane[c][SlotOf(p)] ELSE Silence) <= p
        <4>1. CASE filled[c][SlotOf(p)]
          <5>1. /\ lane[c][SlotOf(p)] \in Int /\ p \in Int
                /\ lane[c][SlotOf(p)] = p \/ lane[c][SlotOf(p)] <= p - RingLen
            BY <3>1, <4>1, ReadsNoLaterLap
          <5>2. lane[c][SlotOf(p)] <= p BY <5>1, Lengths
          <5> QED BY <4>1, <5>2
        <4>2. CASE ~filled[c][SlotOf(p)]
          BY <3>1, <4>2 DEF Silence
        <4> QED BY <4>1, <4>2
      <3> QED BY <3>1, <3>2 DEF NeverEarly
    <2>4. out' = out \/ out' = {} \/ ReadBlock
      BY DEF Next, vars, Tick, SetPatched, Arrive, WritePacket, TryRead, ReadNothing
    <2> QED BY <2>1, <2>2, <2>3, <2>4
  <1> QED BY <1>1, <1>2, RingInvariant, PTL DEF Spec

\* What a write replaces is past due.
LEMMA ReplacedIsDue ==
    ASSUME NearTimestamps, RingInv, WritePacket, NEW c \in Chan, NEW s \in Slots,
           filled[c][s], lane'[c][s] # lane[c][s]
    PROVE  lane[c][s] < now - Latency
  <1> USE DEF RingInv
  <1> DEFINE l == lane[c][s]
             k == lane'[c][s]
  <1>1. /\ k \in Nat /\ SlotOf(k) = s /\ wr.seen - Latency <= k /\ k < wr.seen - Latency + RingLen
    BY WriteEffect
  <1>2. l # Silence BY DEF FilledInv
  <1>3. SlotOf(l) = s /\ l < LastLook - Latency + RingLen
    BY <1>2 DEF LaneInv, SampleInv
  <1>4. wr.busy BY DEF WritePacket
  <1>5. LastLook = wr.seen /\ wr.seen <= now BY <1>4 DEF LastLook, ClockInv
  <1>6. l \in Int BY SlotTypes
  <1>7. k # l OBVIOUS
  <1>8. now \in Nat BY DEF TypeOK
  <1> HIDE DEF l, k, LastLook
  <1>9. k = l \/ k >= l + RingLen \/ l >= k + RingLen
    BY <1>1, <1>3, <1>6, SameSlot
  <1>10. l < now - Latency
    BY <1>1, <1>3, <1>5, <1>6, <1>7, <1>8, <1>9, ThreadTypes, Lengths
  <1> QED BY <1>10 DEF l

\* write_packet never overwrites what is still to be played.
THEOREM WritesKeepWhatIsDue == NearTimestamps /\ Spec => DueIsKept
  <1> SUFFICES ASSUME NearTimestamps PROVE Spec => DueIsKept
    OBVIOUS
  <1> DEFINE Kept == \A c \in Chan : \A s \in Slots :
                       filled[c][s] /\ filled'[c][s] /\ lane'[c][s] # lane[c][s]
                         => lane[c][s] < now - Latency
  <1>1. RingInv /\ [Next]_vars => [Kept]_vars
    <2> SUFFICES ASSUME RingInv, [Next]_vars PROVE Kept OBVIOUS
    <2>1. CASE WritePacket BY <2>1, ReplacedIsDue
    <2>2. CASE UNCHANGED lane BY <2>2
    <2>3. WritePacket \/ UNCHANGED lane
      BY DEF Next, vars, Tick, SetPatched, Arrive, TryRead, ReadNothing, ReadBlock
    <2> QED BY <2>1, <2>2, <2>3
  <1> QED BY <1>1, RingInvariant, PTL DEF Spec, DueIsKept

\* The cut-off of Ring::read after the last packet withholds nothing that is
\* due, in time and if the latency and a packet's reach fit in it.
THEOREM CutOffWithholdsNothing == NearTimestamps /\ Spec => TailIsPlayed
  <1> SUFFICES ASSUME NearTimestamps PROVE Spec => TailIsPlayed
    OBVIOUS
  <1> DEFINE Cut == /\ env.timely /\ Latency + env.lead + MaxFrames <= StaleAfter
                    /\ rd.busy /\ ~rd'.busy /\ out' = {} /\ age # Never /\ (\E c \in Chan : patched[c])
             Played == \A x \in Held : x[2] \notin rd.seen - Latency..rd.seen - Latency + rd.n - 1
  <1>1. RingInv /\ [Next]_vars => [Cut => Played]_vars
    <2> SUFFICES ASSUME RingInv, [Next]_vars, Cut PROVE Played OBVIOUS
    <2> USE DEF RingInv
    <2>1. ReadNothing
      <3>1. rd' # rd OBVIOUS
      <3>2. \A n \in 1..MaxFrames : ~TryRead(n) BY DEF TryRead
      <3>3. ReadNothing \/ ReadBlock
        BY <3>1, <3>2 DEF Next, vars, Tick, SetPatched, Arrive, WritePacket
      <3>4. ASSUME ReadBlock PROVE FALSE
        <4>1. out' = {[chan |-> c, at |-> p,
                       val |-> IF filled[c][SlotOf(p)] THEN lane[c][SlotOf(p)] ELSE Silence]
                       : c \in Chan, p \in Block}
          BY <3>4, ReadEffect
        <4>2. rd.n >= 1 BY DEF ClockInv
        <4>3. rd.seen - Latency \in Block BY <4>2, ThreadTypes, Lengths DEF Block
        <4>4. PICK c \in Chan : patched[c] OBVIOUS
        <4>5. PICK p \in Block : TRUE BY <4>3
        <4> DEFINE Rec(d, q) == [chan |-> d, at |-> q,
                                 val |-> IF filled[d][SlotOf(q)] THEN lane[d][SlotOf(q)] ELSE Silence]
        <4>6. {Rec(d, q) : d \in Chan, q \in Block} = {} BY <4>1
        <4> HIDE DEF Rec
        <4>7. Rec(c, p) \in {Rec(d, q) : d \in Chan, q \in Block} OBVIOUS
        <4> QED BY <4>6, <4>7
      <3> QED BY <3>3, <3>4
    <2>2. age = StaleAfter + 1
      BY <2>1, Lengths DEF ReadNothing, Fresh, TypeOK
    <2>3. ASSUME NEW c \in Chan, NEW s \in Slots PROVE ~filled[c][s]
      <3> SUFFICES ASSUME filled[c][s] PROVE FALSE OBVIOUS
      <3>1. lane[c][s] # Silence BY DEF FilledInv
      <3>2. lane[c][s] < now - age + env.lead + MaxFrames BY <3>1 DEF LaneInv, SampleInv
      <3>3. now - Latency <= consumed /\ consumed <= lane[c][s] BY DEF TimelyInv
      <3>4. lane[c][s] \in Int /\ now \in Int /\ consumed \in Int BY SlotTypes DEF TypeOK
      <3> QED BY <2>2, <3>2, <3>3, <3>4, EnvType, Lengths
    <2>4. Held = {} BY <2>3 DEF Held
    <2> QED BY <2>4
  <1> QED BY <1>1, RingInvariant, PTL DEF Spec, TailIsPlayed

------------------------------------------------------------------------------
(* The ring implements the jitter buffer *)

\* The samples held, as pairs.
LEMMA HeldMembers ==
    ASSUME NEW x
    PROVE  /\ x \in Held <=> \E c \in Chan : \E s \in Slots : filled[c][s] /\ x = <<c, lane[c][s]>>
           /\ x \in Held' <=> \E c \in Chan : \E s \in Slots : filled'[c][s] /\ x = <<c, lane'[c][s]>>
  BY DEF Held

\* In time, a slot of the block holds the sample of its position or none: a
\* reader that keeps up has passed whatever an earlier lap left.
LEMMA BlockHolds ==
    ASSUME RoomForDelay, RingInv, env.timely, rd.busy, NEW c \in Chan, NEW p \in Block
    PROVE  /\ p \in Int /\ SlotOf(p) \in Slots
           /\ filled[c][SlotOf(p)] => lane[c][SlotOf(p)] = p
           /\ <<c, p>> \in Held <=> filled[c][SlotOf(p)]
  <1> USE DEF RingInv
  <1>1. p \in Int /\ p < rd.seen - Latency + rd.n BY ThreadTypes, Lengths DEF Block
  <1>2. SlotOf(p) \in Slots BY <1>1, SlotType
  <1>3. ASSUME filled[c][SlotOf(p)] PROVE lane[c][SlotOf(p)] = p
    <2> DEFINE l == lane[c][SlotOf(p)]
    <2>1. l \in Int /\ (l = p \/ l <= p - RingLen) BY <1>3, ReadsNoLaterLap
    <2>2. now - Latency <= consumed /\ consumed <= l BY <1>2, <1>3 DEF TimelyInv
    <2>3. rd.seen <= now BY DEF ClockInv
    <2>4. now \in Int /\ consumed \in Int BY DEF TypeOK
    <2>5. MaxFrames <= RingLen BY DEF RoomForDelay
    <2> HIDE DEF l
    <2>6. l = p BY <1>1, <2>1, <2>2, <2>3, <2>4, <2>5, ThreadTypes, Lengths
    <2> QED BY <2>6 DEF l
  <1>4. ASSUME filled[c][SlotOf(p)] PROVE <<c, p>> \in Held
    BY <1>2, <1>3, <1>4, HeldMembers
  <1>5. ASSUME <<c, p>> \in Held PROVE filled[c][SlotOf(p)]
    <2>1. PICK d \in Chan, s \in Slots : filled[d][s] /\ <<c, p>> = <<d, lane[d][s]>>
      BY <1>5, HeldMembers
    <2>2. d = c /\ lane[d][s] = p BY <2>1
    <2>3. SlotOf(lane[d][s]) = s BY <2>1 DEF FilledInv, LaneInv, SampleInv
    <2> QED BY <2>1, <2>2, <2>3
  <1> QED BY <1>1, <1>2, <1>3, <1>4, <1>5

\* A write in time only adds samples, and only for its channel.
LEMMA WriteAdds ==
    ASSUME NearTimestamps, RingInv, env.timely, WritePacket
    PROVE  /\ wr.chan \in Chan
           /\ Held \subseteq Held'
           /\ \A x \in Held' \ Held : x[1] = wr.chan
  <1> USE DEF RingInv
  <1>1. ASSUME NEW c \in Chan, NEW s \in Slots, filled[c][s]
        PROVE  filled'[c][s] /\ lane'[c][s] = lane[c][s]
    <2>1. filled'[c][s] BY <1>1, WriteEffect
    <2>2. ASSUME lane'[c][s] # lane[c][s] PROVE FALSE
      <3>1. lane[c][s] < now - Latency BY <1>1, <2>2, ReplacedIsDue
      <3>2. now - Latency <= consumed /\ consumed <= lane[c][s] BY <1>1 DEF TimelyInv
      <3>3. lane[c][s] \in Int /\ now \in Int /\ consumed \in Int BY SlotTypes DEF TypeOK
      <3> QED BY <3>1, <3>2, <3>3, Lengths
    <2> QED BY <2>1, <2>2
  <1>2. ASSUME NEW x \in Held PROVE x \in Held'
    <2>1. PICK c \in Chan, s \in Slots : filled[c][s] /\ x = <<c, lane[c][s]>> BY HeldMembers
    <2>2. filled'[c][s] /\ x = <<c, lane'[c][s]>> BY <1>1, <2>1
    <2> QED BY <2>2, HeldMembers
  <1>3. ASSUME NEW x \in Held', x \notin Held PROVE x[1] = wr.chan
    <2>1. PICK c \in Chan, s \in Slots : filled'[c][s] /\ x = <<c, lane'[c][s]>> BY HeldMembers
    <2>2. ASSUME c # wr.chan PROVE FALSE
      <3>1. lane'[c][s] = lane[c][s] /\ (filled'[c][s] => filled[c][s]) BY <2>2, WriteEffect
      <3> QED BY <1>3, <2>1, <3>1, HeldMembers
    <2> QED BY <2>1, <2>2
  <1> QED BY <1>2, <1>3, ThreadTypes

\* A read in time takes the samples of its block.
LEMMA ReadTakes ==
    ASSUME RoomForDelay, RingInv, env.timely, ReadBlock
    PROVE  /\ rd.n \in 1..MaxFrames
           /\ rd.seen - Latency \in UNION {e.start - Latency..e.start + e.ticks : e \in Environments}
           /\ out' = {[chan |-> c, at |-> p, val |-> IF <<c, p>> \in Held THEN p ELSE Silence]
                       : c \in Chan, p \in Block}
           /\ Held' = Held \ (Chan \X Block)
  <1> USE DEF RingInv
  <1>1. rd.busy /\ UNCHANGED lane BY ReadEffect
  <1>2. rd.n \in 1..MaxFrames BY <1>1, ThreadTypes, Lengths DEF ClockInv
  <1>3. rd.seen - Latency \in UNION {e.start - Latency..e.start + e.ticks : e \in Environments}
    <2>1. env.start <= rd.seen /\ rd.seen <= now /\ now <= env.start + env.ticks BY <1>1 DEF ClockInv
    <2>2. now \in Nat BY DEF TypeOK
    <2>3. rd.seen - Latency \in env.start - Latency..env.start + env.ticks
      BY <2>1, <2>2, EnvType, ThreadTypes, Lengths
    <2> QED BY <2>3, EnvType
  <1>4. out' = {[chan |-> c, at |-> p, val |-> IF <<c, p>> \in Held THEN p ELSE Silence]
                 : c \in Chan, p \in Block}
    <2> DEFINE Stored(c, p) ==
                 [chan |-> c, at |-> p,
                  val |-> IF filled[c][SlotOf(p)] THEN lane[c][SlotOf(p)] ELSE Silence]
               Found(c, p) == [chan |-> c, at |-> p, val |-> IF <<c, p>> \in Held THEN p ELSE Silence]
               AllStored == {Stored(c, p) : c \in Chan, p \in Block}
               AllFound == {Found(c, p) : c \in Chan, p \in Block}
    <2>1. out' = AllStored BY ReadEffect
    <2>2. ASSUME NEW c \in Chan, NEW p \in Block PROVE Stored(c, p) = Found(c, p)
      <3>1. (filled[c][SlotOf(p)] => lane[c][SlotOf(p)] = p) /\ (<<c, p>> \in Held <=> filled[c][SlotOf(p)])
        BY <1>1, BlockHolds
      <3> QED BY <3>1
    <2> HIDE DEF Stored, Found
    <2>3. AllStored = AllFound BY <2>2
    <2> HIDE DEF AllStored, AllFound
    <2>4. out' = AllFound BY <2>1, <2>3
    <2> QED BY <2>4 DEF AllFound, Found
  <1>5. ASSUME NEW x \in Held' PROVE x \in Held /\ x \notin Chan \X Block
    <2>1. PICK c \in Chan, s \in Slots : filled'[c][s] /\ x = <<c, lane'[c][s]>> BY HeldMembers
    <2>2. filled[c][s] /\ \A p \in Block : SlotOf(p) # s BY <2>1, ReadEffect
    <2>3. x = <<c, lane[c][s]>> BY <1>1, <2>1
    <2>4. x \in Held BY <2>2, <2>3, HeldMembers
    <2>5. SlotOf(lane[c][s]) = s BY <2>2 DEF FilledInv, LaneInv, SampleInv
    <2>6. lane[c][s] \notin Block BY <2>2, <2>5
    <2> QED BY <2>3, <2>4, <2>6
  <1>6. ASSUME NEW x \in Held, x \notin Chan \X Block PROVE x \in Held'
    <2>1. PICK c \in Chan, s \in Slots : filled[c][s] /\ x = <<c, lane[c][s]>> BY HeldMembers
    <2>2. lane[c][s] \notin Block BY <1>6, <2>1
    <2>3. ASSUME NEW p \in Block, SlotOf(p) = s PROVE FALSE
      <3>1. filled[c][SlotOf(p)] => lane[c][SlotOf(p)] = p BY <1>1, BlockHolds
      <3> QED BY <2>1, <2>2, <2>3, <3>1
    <2>4. filled'[c][s] BY <2>1, <2>3, ReadEffect
    <2>5. x = <<c, lane'[c][s]>> BY <1>1, <2>1
    <2> QED BY <2>4, <2>5, HeldMembers
  <1>7. Held' = Held \ (Chan \X Block) BY <1>5, <1>6
  <1> QED BY <1>2, <1>3, <1>4, <1>7

\* With packets in time and a reader that keeps up, the ring is a buffer of
\* samples by position.
THEOREM ImplementsJitterBuffer == NearTimestamps /\ RoomForDelay /\ Spec => IsJitterBuffer
  <1> SUFFICES ASSUME NearTimestamps, RoomForDelay PROVE Spec => IsJitterBuffer
    OBVIOUS
  <1>1. Init => Buffer!Init
    BY DEF Init, Buffer!Init, Held
  <1>2. RingInv /\ [Next]_vars => [Buffer!Next]_Buffer!vars
    <2> SUFFICES ASSUME RingInv, [Next]_vars PROVE [Buffer!Next]_Buffer!vars
      OBVIOUS
    <2>1. env' = env
      BY DEF Next, vars, Tick, SetPatched, Arrive, WritePacket, TryRead, ReadNothing, ReadBlock
    <2>2. CASE ~env.timely BY <2>1, <2>2 DEF Buffer!vars
    <2>3. CASE env.timely
      <3>1. CASE WritePacket
        <4>1. Buffer!Put(wr.chan)
          BY <2>1, <2>3, <3>1, WriteAdds DEF Buffer!Put, WritePacket
        <4> QED BY <2>3, <3>1, <4>1, WriteAdds DEF Buffer!Next
      <3>2. CASE ReadBlock
        <4>1. Buffer!Take(rd.seen - Latency, rd.n)
          BY <2>1, <2>3, <3>2, ReadTakes DEF Buffer!Take, Buffer!Sample, Block
        <4> QED BY <2>3, <3>2, <4>1, ReadTakes DEF Buffer!Next
      <3>3. CASE out' = {} /\ UNCHANGED <<lane, filled>>
        <4>1. Held' = Held BY <3>3 DEF Held
        <4> QED BY <2>1, <2>3, <3>3, <4>1 DEF Buffer!Next, Buffer!TakeNothing
      <3>4. CASE UNCHANGED <<out, lane, filled>>
        <4>1. Held' = Held BY <3>4 DEF Held
        <4> QED BY <2>1, <3>4, <4>1 DEF Buffer!vars
      <3>5. \/ WritePacket \/ ReadBlock
            \/ out' = {} /\ UNCHANGED <<lane, filled>>
            \/ UNCHANGED <<out, lane, filled>>
        BY DEF Next, vars, Tick, SetPatched, Arrive, TryRead, ReadNothing
      <3> QED BY <3>1, <3>2, <3>3, <3>4, <3>5
    <2>4. env.timely \in BOOLEAN BY EnvType DEF RingInv
    <2> QED BY <2>2, <2>3, <2>4
  <1> QED BY <1>1, <1>2, RingInvariant, PTL DEF Spec, IsJitterBuffer, Buffer!Spec

=============================================================================
