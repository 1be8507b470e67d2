-------------------------------- MODULE Ring --------------------------------
(***************************************************************************)
(* The planar ring (src/media/ring.rs) between the media thread, which     *)
(* writes packets, and the caller of try_read (src/device/mod.rs), which   *)
(* reads what is due. Both threads first derive a position from the clock  *)
(* and only then take the ring's mutex: Arrive/WritePacket and             *)
(* TryRead/ReadBlock are two steps each, with time passing in between.     *)
(*                                                                         *)
(* now is the true sample position of the overlay clock and every sample   *)
(* is the true position it was recorded for; the code works with these     *)
(* numbers modulo WordMod (2^64), which this module keeps.                 *)
(***************************************************************************)
EXTENDS Integers

CONSTANTS
    Chan,         \* device channels
    Latency,      \* rx_latency in samples
    MinLen,       \* lower bound of the ring's length: 2048 in the code
    WordMod,      \* width of a position: 2^64 in the code
    StaleAfter,   \* 60 ms in samples: how old the last packet of a read may be
    MaxFrames,    \* bound: frames of a packet and of a read
    Environments  \* what a behaviour may assume of the network and the threads

(***************************************************************************)
(* An environment bounds a behaviour: where the clock starts and how many  *)
(* ticks it makes; how far ahead of (lead) and behind (lag) the clock a    *)
(* timestamp is; how many ticks pass between a thread's look at the clock  *)
(* and its lock (delay). In a timely one packets arrive before their       *)
(* positions are read and the reader polls before positions go by unread.  *)
(***************************************************************************)
Environment == [start: Nat, ticks: Nat, lead: Nat, lag: Nat, delay: Nat, timely: BOOLEAN]

ASSUME RingAssumption ==
    /\ Chan # {}
    /\ Latency \in Nat /\ MinLen \in Nat \ {0} /\ WordMod \in Nat \ {0}
    /\ StaleAfter \in Nat /\ MaxFrames \in Nat \ {0}
    /\ Environments \subseteq Environment

Silence == -1
Never == -1

\* Ring::new: the power of two that holds four times the latency.
RingLen ==
    LET need == IF 4 * Latency > MinLen THEN 4 * Latency ELSE MinLen
        pows == {2^i : i \in 0..need}
    IN  CHOOSE n \in pows : n >= need /\ \A m \in pows : m >= need => n <= m

\* A ring is a power of two, as a word is, and far shorter.
ASSUME RingLenAssumption ==
    RingLen \in Nat \ {0} /\ WordMod % RingLen = 0 /\ 2 * RingLen <= WordMod

Slots == 0..RingLen - 1

VARIABLES
    now,      \* the overlay clock, in samples
    lane,     \* Inner.lanes
    filled,   \* Inner.filled
    patched,  \* Inner.patched
    age,      \* time since Inner.last_packet, or Never
    wr,       \* the media thread: idle, or with a packet and its read_pos
    rd,       \* the caller of try_read: idle, or with its read_pos
    out,      \* the block the last try_read returned
    consumed, \* first position no read has covered (ghost)
    env       \* the environment of this behaviour (ghost)

vars == <<now, lane, filled, patched, age, wr, rd, out, consumed, env>>

IdleWriter == [busy |-> FALSE, chan |-> CHOOSE c \in Chan : TRUE, pos |-> 0, n |-> 0, seen |-> 0]
IdleReader == [busy |-> FALSE, n |-> 0, seen |-> 0]

\* Positions a packet can carry at this moment.
Timestamps == {p \in now - env.lag..now + env.lead : p >= 0}

TypeOK ==
    /\ now \in Nat /\ env \in Environments /\ consumed \in Int
    /\ lane \in [Chan -> [Slots -> Nat \cup {Silence}]]
    /\ filled \in [Chan -> [Slots -> BOOLEAN]]
    /\ patched \in [Chan -> BOOLEAN]
    /\ age \in {Never} \cup 0..StaleAfter + 1
    /\ wr \in [busy: BOOLEAN, chan: Chan, pos: Nat, n: 0..MaxFrames, seen: Nat]
    /\ rd \in [busy: BOOLEAN, n: 0..MaxFrames, seen: Nat]
    /\ out \subseteq [chan: Chan, at: Nat, val: Nat \cup {Silence}]

Init ==
    /\ env \in Environments /\ now = env.start
    /\ lane = [c \in Chan |-> [s \in Slots |-> Silence]]
    /\ filled = [c \in Chan |-> [s \in Slots |-> FALSE]]
    /\ patched = [c \in Chan |-> FALSE]
    /\ age = Never
    /\ wr = IdleWriter /\ rd = IdleReader
    /\ out = {}
    /\ consumed = now - Latency

------------------------------------------------------------------------------
(* Positions as the code computes them, on words *)

Word(x) == x % WordMod

\* read_pos of the media thread and of try_read.
ReadPos(seen) == Word(Word(seen) - Latency)

\* wrapped_diff(a, b) < 0, the sign of the difference as an i64.
IsBefore(b, a) == Word(b - a) >= WordMod \div 2

SlotOf(p) == Word(p) % RingLen

\* Mutant of Keeps: the overrun test is dropped.
KeepsOverrun(p, seen) == ~IsBefore(Word(p), ReadPos(seen))

\* write_packet stores a frame that is neither late nor an overrun.
Keeps(p, seen) ==
    /\ ~IsBefore(Word(p), ReadPos(seen))
    /\ Word(Word(p) - ReadPos(seen)) < RingLen

------------------------------------------------------------------------------
(* The clock and the patches *)

\* Time passes; a thread that looked at the clock gets its lock in time.
Tick ==
    /\ now < env.start + env.ticks
    /\ wr.busy => now - wr.seen < env.delay
    /\ rd.busy => now - rd.seen < env.delay
    /\ env.timely => now + 1 - Latency <= consumed
    /\ now' = now + 1
    /\ age' = IF age \in 0..StaleAfter THEN age + 1 ELSE age
    /\ UNCHANGED <<lane, filled, patched, wr, rd, out, consumed, env>>

\* The last packet was received 60 ms ago at most.
Fresh == age \in 0..StaleAfter

\* set_patched, called by apply.
SetPatched(c) ==
    /\ patched' = [patched EXCEPT ![c] = ~@]
    /\ UNCHANGED <<now, lane, filled, age, wr, rd, out, consumed, env>>

------------------------------------------------------------------------------
(* The media thread *)

\* A packet of n frames from position p for channel c is received and the
\* clock is read.
Arrive(c, p, n) ==
    /\ ~wr.busy
    /\ env.timely => p >= consumed
    /\ wr' = [busy |-> TRUE, chan |-> c, pos |-> p, n |-> n, seen |-> now]
    /\ UNCHANGED <<now, lane, filled, patched, age, rd, out, consumed, env>>

\* write_packet, under the mutex. In a timely environment the reader has not
\* passed the packet since the clock was read (rx.rs:132).
WritePacket ==
    /\ wr.busy
    /\ env.timely => wr.pos >= consumed
    /\ LET kept == {p \in wr.pos..wr.pos + wr.n - 1 : Keeps(p, wr.seen)}
           \* frames are stored in order: the last one wins a slot
           top(s) == CHOOSE p \in kept : SlotOf(p) = s /\ \A q \in kept : SlotOf(q) = s => q <= p
           hit == {SlotOf(p) : p \in kept}
       IN  /\ lane' = [lane EXCEPT ![wr.chan] = [s \in Slots |-> IF s \in hit THEN top(s) ELSE @[s]]]
           /\ filled' = [filled EXCEPT ![wr.chan] = [s \in Slots |-> s \in hit \/ @[s]]]
    /\ age' = 0
    /\ wr' = IdleWriter
    /\ UNCHANGED <<now, patched, rd, out, consumed, env>>

------------------------------------------------------------------------------
(* The caller of try_read *)

\* Mutant of TryRead: no guard against the first latency.
TryReadAtOnce(n) ==
    /\ ~rd.busy
    /\ rd' = [busy |-> TRUE, n |-> n, seen |-> now]
    /\ UNCHANGED <<now, lane, filled, patched, age, wr, out, consumed, env>>

\* try_read up to the call of Ring::read; before the first latency has
\* elapsed it returns no frames.
TryRead(n) ==
    /\ ~rd.busy
    /\ \/ /\ Word(now) < Latency
          /\ out' = {} /\ UNCHANGED rd
       \/ /\ Word(now) >= Latency
          /\ rd' = [busy |-> TRUE, n |-> n, seen |-> now]
          /\ UNCHANGED out
    /\ UNCHANGED <<now, lane, filled, patched, age, wr, consumed, env>>

\* Mutant of ReadNothing: the cut-off is the latency.
ReadNothingAtLatency ==
    /\ rd.busy
    /\ (\A c \in Chan : ~patched[c]) \/ age \notin 0..Latency
    /\ out' = {}
    /\ rd' = IdleReader
    /\ UNCHANGED <<now, lane, filled, patched, age, wr, consumed, env>>

\* Ring::read returns no frames: nothing patched, no packet yet or lately.
ReadNothing ==
    /\ rd.busy
    /\ (\A c \in Chan : ~patched[c]) \/ ~Fresh
    /\ out' = {}
    /\ rd' = IdleReader
    /\ UNCHANGED <<now, lane, filled, patched, age, wr, consumed, env>>

\* Mutant of ReadBlock: filled is not cleared.
ReadBlockKeeps ==
    /\ rd.busy
    /\ (\E c \in Chan : patched[c]) /\ Fresh
    /\ LET from == rd.seen - Latency
           block == from..from + rd.n - 1
       IN  /\ out' = {[chan |-> c, at |-> p,
                       val |-> IF filled[c][SlotOf(p)] THEN lane[c][SlotOf(p)] ELSE Silence]
                       : c \in Chan, p \in block}
           /\ consumed' = IF from + rd.n > consumed THEN from + rd.n ELSE consumed
    /\ rd' = IdleReader
    /\ UNCHANGED <<now, lane, filled, patched, age, wr, env>>

\* Ring::read, under the mutex: the samples of every channel, patched or not,
\* whatever position they were stored for.
ReadBlock ==
    /\ rd.busy
    /\ (\E c \in Chan : patched[c]) /\ Fresh
    /\ LET from == rd.seen - Latency
           block == from..from + rd.n - 1
           hit == {SlotOf(p) : p \in block}
       IN  /\ out' = {[chan |-> c, at |-> p,
                       val |-> IF filled[c][SlotOf(p)] THEN lane[c][SlotOf(p)] ELSE Silence]
                       : c \in Chan, p \in block}
           /\ filled' = [c \in Chan |-> [s \in Slots |-> filled[c][s] /\ s \notin hit]]
           /\ consumed' = IF from + rd.n > consumed THEN from + rd.n ELSE consumed
    /\ rd' = IdleReader
    /\ UNCHANGED <<now, lane, patched, age, wr, env>>

------------------------------------------------------------------------------
Next ==
    \/ Tick
    \/ \E c \in Chan : SetPatched(c)
    \/ \E c \in Chan : \E p \in Timestamps : \E n \in 1..MaxFrames : Arrive(c, p, n)
    \/ WritePacket
    \/ \E n \in 1..MaxFrames : TryRead(n)
    \/ ReadNothing \/ ReadBlock

Spec == Init /\ [][Next]_vars

------------------------------------------------------------------------------
(* Properties *)

\* A read never returns a sample recorded for a later position than the one
\* it is returned for: nothing is played before its time, although slots are
\* reused every RingLen positions.
NeverEarly == \A r \in out : r.val <= r.at

\* A write replaces a sample nobody has read yet only once that sample's own
\* position is past due; what is still to be played is never overwritten.
DueIsKept ==
    [][\A c \in Chan : \A s \in Slots :
          filled[c][s] /\ filled'[c][s] /\ lane'[c][s] # lane[c][s]
            => lane[c][s] < now - Latency]_vars

Held == UNION {{<<c, lane[c][s]>> : s \in {t \in Slots : filled[c][t]}} : c \in Chan}

\* The cut-off of 60 ms after the last packet withholds nothing that is due,
\* as long as the latency and the furthest a packet reaches ahead fit in it:
\* a read that returns no frames although a channel is patched and packets
\* have come finds none of its positions in the ring.
TailIsPlayed ==
    [][env.timely /\ Latency + env.lead + MaxFrames <= StaleAfter
         /\ rd.busy /\ ~rd'.busy /\ out' = {} /\ age # Never /\ (\E c \in Chan : patched[c])
       => \A x \in Held : x[2] \notin rd.seen - Latency..rd.seen - Latency + rd.n - 1]_vars

\* With packets that arrive before they are read and a reader that keeps up,
\* the ring implements the buffer of samples by position: slots, laps, words
\* that wrap and the two threads do not show.
Buffer == INSTANCE JitterBuffer WITH
              buf <- IF env.timely THEN Held ELSE {}, out <- IF env.timely THEN out ELSE {},
              Chan <- Chan, Silence <- Silence,
              Positions <- UNION {e.start - Latency..e.start + e.ticks : e \in Environments},
              MaxBlock <- MaxFrames
IsJitterBuffer == Buffer!Spec

=============================================================================
