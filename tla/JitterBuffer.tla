---------------------------- MODULE JitterBuffer ----------------------------
(***************************************************************************)
(* What the ring promises its reader: a buffer of samples named by channel *)
(* and position. A read of a block of positions takes the samples it finds *)
(* at exactly those positions and silence for the others. A sample is its  *)
(* position here: no two samples are alike.                                *)
(***************************************************************************)
EXTENDS Integers

CONSTANTS
    Chan,       \* channels
    Silence,    \* the sample that is none
    Positions,  \* positions a read can start at
    MaxBlock    \* longest read

VARIABLES
    buf,   \* the samples held: pairs <<channel, position>>
    out    \* the block the last read returned

vars == <<buf, out>>

Init == buf = {} /\ out = {}

\* A packet for channel c leaves samples at some of its positions, the others
\* come too late or too early to be kept. Nothing held is lost.
Put(c) ==
    /\ buf \subseteq buf' /\ \A x \in buf' \ buf : x[1] = c
    /\ UNCHANGED out

Sample(c, q) == IF <<c, q>> \in buf THEN q ELSE Silence

\* A read of the n positions from q.
Take(q, n) ==
    /\ out' = {[chan |-> c, at |-> p, val |-> Sample(c, p)] : c \in Chan, p \in q..q + n - 1}
    /\ buf' = buf \ (Chan \X (q..q + n - 1))

\* A read that returns no frames: nothing patched, nothing received lately.
TakeNothing == out' = {} /\ UNCHANGED buf

Next ==
    \/ \E c \in Chan : Put(c)
    \/ \E q \in Positions : \E n \in 1..MaxBlock : Take(q, n)
    \/ TakeNothing

Spec == Init /\ [][Next]_vars

=============================================================================
