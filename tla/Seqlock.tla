------------------------------- MODULE Seqlock -------------------------------
(***************************************************************************)
(* The snapshot of the overlay clock (src/clock/overlay.rs): `publish`     *)
(* stores three words between two increments of seq, `now_ns` reads them   *)
(* without a lock and retries when seq was odd or has changed. Every load  *)
(* and store is one step; all are Acquire or Release, so they take effect  *)
(* in program order.                                                       *)
(*                                                                         *)
(* A word is the number of the publication it comes from: a snapshot is    *)
(* torn when its words differ.                                             *)
(***************************************************************************)
EXTENDS Integers

CONSTANTS
    Writers,    \* threads that call observe: the media and the PTP thread
    Readers,    \* threads that call now_ns
    MaxPublish  \* bound: publications in one behaviour

ASSUME PublishAssumption == MaxPublish \in Nat

VARIABLES
    seq,                      \* OverlayClock.seq
    last_sync, shift, freq,   \* the three words of the snapshot
    initialized,              \* OverlayClock.initialized
    drawn,                    \* publications begun (ghost)
    ended,                    \* number of the last publication ended (ghost)
    w,                        \* the writers: pc and the number they publish
    r                         \* the readers: pc, s1 and the words they loaded

shared == <<seq, last_sync, shift, freq, initialized>>
vars   == <<seq, last_sync, shift, freq, initialized, drawn, ended, w, r>>

\* "begin" after the first increment; "sync", "shift", "freq" after a store;
\* "mark" after the last increment, before initialized is stored.
WriterPc == {"idle", "begin", "sync", "shift", "freq", "mark"}

\* "seq" before s1 is loaded, then before the load of each word, "check"
\* before s2 is loaded, "done" with the words returned.
ReaderPc == {"idle", "seq", "sync", "shift", "freq", "check", "done"}

TypeOK ==
    /\ seq \in Nat /\ last_sync \in Nat /\ shift \in Nat /\ freq \in Nat
    /\ initialized \in BOOLEAN
    /\ drawn \in Nat /\ ended \in Nat
    /\ w \in [Writers -> [pc: WriterPc, val: Nat]]
    /\ r \in [Readers -> [pc: ReaderPc, s1: Nat, sync: Nat, shift: Nat, freq: Nat, low: Nat]]

Init ==
    /\ seq = 0 /\ last_sync = 0 /\ shift = 0 /\ freq = 0
    /\ initialized = FALSE
    /\ drawn = 0 /\ ended = 0
    /\ w = [t \in Writers |-> [pc |-> "idle", val |-> 0]]
    /\ r = [t \in Readers |-> [pc |-> "idle", s1 |-> 0, sync |-> 0, shift |-> 0, freq |-> 0, low |-> 0]]

------------------------------------------------------------------------------
(* publish, and what observe does around it *)

PublishBegin(t) ==
    /\ w[t].pc = "idle" /\ drawn < MaxPublish
    /\ seq' = seq + 1
    /\ drawn' = drawn + 1
    /\ w' = [w EXCEPT ![t] = [pc |-> "begin", val |-> drawn + 1]]
    /\ UNCHANGED <<last_sync, shift, freq, initialized, ended, r>>

StoreSync(t) ==
    /\ w[t].pc = "begin"
    /\ last_sync' = w[t].val
    /\ w' = [w EXCEPT ![t].pc = "sync"]
    /\ UNCHANGED <<seq, shift, freq, initialized, drawn, ended, r>>

StoreShift(t) ==
    /\ w[t].pc = "sync"
    /\ shift' = w[t].val
    /\ w' = [w EXCEPT ![t].pc = "shift"]
    /\ UNCHANGED <<seq, last_sync, freq, initialized, drawn, ended, r>>

StoreFreq(t) ==
    /\ w[t].pc = "shift"
    /\ freq' = w[t].val
    /\ w' = [w EXCEPT ![t].pc = "freq"]
    /\ UNCHANGED <<seq, last_sync, shift, initialized, drawn, ended, r>>

\* Mutant of PublishEnd: the second increment is missing.
PublishEndNoBump(t) ==
    /\ w[t].pc = "freq"
    /\ UNCHANGED seq
    /\ ended' = w[t].val
    /\ w' = [w EXCEPT ![t].pc = "mark"]
    /\ UNCHANGED <<last_sync, shift, freq, initialized, drawn, r>>

PublishEnd(t) ==
    /\ w[t].pc = "freq"
    /\ seq' = seq + 1
    /\ ended' = w[t].val
    /\ w' = [w EXCEPT ![t].pc = "mark"]
    /\ UNCHANGED <<last_sync, shift, freq, initialized, drawn, r>>

\* The first observation stores initialized, for a later one it is set already.
MarkInitialized(t) ==
    /\ w[t].pc = "mark"
    /\ initialized' = TRUE
    /\ w' = [w EXCEPT ![t].pc = "idle"]
    /\ UNCHANGED <<seq, last_sync, shift, freq, drawn, ended, r>>

------------------------------------------------------------------------------
(* now_ns *)

\* Before the first publication is marked the local clock is returned as it is.
NowBegin(t) ==
    /\ r[t].pc \in {"idle", "done"}
    /\ initialized
    /\ r' = [r EXCEPT ![t].pc = "seq", ![t].low = ended]
    /\ UNCHANGED <<shared, drawn, ended, w>>

\* Mutant of LoadSeq: instead of waiting for a publication to end, the words of
\* the call before are returned.
LoadSeqOrKeep(t) ==
    /\ r[t].pc = "seq"
    /\ r' = IF seq % 2 = 0 THEN [r EXCEPT ![t].pc = "sync", ![t].s1 = seq]
                           ELSE [r EXCEPT ![t].pc = "done"]
    /\ UNCHANGED <<shared, drawn, ended, w>>

LoadSeq(t) ==
    /\ r[t].pc = "seq"
    /\ seq % 2 = 0
    /\ r' = [r EXCEPT ![t].pc = "sync", ![t].s1 = seq]
    /\ UNCHANGED <<shared, drawn, ended, w>>

LoadSync(t) ==
    /\ r[t].pc = "sync"
    /\ r' = [r EXCEPT ![t].pc = "shift", ![t].sync = last_sync]
    /\ UNCHANGED <<shared, drawn, ended, w>>

LoadShift(t) ==
    /\ r[t].pc = "shift"
    /\ r' = [r EXCEPT ![t].pc = "freq", ![t].shift = shift]
    /\ UNCHANGED <<shared, drawn, ended, w>>

LoadFreq(t) ==
    /\ r[t].pc = "freq"
    /\ r' = [r EXCEPT ![t].pc = "check", ![t].freq = freq]
    /\ UNCHANGED <<shared, drawn, ended, w>>

\* Mutant of CheckSeq: only the parity of the second load is checked.
CheckParity(t) ==
    /\ r[t].pc = "check"
    /\ r' = [r EXCEPT ![t].pc = IF seq % 2 = 0 THEN "done" ELSE "seq"]
    /\ UNCHANGED <<shared, drawn, ended, w>>

CheckSeq(t) ==
    /\ r[t].pc = "check"
    /\ r' = [r EXCEPT ![t].pc = IF seq = r[t].s1 THEN "done" ELSE "seq"]
    /\ UNCHANGED <<shared, drawn, ended, w>>

------------------------------------------------------------------------------
WriterStep(t) ==
    \/ StoreSync(t) \/ StoreShift(t) \/ StoreFreq(t)
    \/ PublishEnd(t) \/ MarkInitialized(t)

ReaderStep(t) ==
    LoadSeq(t) \/ LoadSync(t) \/ LoadShift(t) \/ LoadFreq(t) \/ CheckSeq(t)

Next ==
    \/ \E t \in Writers : PublishBegin(t) \/ WriterStep(t)
    \/ \E t \in Readers : NowBegin(t) \/ ReaderStep(t)

Spec == Init /\ [][Next]_vars

\* The OS runs every thread that is inside publish or now_ns.
Fairness ==
    /\ \A t \in Writers : WF_vars(WriterStep(t))
    /\ \A t \in Readers : WF_vars(ReaderStep(t))

FairSpec == Spec /\ Fairness

------------------------------------------------------------------------------
(* Properties *)

\* "Reader: load even seq, Acquire fields, reload; retry if odd or changed":
\* the three words now_ns works with come from one publication.
SnapshotIsWhole ==
    \A t \in Readers : r[t].pc = "done" => r[t].sync = r[t].shift /\ r[t].shift = r[t].freq

\* The snapshot is not older than the last publication that had ended when
\* now_ns was called: a reader never sees the clock go back to a past one.
SnapshotIsFresh ==
    \A t \in Readers : r[t].pc = "done" => r[t].low <= r[t].sync

\* now_ns returns: with publications few and far between, the retry loop ends.
ReadsReturn == \A t \in Readers : r[t].pc = "seq" ~> r[t].pc = "done"

=============================================================================
