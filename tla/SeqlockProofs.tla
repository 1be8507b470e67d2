---------------------------- MODULE SeqlockProofs ----------------------------
(***************************************************************************)
(* With one writing thread, every snapshot now_ns returns is whole and     *)
(* fresh, for any number of readers and publications.                      *)
(***************************************************************************)
EXTENDS Seqlock, TLAPS

------------------------------------------------------------------------------
(* The inductive invariant behind the first two, for at most one writer *)

AtMostOneWriter == \A s, t \in Writers : s = t

Quiet(t) == w[t].pc \in {"idle", "mark"}

\* Between publications seq is even and the words are the last publication's.
BetweenInv ==
    (\A t \in Writers : Quiet(t)) =>
        seq % 2 = 0 /\ last_sync = ended /\ shift = ended /\ freq = ended

\* During one seq is odd, and the stores happen in order.
DuringInv ==
    \A t \in Writers : ~Quiet(t) =>
        /\ seq % 2 = 1
        /\ ended <= w[t].val /\ w[t].val <= drawn
        /\ w[t].pc \in {"sync", "shift", "freq"} => last_sync = w[t].val
        /\ w[t].pc \in {"shift", "freq"} => shift = w[t].val
        /\ w[t].pc = "freq" => freq = w[t].val

\* As long as seq is what a reader loaded first, what it has loaded since is
\* what is there; and it loaded an even seq.
ReaderInv ==
    \A t \in Readers :
        /\ r[t].pc # "idle" => r[t].low <= ended
        /\ r[t].pc \in {"sync", "shift", "freq", "check"} => r[t].s1 % 2 = 0 /\ r[t].s1 <= seq
        /\ r[t].s1 = seq =>
              /\ r[t].pc \in {"shift", "freq", "check"} => r[t].sync = last_sync
              /\ r[t].pc \in {"freq", "check"} => r[t].shift = shift
              /\ r[t].pc = "check" => r[t].freq = freq

SnapshotInv ==
    /\ TypeOK /\ drawn >= ended
    /\ BetweenInv /\ DuringInv /\ ReaderInv
    /\ SnapshotIsWhole /\ SnapshotIsFresh

\* The initial clock satisfies the invariant.
LEMMA InitSnapshotInv == Init => SnapshotInv
  <1> SUFFICES ASSUME Init PROVE SnapshotInv
    OBVIOUS
  <1>1. TypeOK
    BY DEF Init, TypeOK, WriterPc, ReaderPc
  <1>2. drawn >= ended /\ BetweenInv /\ DuringInv
    BY DEF Init, BetweenInv, DuringInv, Quiet
  <1>3. ReaderInv /\ SnapshotIsWhole /\ SnapshotIsFresh
    BY DEF Init, ReaderInv, SnapshotIsWhole, SnapshotIsFresh
  <1> QED BY <1>1, <1>2, <1>3 DEF SnapshotInv

\* Steps of publish keep the invariant if no second thread publishes.
LEMMA WriterKeepsSnapshotInv ==
    ASSUME AtMostOneWriter, SnapshotInv, NEW t \in Writers,
           PublishBegin(t) \/ WriterStep(t)
    PROVE  SnapshotInv'
  <1> USE DEF TypeOK, WriterPc, ReaderPc
  <1>0. TypeOK BY DEF SnapshotInv
  <1>1. CASE PublishBegin(t)
    <2>1. TypeOK' /\ (drawn >= ended)'
      BY <1>0, <1>1 DEF PublishBegin, SnapshotInv
    <2>2. BetweenInv' /\ DuringInv'
      BY <1>0, <1>1 DEF PublishBegin, SnapshotInv, BetweenInv, DuringInv, Quiet, AtMostOneWriter
    <2>3. ReaderInv' /\ SnapshotIsWhole' /\ SnapshotIsFresh'
      BY <1>0, <1>1 DEF PublishBegin, SnapshotInv, ReaderInv, SnapshotIsWhole, SnapshotIsFresh
    <2> QED BY <2>1, <2>2, <2>3 DEF SnapshotInv
  <1>2. CASE StoreSync(t)
    BY <1>0, <1>2 DEF StoreSync, SnapshotInv, BetweenInv, DuringInv, ReaderInv, Quiet,
         SnapshotIsWhole, SnapshotIsFresh, AtMostOneWriter
  <1>3. CASE StoreShift(t)
    BY <1>0, <1>3 DEF StoreShift, SnapshotInv, BetweenInv, DuringInv, ReaderInv, Quiet,
         SnapshotIsWhole, SnapshotIsFresh, AtMostOneWriter
  <1>4. CASE StoreFreq(t)
    BY <1>0, <1>4 DEF StoreFreq, SnapshotInv, BetweenInv, DuringInv, ReaderInv, Quiet,
         SnapshotIsWhole, SnapshotIsFresh, AtMostOneWriter
  <1>5. CASE PublishEnd(t)
    <2>1. TypeOK' /\ (drawn >= ended)'
      BY <1>0, <1>5 DEF PublishEnd, SnapshotInv, DuringInv, Quiet
    <2>2. BetweenInv' /\ DuringInv'
      BY <1>0, <1>5 DEF PublishEnd, SnapshotInv, BetweenInv, DuringInv, Quiet, AtMostOneWriter
    <2>3. ReaderInv' /\ SnapshotIsWhole' /\ SnapshotIsFresh'
      BY <1>0, <1>5 DEF PublishEnd, SnapshotInv, DuringInv, ReaderInv, Quiet,
           SnapshotIsWhole, SnapshotIsFresh
    <2> QED BY <2>1, <2>2, <2>3 DEF SnapshotInv
  <1>6. CASE MarkInitialized(t)
    BY <1>0, <1>6 DEF MarkInitialized, SnapshotInv, BetweenInv, DuringInv, ReaderInv, Quiet,
         SnapshotIsWhole, SnapshotIsFresh, AtMostOneWriter
  <1> QED BY <1>1, <1>2, <1>3, <1>4, <1>5, <1>6 DEF WriterStep

\* What a reader holds.
Reader == [pc: ReaderPc, s1: Nat, sync: Nat, shift: Nat, freq: Nat, low: Nat]

\* A step that changes readers only keeps the types if it keeps theirs.
LEMMA ReaderTypeFrame ==
    ASSUME TypeOK, UNCHANGED <<shared, drawn, ended, w>>, r' \in [Readers -> Reader]
    PROVE  TypeOK'
  BY DEF TypeOK, shared, Reader

\* A reader changes nothing that the first two parts are about.
LEMMA ReaderFrame ==
    ASSUME SnapshotInv, UNCHANGED <<shared, drawn, ended, w>>
    PROVE  (drawn >= ended)' /\ BetweenInv' /\ DuringInv'
  <1>1. /\ seq' = seq /\ last_sync' = last_sync /\ shift' = shift /\ freq' = freq
        /\ drawn' = drawn /\ ended' = ended /\ w' = w
    BY DEF shared
  <1>2. (drawn >= ended)' BY <1>1 DEF SnapshotInv
  <1>3. BetweenInv' BY <1>1 DEF SnapshotInv, BetweenInv, Quiet
  <1>4. DuringInv' BY <1>1 DEF SnapshotInv, DuringInv, Quiet
  <1> QED BY <1>2, <1>3, <1>4

\* Steps of now_ns keep the invariant.
LEMMA ReaderKeepsSnapshotInv ==
    ASSUME SnapshotInv, NEW t \in Readers, NowBegin(t) \/ ReaderStep(t)
    PROVE  SnapshotInv'
  <1>0. TypeOK /\ ReaderInv /\ SnapshotIsWhole /\ SnapshotIsFresh BY DEF SnapshotInv
  <1>a. r \in [Readers -> Reader] /\ ended \in Nat BY <1>0 DEF TypeOK, Reader
  <1>1. CASE NowBegin(t)
    <2>0. r' \in [Readers -> Reader]
      BY <1>a, <1>1 DEF NowBegin, Reader, ReaderPc
    <2>1. TypeOK'
      BY <1>0, <1>1, <2>0, ReaderTypeFrame DEF NowBegin
    <2>2. (drawn >= ended)' /\ BetweenInv' /\ DuringInv'
      BY <1>1, ReaderFrame DEF NowBegin
    <2>3. ReaderInv'
      BY <1>0, <1>1 DEF NowBegin, ReaderInv, TypeOK, ReaderPc, shared
    <2>4. SnapshotIsWhole' /\ SnapshotIsFresh'
      BY <1>0, <1>1 DEF NowBegin, SnapshotIsWhole, SnapshotIsFresh, TypeOK, ReaderPc, shared
    <2> QED BY <2>1, <2>2, <2>3, <2>4 DEF SnapshotInv
  <1>2. CASE LoadSeq(t)
    <2>0. r' \in [Readers -> Reader]
      BY <1>0, <1>2 DEF LoadSeq, TypeOK, Reader, ReaderPc
    <2>1. TypeOK'
      BY <1>0, <1>2, <2>0, ReaderTypeFrame DEF LoadSeq
    <2>2. (drawn >= ended)' /\ BetweenInv' /\ DuringInv'
      BY <1>2, ReaderFrame DEF LoadSeq
    <2>3. ReaderInv'
      BY <1>0, <1>2 DEF LoadSeq, ReaderInv, TypeOK, ReaderPc, shared
    <2>4. SnapshotIsWhole' /\ SnapshotIsFresh'
      BY <1>0, <1>2 DEF LoadSeq, SnapshotIsWhole, SnapshotIsFresh, TypeOK, ReaderPc, shared
    <2> QED BY <2>1, <2>2, <2>3, <2>4 DEF SnapshotInv
  <1>3. CASE LoadSync(t)
    <2>0. r' \in [Readers -> Reader]
      BY <1>0, <1>3 DEF LoadSync, TypeOK, Reader, ReaderPc
    <2>1. TypeOK'
      BY <1>0, <1>3, <2>0, ReaderTypeFrame DEF LoadSync
    <2>2. (drawn >= ended)' /\ BetweenInv' /\ DuringInv'
      BY <1>3, ReaderFrame DEF LoadSync
    <2>3. ReaderInv'
      BY <1>0, <1>3 DEF LoadSync, ReaderInv, TypeOK, ReaderPc, shared
    <2>4. SnapshotIsWhole' /\ SnapshotIsFresh'
      BY <1>0, <1>3 DEF LoadSync, SnapshotIsWhole, SnapshotIsFresh, TypeOK, ReaderPc, shared
    <2> QED BY <2>1, <2>2, <2>3, <2>4 DEF SnapshotInv
  <1>4. CASE LoadShift(t)
    <2>0. r' \in [Readers -> Reader]
      BY <1>0, <1>4 DEF LoadShift, TypeOK, Reader, ReaderPc
    <2>1. TypeOK'
      BY <1>0, <1>4, <2>0, ReaderTypeFrame DEF LoadShift
    <2>2. (drawn >= ended)' /\ BetweenInv' /\ DuringInv'
      BY <1>4, ReaderFrame DEF LoadShift
    <2>3. ReaderInv'
      BY <1>0, <1>4 DEF LoadShift, ReaderInv, TypeOK, ReaderPc, shared
    <2>4. SnapshotIsWhole' /\ SnapshotIsFresh'
      BY <1>0, <1>4 DEF LoadShift, SnapshotIsWhole, SnapshotIsFresh, TypeOK, ReaderPc, shared
    <2> QED BY <2>1, <2>2, <2>3, <2>4 DEF SnapshotInv
  <1>5. CASE LoadFreq(t)
    <2>0. r' \in [Readers -> Reader]
      BY <1>0, <1>5 DEF LoadFreq, TypeOK, Reader, ReaderPc
    <2>1. TypeOK'
      BY <1>0, <1>5, <2>0, ReaderTypeFrame DEF LoadFreq
    <2>2. (drawn >= ended)' /\ BetweenInv' /\ DuringInv'
      BY <1>5, ReaderFrame DEF LoadFreq
    <2>3. ReaderInv'
      BY <1>0, <1>5 DEF LoadFreq, ReaderInv, TypeOK, ReaderPc, shared
    <2>4. SnapshotIsWhole' /\ SnapshotIsFresh'
      BY <1>0, <1>5 DEF LoadFreq, SnapshotIsWhole, SnapshotIsFresh, TypeOK, ReaderPc, shared
    <2> QED BY <2>1, <2>2, <2>3, <2>4 DEF SnapshotInv
  <1>6. CASE CheckSeq(t)
    <2>0. r' \in [Readers -> Reader]
      BY <1>0, <1>6 DEF CheckSeq, TypeOK, Reader, ReaderPc
    <2>1. TypeOK'
      BY <1>0, <1>6, <2>0, ReaderTypeFrame DEF CheckSeq
    <2>2. (drawn >= ended)' /\ BetweenInv' /\ DuringInv'
      BY <1>6, ReaderFrame DEF CheckSeq
    <2>3. ReaderInv'
      BY <1>0, <1>6 DEF CheckSeq, ReaderInv, TypeOK, ReaderPc, shared
    <2>4. seq = r[t].s1 => r[t].sync = r[t].shift /\ r[t].shift = r[t].freq /\ r[t].low <= r[t].sync
      <3> SUFFICES ASSUME seq = r[t].s1
                   PROVE  r[t].sync = r[t].shift /\ r[t].shift = r[t].freq /\ r[t].low <= r[t].sync
        OBVIOUS
      <3>1. r[t].sync = last_sync /\ r[t].shift = shift /\ r[t].freq = freq /\ r[t].low <= ended /\ seq % 2 = 0
        BY <1>0, <1>6 DEF CheckSeq, ReaderInv
      <3>2. \A u \in Writers : Quiet(u)
        BY <3>1 DEF SnapshotInv, DuringInv
      <3>3. last_sync = ended /\ shift = ended /\ freq = ended
        BY <3>2 DEF SnapshotInv, BetweenInv
      <3> QED BY <3>1, <3>3
    <2>5. SnapshotIsWhole' /\ SnapshotIsFresh'
      BY <1>0, <1>6, <2>4 DEF CheckSeq, SnapshotIsWhole, SnapshotIsFresh, TypeOK, ReaderPc, shared
    <2> QED BY <2>1, <2>2, <2>3, <2>5 DEF SnapshotInv
  <1> QED BY <1>1, <1>2, <1>3, <1>4, <1>5, <1>6 DEF ReaderStep

\* The invariant holds throughout.
THEOREM SnapshotInvariant == AtMostOneWriter /\ Spec => []SnapshotInv
  <1> SUFFICES ASSUME AtMostOneWriter PROVE Spec => []SnapshotInv
    OBVIOUS
  <1>1. SnapshotInv /\ UNCHANGED vars => SnapshotInv'
    BY DEF vars, SnapshotInv, TypeOK, BetweenInv, DuringInv, ReaderInv, Quiet,
           SnapshotIsWhole, SnapshotIsFresh
  <1>2. SnapshotInv /\ [Next]_vars => SnapshotInv'
    BY <1>1, WriterKeepsSnapshotInv, ReaderKeepsSnapshotInv DEF Next
  <1> QED BY <1>2, InitSnapshotInv, PTL DEF Spec

\* With one thread that observes, the words now_ns combines belong together.
THEOREM WholeSnapshots == AtMostOneWriter /\ Spec => []SnapshotIsWhole
  BY SnapshotInvariant, PTL DEF SnapshotInv

\* With one thread that observes, now_ns never falls back behind a
\* publication that had ended when it was called.
THEOREM FreshSnapshots == AtMostOneWriter /\ Spec => []SnapshotIsFresh
  BY SnapshotInvariant, PTL DEF SnapshotInv

=============================================================================
