------------------------------ MODULE PtpProofs ------------------------------
(***************************************************************************)
(* For any number of masters, Syncs, other datagrams and any width of the  *)
(* sequence id: observations come in the order of their Syncs, and the two *)
(* times of an observation are of one Sync or of two Syncs that are a whole*)
(* lap of sequence ids apart.                                              *)
(*                                                                         *)
(* The argument: a master counts on by one from Sync to Sync, so that a    *)
(* sequence id that repeats is at least SeqMod Syncs old; and both sockets *)
(* are queues, so that the event socket delivers Syncs in their order.     *)
(***************************************************************************)
EXTENDS Ptp, SequenceTheorems, TLAPS

Contents(q) == {q[i] : i \in 1..Len(q)}

\* The Syncs in a queue are in the order they were sent in.
Ordered(q) == \A i, j \in 1..Len(q) : i < j /\ q[i] # Other /\ q[j] # Other => q[i].n < q[j].n

\* Messages and what is pending are of Syncs that were sent.
SentInv ==
    /\ \A x \in Contents(event) \cup Contents(general) : x.n <= sent
    /\ pending.n <= sent /\ obs.t2 <= sent

\* What the thread still has to take is newer than what it has taken.
OrderInv ==
    /\ Ordered(event)
    /\ \A x \in Contents(event) : x # Other => pending.n < x.n /\ obs.t2 < x.n
    /\ pending # None => obs.t2 < pending.n

\* Master m, whose Sync n had the sequence id q, has counted on by one for each
\* of its Syncs since, of which there are no more than Syncs of all masters.
Counted(m, n, q) ==
    \/ SeqMod <= sent + 1 - n
    \/ \E c \in 1..(sent + 1 - n) : next[m] = q + c \/ next[m] = q + c - SeqMod

\* A Follow_Up y that matches Sync x is of x, or a lap away.
Followed(x, y) ==
    x.src = y.src /\ x.src \in Masters /\ x.seq = y.seq
        => x.n = y.n \/ LapApart(x.n, y.n)

\* As long as no master has restarted.
CountInv ==
    restarts = 0 =>
        /\ \A x \in Contents(event) \cup Contents(general) \cup {pending} :
              x.src \in Masters => Counted(x.src, x.n, x.seq)
        /\ \A x \in Contents(event) \cup {pending} : \A y \in Contents(general) : Followed(x, y)

PtpInv == TypeOK /\ SentInv /\ OrderInv /\ CountInv /\ PairsMatch

------------------------------------------------------------------------------
(* Queues *)

\* What appending does.
LEMMA AppendContents ==
    ASSUME NEW S, NEW q \in Seq(S), NEW x \in S
    PROVE  /\ Append(q, x) \in Seq(S)
           /\ Contents(Append(q, x)) = Contents(q) \cup {x}
  BY DEF Contents

\* An appended Sync is the last.
LEMMA AppendOrdered ==
    ASSUME NEW q \in Seq(Message), NEW x \in Message, Ordered(q),
           x = Other \/ \A y \in Contents(q) : y # Other => y.n < x.n
    PROVE  Ordered(Append(q, x))
  BY DEF Contents, Ordered

\* What taking the head does.
LEMMA TailContents ==
    ASSUME NEW S, NEW q \in Seq(S), q # <<>>
    PROVE  /\ Head(q) \in S /\ Head(q) \in Contents(q)
           /\ Tail(q) \in Seq(S) /\ Contents(Tail(q)) \subseteq Contents(q)
  BY DEF Contents

\* The head is the oldest Sync.
LEMMA TailOrdered ==
    ASSUME NEW q \in Seq(Message), q # <<>>, Ordered(q)
    PROVE  /\ Ordered(Tail(q))
           /\ Head(q) # Other => \A x \in Contents(Tail(q)) : x # Other => Head(q).n < x.n
  BY DEF Contents, Ordered

\* Counting on within a word.
LEMMA NextSeq ==
    \A a \in 0..SeqMod - 1 : (a + 1) % SeqMod = IF a + 1 = SeqMod THEN 0 ELSE a + 1
  BY PtpAssumption

------------------------------------------------------------------------------
(* The invariant *)

\* Nothing is sent or pending yet.
LEMMA InitPtpInv == Init => PtpInv
  <1> SUFFICES ASSUME Init PROVE PtpInv
    OBVIOUS
  <1>1. Contents(event) = {} /\ Contents(general) = {} /\ Ordered(event)
    BY DEF Init, Contents, Ordered
  <1>2. TypeOK
    BY PtpAssumption DEF Init, TypeOK, None
  <1> QED BY <1>1, <1>2, PtpAssumption DEF Init, PtpInv, SentInv, OrderInv, CountInv, PairsMatch, None

\* Master m counts on by one, within a word.
CountsOn(m) ==
    /\ sent' = sent + 1
    /\ \A p \in Masters \ {m} : next'[p] = next[p]
    /\ next'[m] = IF next[m] + 1 = SeqMod THEN 0 ELSE next[m] + 1

\* Counts go on when a Sync of master m is sent.
LEMMA SyncKeepsCounted ==
    ASSUME sent \in Nat, next \in [Masters -> 0..SeqMod - 1], NEW m \in Masters, CountsOn(m),
           NEW p \in Masters, NEW n \in 0..sent, NEW q \in 0..SeqMod - 1, Counted(p, n, q)
    PROVE  Counted(p, n, q)'
  <1> USE PtpAssumption DEF CountsOn
  <1>1. CASE SeqMod <= sent + 1 - n
    BY <1>1 DEF Counted
  <1>2. ASSUME NEW c \in 1..(sent + 1 - n), sent + 1 - n < SeqMod,
               next[p] = q + c \/ next[p] = q + c - SeqMod
        PROVE  Counted(p, n, q)'
    <2>1. CASE p # m
      <3>1. next'[p] = next[p] /\ c \in 1..(sent' + 1 - n)
        BY <2>1
      <3> QED BY <3>1, <1>2 DEF Counted
    <2>2. CASE p = m
      <3>1. c + 1 \in 1..(sent' + 1 - n)
        OBVIOUS
      <3>2. next'[p] = q + (c + 1) \/ next'[p] = q + (c + 1) - SeqMod
        BY <2>2, <1>2
      <3> QED BY <3>1, <3>2 DEF Counted
    <2> QED BY <2>1, <2>2
  <1> QED BY <1>1, <1>2 DEF Counted

\* A Sync that is sent now counts, and an earlier message of its master with
\* its sequence id is a lap away.
LEMMA NewSyncCounts ==
    ASSUME sent \in Nat, next \in [Masters -> 0..SeqMod - 1], NEW m \in Masters, CountsOn(m),
           NEW first \in Nat, first = sent + 1, NEW id \in Nat, id = next[m]
    PROVE  /\ Counted(m, first, id)'
           /\ \A n \in 0..sent : Counted(m, n, id) => LapApart(n, first)
  <1> USE PtpAssumption DEF CountsOn
  <1>1. Counted(m, first, id)'
    <2>1. 1 \in 1..(sent' + 1 - first)
      OBVIOUS
    <2>2. next'[m] = id + 1 \/ next'[m] = id + 1 - SeqMod
      OBVIOUS
    <2> QED BY <2>1, <2>2 DEF Counted
  <1>2. ASSUME NEW n \in 0..sent, Counted(m, n, id)
        PROVE  LapApart(n, first)
    BY <1>2 DEF Counted, LapApart
  <1> QED BY <1>1, <1>2

\* The fields of messages.
LEMMA MessageFields ==
    \A x \in Message :
        /\ x.src \in Masters \cup {NoMaster} /\ x.n \in 0..MaxSync
        /\ x.seq \in 0..SeqMod - 1 /\ x.oneStep \in BOOLEAN
        /\ x # Other <=> x.src \in Masters
        /\ x # Other => x.n > 0
  <1>1. /\ Other.src = NoMaster /\ Other.n = 0 /\ Other.seq = 0 /\ Other.oneStep = FALSE
        /\ 0 \in 0..MaxSync /\ 0 \in 0..SeqMod - 1
    BY PtpAssumption DEF Other
  <1>2. \A x \in [src: Masters, n: 1..MaxSync, seq: 0..SeqMod - 1, oneStep: BOOLEAN] :
           /\ x.src \in Masters /\ x.n \in 0..MaxSync /\ x.n > 0
           /\ x.seq \in 0..SeqMod - 1 /\ x.oneStep \in BOOLEAN
    BY PtpAssumption
  <1> QED BY <1>1, <1>2, PtpAssumption DEF Message

\* The contents of a queue of messages are messages.
LEMMA ContentsType ==
    ASSUME NEW q \in Seq(Message) PROVE Contents(q) \subseteq Message
  BY DEF Contents

\* A master sends a Sync and its Follow_Up; either may be lost.
LEMMA MasterSyncKeepsInv ==
    ASSUME PtpInv, NEW m \in Masters, NEW oneStep \in BOOLEAN, NEW s \in BOOLEAN,
           NEW f \in BOOLEAN, MasterSync(m, oneStep, s, f)
    PROVE  PtpInv'
  <1> USE PtpAssumption
  <1>0. /\ TypeOK /\ SentInv /\ OrderInv /\ CountInv /\ PairsMatch
        /\ sent \in Nat /\ next \in [Masters -> 0..SeqMod - 1]
        /\ event \in Seq(Message) /\ general \in Seq(Message)
    BY DEF PtpInv, TypeOK
  <1>1. PICK msg \in Message :
           /\ msg = [src |-> m, n |-> sent + 1, seq |-> next[m], oneStep |-> oneStep]
           /\ msg.src = m /\ msg.n = sent + 1 /\ msg.seq = next[m] /\ msg # Other
    <2> DEFINE new == [src |-> m, n |-> sent + 1, seq |-> next[m], oneStep |-> oneStep]
    <2>1. new \in Message /\ new # Other
      BY <1>0 DEF MasterSync, TypeOK, Message, Other
    <2> QED BY <2>1
  <1>2. /\ event' = event \/ event' = Append(event, msg)
        /\ general' = general \/ general' = Append(general, msg)
        /\ UNCHANGED <<restarts, others, turn, pending, obs>>
    BY <1>1 DEF MasterSync
  <1>3. CountsOn(m)
    BY <1>0, NextSeq DEF MasterSync, CountsOn
  <1>4. /\ event' \in Seq(Message) /\ Contents(event') \subseteq Contents(event) \cup {msg}
        /\ general' \in Seq(Message) /\ Contents(general') \subseteq Contents(general) \cup {msg}
    <2>1. ASSUME NEW q \in Seq(Message)
          PROVE  /\ Append(q, msg) \in Seq(Message)
                 /\ Contents(Append(q, msg)) \subseteq Contents(q) \cup {msg}
      BY AppendContents
    <2> QED BY <1>0, <1>2, <2>1
  <1>5. \A x \in Contents(event) \cup Contents(general) : x \in Message /\ x.n <= sent
    BY <1>0, ContentsType DEF SentInv
  <1>6. TypeOK'
    <2>1. sent' \in 0..MaxSync
      BY <1>0 DEF MasterSync
    <2>2. (next[m] + 1) % SeqMod \in 0..SeqMod - 1
      BY <1>0, NextSeq
    <2>3. next' \in [Masters -> 0..SeqMod - 1]
      BY <2>2, <1>0 DEF MasterSync
    <2> QED BY <2>1, <2>3, <1>0, <1>2, <1>4 DEF TypeOK
  <1>7. SentInv'
    <2>1. \A x \in Contents(event') \cup Contents(general') : x.n <= sent'
      BY <1>0, <1>1, <1>3, <1>4, <1>5, MessageFields DEF CountsOn
    <2>2. pending.n <= sent' /\ obs.t2 <= sent'
      BY <1>0, <1>3 DEF SentInv, CountsOn, TypeOK
    <2> QED BY <1>2, <2>1, <2>2 DEF SentInv
  <1>8. OrderInv'
    <2>1. \A y \in Contents(event) : y.n < msg.n
      BY <1>0, <1>1, <1>5, MessageFields
    <2>2. Ordered(event')
      BY <1>0, <1>1, <1>2, <2>1, AppendOrdered DEF OrderInv
    <2>3. pending.n < msg.n /\ obs.t2 < msg.n
      BY <1>0, <1>1 DEF SentInv, TypeOK
    <2> QED BY <1>0, <1>2, <1>4, <2>2, <2>3 DEF OrderInv
  <1>9. CountInv'
    <2> SUFFICES ASSUME restarts = 0 PROVE CountInv'
      BY <1>2 DEF CountInv
    <2>1. /\ Counted(m, msg.n, msg.seq)'
          /\ \A n \in 0..sent : Counted(m, n, msg.seq) => LapApart(n, msg.n)
      BY <1>0, <1>1, <1>3, NewSyncCounts
    <2>2. ASSUME NEW x \in Contents(event) \cup Contents(general) \cup {pending}, x.src \in Masters
          PROVE  /\ x.n \in 0..sent /\ Counted(x.src, x.n, x.seq) /\ Counted(x.src, x.n, x.seq)'
                 /\ x.src = m /\ x.seq = msg.seq => LapApart(x.n, msg.n)
      <3>1. x.n \in 0..sent /\ x.seq \in 0..SeqMod - 1
        BY <1>0, <1>5, MessageFields DEF SentInv, TypeOK
      <3>2. Counted(x.src, x.n, x.seq)
        BY <1>0, <2>2 DEF CountInv
      <3>3. Counted(x.src, x.n, x.seq)'
        BY <1>0, <1>3, <2>2, <3>1, <3>2, SyncKeepsCounted
      <3> QED BY <2>1, <3>1, <3>2, <3>3
    <2>3. \A x \in Contents(event)' \cup Contents(general)' \cup {pending'} :
             x.src \in Masters => Counted(x.src, x.n, x.seq)'
      BY <1>1, <1>2, <1>4, <2>1, <2>2
    <2>4. ASSUME NEW x \in Contents(event)' \cup {pending'}, NEW y \in Contents(general)'
          PROVE  Followed(x, y)
      BY <1>0, <1>1, <1>2, <1>4, <2>2 DEF CountInv, Followed, LapApart
    <2> QED BY <2>3, <2>4 DEF CountInv, Followed, LapApart
  <1>10. PairsMatch'
    BY <1>0, <1>2 DEF PairsMatch, LapApart
  <1> QED BY <1>6, <1>7, <1>8, <1>9, <1>10 DEF PtpInv

\* A datagram that is not for the thread changes no count and no order.
LEMMA OtherKeepsInv ==
    ASSUME PtpInv, NEW q \in {"event", "general"}, OtherDatagram(q)
    PROVE  PtpInv'
  <1> USE PtpAssumption
  <1>0. /\ TypeOK /\ SentInv /\ OrderInv /\ CountInv /\ PairsMatch
        /\ event \in Seq(Message) /\ general \in Seq(Message)
        /\ UNCHANGED <<sent, next, restarts, turn, pending, obs>>
    BY DEF PtpInv, TypeOK, OtherDatagram
  <1>1. /\ Other \in Message /\ Other.src \notin Masters /\ Other.n = 0
    BY DEF Message, Other
  <1>2. ASSUME NEW r \in Seq(Message)
        PROVE  /\ Append(r, Other) \in Seq(Message)
               /\ Contents(Append(r, Other)) \subseteq Contents(r) \cup {Other}
               /\ Ordered(r) => Ordered(Append(r, Other))
    BY <1>1, AppendContents, AppendOrdered
  <1>3. /\ event' \in Seq(Message) /\ Contents(event') \subseteq Contents(event) \cup {Other}
        /\ general' \in Seq(Message) /\ Contents(general') \subseteq Contents(general) \cup {Other}
        /\ Ordered(event')
    BY <1>0, <1>2 DEF OtherDatagram, OrderInv
  <1>4. TypeOK'
    <2>1. others \in [{"event", "general"} -> 0..MaxOther]
      BY <1>0 DEF TypeOK
    <2>2. others[q] + 1 \in 0..MaxOther /\ others' = [others EXCEPT ![q] = @ + 1]
      BY <2>1 DEF OtherDatagram
    <2>3. others' \in [{"event", "general"} -> 0..MaxOther]
      BY <2>1, <2>2
    <2> QED BY <2>3, <1>0, <1>3 DEF TypeOK
  <1>5. SentInv' /\ OrderInv' /\ PairsMatch'
    BY <1>0, <1>1, <1>3 DEF SentInv, OrderInv, PairsMatch, LapApart, TypeOK
  <1>6. CountInv'
    BY <1>0, <1>1, <1>3 DEF CountInv, Counted, Followed, LapApart
  <1> QED BY <1>4, <1>5, <1>6 DEF PtpInv

\* After a restart nothing is said of counts any more.
LEMMA RestartKeepsInv ==
    ASSUME PtpInv, NEW m \in Masters, MasterRestart(m)
    PROVE  PtpInv'
  <1> USE PtpAssumption
  <1>1. TypeOK'
    BY DEF PtpInv, TypeOK, MasterRestart
  <1>2. restarts' # 0
    BY DEF PtpInv, TypeOK, MasterRestart
  <1>3. SentInv' /\ OrderInv'
    BY DEF PtpInv, SentInv, OrderInv, MasterRestart
  <1> QED BY <1>1, <1>2, <1>3 DEF PtpInv, CountInv, PairsMatch

\* The thread takes a datagram of the event socket.
LEMMA HandleEventKeepsInv ==
    ASSUME PtpInv, HandleEvent
    PROVE  PtpInv' /\ (obs' # obs => obs'.t2 > obs.t2)
  <1> USE PtpAssumption
  <1>0. /\ TypeOK /\ SentInv /\ OrderInv /\ CountInv /\ PairsMatch
        /\ event \in Seq(Message) /\ general \in Seq(Message) /\ event # <<>>
        /\ event' = Tail(event) /\ turn' = "general"
        /\ UNCHANGED <<sent, next, restarts, others, general>>
    BY DEF PtpInv, TypeOK, HandleEvent, env
  <1>1. PICK m \in Message : m = Head(event) /\ m \in Contents(event)
    BY <1>0, TailContents
  <1>2. /\ event' \in Seq(Message) /\ Contents(event') \subseteq Contents(event) /\ Ordered(event')
        /\ m # Other => \A x \in Contents(event') : x # Other => m.n < x.n
    BY <1>0, <1>1, TailContents, TailOrdered DEF OrderInv
  <1>3. /\ m.n \in 0..MaxSync /\ m.n <= sent
        /\ m # Other => m.src \in Masters /\ m.seq \in 0..SeqMod - 1
                        /\ m.n > 0 /\ pending.n < m.n /\ obs.t2 < m.n
    BY <1>0, <1>1, MessageFields DEF SentInv, OrderInv
  <1>4. CASE m = Other /\ UNCHANGED <<pending, obs>>
    <2>1. TypeOK'
      BY <1>0, <1>2, <1>4 DEF TypeOK
    <2>2. SentInv' /\ OrderInv' /\ PairsMatch'
      BY <1>0, <1>2, <1>4 DEF SentInv, OrderInv, PairsMatch, LapApart
    <2>3. CountInv'
      BY <1>0, <1>2, <1>4 DEF CountInv, Counted, Followed, LapApart
    <2> QED BY <1>4, <2>1, <2>2, <2>3 DEF PtpInv
  <1>5. CASE m # Other /\ obs' = [t1 |-> m.n, t2 |-> m.n] /\ pending' = None
    <2>0. None.src \notin Masters /\ None.n = 0 /\ obs'.t1 = m.n /\ obs'.t2 = m.n
      BY <1>5 DEF None
    <2>1. TypeOK'
      BY <1>0, <1>2, <1>3, <1>5 DEF TypeOK, None
    <2>2. SentInv' /\ OrderInv' /\ PairsMatch'
      <3>1. \A x \in Contents(event') : x # Other => x.n > 0
        BY <1>2, ContentsType, MessageFields
      <3>2. SentInv'
        BY <1>0, <1>2, <1>3, <1>5, <2>0 DEF SentInv, TypeOK
      <3> QED BY <3>1, <3>2, <1>2, <1>5, <2>0 DEF OrderInv, PairsMatch
    <2>3. CountInv'
      BY <1>0, <1>2, <1>5, <2>0 DEF CountInv, Counted, Followed, LapApart
    <2> QED BY <1>3, <1>5, <2>0, <2>1, <2>2, <2>3 DEF PtpInv
  <1>6. CASE m # Other /\ pending' = [src |-> m.src, n |-> m.n, seq |-> m.seq] /\ UNCHANGED obs
    <2>0. pending'.src = m.src /\ pending'.n = m.n /\ pending'.seq = m.seq
      BY <1>6
    <2>1. TypeOK'
      BY <1>0, <1>2, <1>3, <1>6 DEF TypeOK
    <2>2. SentInv' /\ OrderInv' /\ PairsMatch'
      BY <1>0, <1>2, <1>3, <1>6, <2>0 DEF SentInv, OrderInv, PairsMatch, LapApart
    <2>3. CountInv'
      BY <1>0, <1>1, <1>2, <1>6, <2>0 DEF CountInv, Counted, Followed, LapApart
    <2> QED BY <1>6, <2>1, <2>2, <2>3 DEF PtpInv
  <1> QED BY <1>1, <1>4, <1>5, <1>6 DEF HandleEvent

\* The thread takes a datagram of the general socket.
LEMMA HandleGeneralKeepsInv ==
    ASSUME PtpInv, HandleGeneral
    PROVE  PtpInv' /\ (obs' # obs => obs'.t2 > obs.t2)
  <1> USE PtpAssumption
  <1>0. /\ TypeOK /\ SentInv /\ OrderInv /\ CountInv /\ PairsMatch
        /\ event \in Seq(Message) /\ general \in Seq(Message) /\ general # <<>>
        /\ general' = Tail(general) /\ turn' = "event"
        /\ UNCHANGED <<sent, next, restarts, others, event>>
    BY DEF PtpInv, TypeOK, HandleGeneral, env
  <1>1. PICK m \in Message : m = Head(general) /\ m \in Contents(general)
    BY <1>0, TailContents
  <1>2. general' \in Seq(Message) /\ Contents(general') \subseteq Contents(general)
    BY <1>0, TailContents
  <1>3. CASE UNCHANGED <<obs, pending>>
    <2>1. TypeOK'
      BY <1>0, <1>2, <1>3 DEF TypeOK
    <2>2. SentInv' /\ OrderInv' /\ PairsMatch'
      BY <1>0, <1>2, <1>3 DEF SentInv, OrderInv, PairsMatch, LapApart
    <2>3. CountInv'
      BY <1>0, <1>2, <1>3 DEF CountInv, Counted, Followed, LapApart
    <2> QED BY <1>3, <2>1, <2>2, <2>3 DEF PtpInv
  <1>4. CASE /\ m # Other /\ pending # None /\ pending.src = m.src /\ pending.seq = m.seq
             /\ obs' = Observed(m) /\ pending' = None
    <2>0. /\ None.src \notin Masters /\ None.n = 0 /\ m.src \in Masters
          /\ m.n \in 0..MaxSync /\ pending.n \in 0..MaxSync
          /\ obs'.t1 = m.n /\ obs'.t2 = pending.n /\ pending.n > obs.t2
      BY <1>0, <1>4, MessageFields DEF None, Observed, TypeOK, OrderInv
    <2>1. TypeOK'
      BY <1>0, <1>2, <1>4, <2>0 DEF TypeOK, None, Observed
    <2>2. SentInv' /\ OrderInv'
      <3>1. \A x \in Contents(event) : x # Other => x.n > 0
        BY <1>0, ContentsType, MessageFields
      <3>2. SentInv'
        BY <1>0, <1>2, <1>4, <2>0 DEF SentInv, TypeOK
      <3> QED BY <3>1, <3>2, <1>0, <1>4, <2>0 DEF OrderInv
    <2>3. CountInv'
      BY <1>0, <1>2, <1>4, <2>0 DEF CountInv, Counted, Followed, LapApart
    <2>4. PairsMatch'
      BY <1>0, <1>1, <1>4, <2>0 DEF CountInv, Followed, PairsMatch, LapApart
    <2> QED BY <2>0, <2>1, <2>2, <2>3, <2>4 DEF PtpInv
  <1> QED BY <1>1, <1>3, <1>4 DEF HandleGeneral

\* A step keeps the invariant, and observes later Syncs only.
LEMMA NextKeepsInv ==
    ASSUME PtpInv, [Next]_vars
    PROVE  PtpInv' /\ (obs' # obs => obs'.t2 > obs.t2)
  <1>1. ASSUME NEW m \in Masters, NEW o \in BOOLEAN, NEW s \in BOOLEAN, NEW f \in BOOLEAN,
               MasterSync(m, o, s, f)
        PROVE  PtpInv' /\ UNCHANGED obs
    BY <1>1, MasterSyncKeepsInv DEF MasterSync
  <1>2. ASSUME NEW m \in Masters, MasterRestart(m) PROVE PtpInv' /\ UNCHANGED obs
    BY <1>2, RestartKeepsInv DEF MasterRestart
  <1>3. ASSUME NEW q \in {"event", "general"}, OtherDatagram(q) PROVE PtpInv' /\ UNCHANGED obs
    BY <1>3, OtherKeepsInv DEF OtherDatagram
  <1>4. CASE Timeout \/ Stop \/ UNCHANGED vars
    <2>1. UNCHANGED <<env, event, general, pending, obs>> /\ turn' \in {"event", "general", "stopped"}
      BY <1>4 DEF Timeout, Stop, vars, PtpInv, TypeOK
    <2> QED BY <2>1 DEF env, PtpInv, TypeOK, SentInv, OrderInv, CountInv, Counted, Followed,
                        PairsMatch, LapApart
  <1> QED BY <1>1, <1>2, <1>3, <1>4, HandleEventKeepsInv, HandleGeneralKeepsInv DEF Next

------------------------------------------------------------------------------
(* The theorems *)

\* The inductive invariant: the thread has taken the Syncs in order, and
\* sequence ids tell Syncs apart that are less than a lap apart.
THEOREM PtpInvariant == Spec => []PtpInv
  <1>1. PtpInv /\ [Next]_vars => PtpInv'
    BY NextKeepsInv
  <1> QED BY InitPtpInv, <1>1, PTL DEF Spec

\* The type invariant, for every width of the sequence id.
THEOREM TypeCorrect == Spec => []TypeOK
  <1>1. PtpInv => TypeOK
    BY DEF PtpInv
  <1> QED BY PtpInvariant, <1>1, PTL

\* handle_general pairs a Sync with its own Follow_Up, or one a lap away.
THEOREM PairsAreOfOneSync == Spec => []PairsMatch
  <1>1. PtpInv => PairsMatch
    BY DEF PtpInv
  <1> QED BY PtpInvariant, <1>1, PTL

\* The servo is given each Sync once, in their order.
THEOREM SyncsAreObservedInOrder == Spec => ObservedInOrder
  <1>1. PtpInv /\ [Next]_vars => [obs' # obs => obs'.t2 > obs.t2]_vars
    BY NextKeepsInv
  <1> QED BY PtpInvariant, <1>1, PTL DEF Spec, ObservedInOrder

=============================================================================
