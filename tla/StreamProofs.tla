----------------------------- MODULE StreamProofs -----------------------------
(***************************************************************************)
(* For every number of attempts, every link and all times that satisfy     *)
(* TimeAssumption: a stream that a flow uses is kept alive (KeptAlive), one*)
(* whose port nobody has open is not (AbandonedIsNotKept), and a flow is   *)
(* requested only from a device of the name (ResolvedIsNamed).             *)
(*                                                                         *)
(* KeptAlive: the time a transmitter still waits is never less than what   *)
(* the device may still need. While the answer to a request is on its way, *)
(* that is the rest of the reply timeout and the slack TimeAssumption      *)
(* leaves; with a flow in the media thread, the time to the next keepalive *)
(* and one interval for every keepalive that may still be lost. Keepalives *)
(* go to the right transmitter because it is the only one heard.           *)
(*                                                                         *)
(* AbandonedIsNotKept: the last source of a flow streams to its port       *)
(* (SourcesInv). ResolvedIsNamed: what is known after the two queries is   *)
(* what devices of the name say (FoundInv), by induction over the records. *)
(***************************************************************************)
EXTENDS Stream, SequenceTheorems, WellFoundedInduction, TLAPS

Early == {"idle", "chan", "arc"}

Fields == {"pc", "res", "heard", "port", "wait", "listed", "handle", "last", "due", "lost"}

\* The fields of an attempt that the argument computes with; what is resolved
\* and the ports may be anything.
AttemptType(a) ==
    /\ DOMAIN a = Fields
    /\ a.pc \in Early \cup {"asked", "flow", "done"}
    /\ a.wait \in 0..ReplyTimeout /\ a.due \in {0, 1} /\ a.lost \in 0..MaxLoss
    /\ a.last \in Attempts \cup {None}

StreamType ==
    /\ att = [k \in Attempts |-> att[k]] /\ \A k \in Attempts : AttemptType(att[k])
    /\ wire \in [Attempts -> {"none", "request", "ok", "okNoHandle", "refused", "stop"}]
    /\ ttl \in [Attempts -> 0..Expire]
    /\ mixed \subseteq Attempts

\* What goes with the place an attempt is at.
PlaceInv(k) ==
    /\ att[k].pc \in Early => ttl[k] = 0 /\ wire[k] = "none" /\ att[k].lost = 0 /\ ~att[k].listed
    /\ att[k].pc = "asked" => wire[k] # "stop" /\ att[k].lost = 0 /\ ~att[k].listed
    /\ att[k].pc = "flow" => wire[k] = "none"
    /\ att[k].pc = "done" => ~att[k].listed

\* The transmitter waits long enough.
TimeInv(k) ==
    /\ att[k].pc = "asked" /\ wire[k] \in {"ok", "okNoHandle"} =>
          ttl[k] >= Expire - ReplyTimeout + att[k].wait
    /\ att[k].pc = "flow" /\ k \notin mixed => ttl[k] > att[k].due + (MaxLoss - att[k].lost)

\* Nobody else is heard on the port of an attempt that is not mixed.
AloneInv(k) ==
    Open(k) /\ k \notin mixed =>
        \A j \in Attempts : j # k /\ Streams(j) => att[j].port # att[k].port

StreamInv == StreamType /\ \A k \in Attempts : PlaceInv(k) /\ TimeInv(k) /\ AloneInv(k)

------------------------------------------------------------------------------
\* The device starts with no attempt under way.
LEMMA InitStreamInv == Init => StreamInv
  <1> SUFFICES ASSUME Init PROVE StreamInv
    OBVIOUS
  <1>1. \A k \in Attempts : AttemptType(att[k])
    BY StreamAssumption DEF Init, Idle, AttemptType, Fields, Early
  <1>2. StreamType
    BY <1>1, StreamAssumption DEF Init, StreamType
  <1>3. \A k \in Attempts : PlaceInv(k) /\ TimeInv(k) /\ AloneInv(k)
    BY DEF Init, Idle, PlaceInv, TimeInv, AloneInv, Open, Early
  <1> QED BY <1>2, <1>3 DEF StreamInv

\* An attempt that is over keeps the invariant.
LEMMA CloseKeepsStreamInv ==
    ASSUME StreamInv, NEW k \in Attempts, NEW port, NEW res,
           att' = [att EXCEPT ![k] = Closed(port, res)],
           port = att[k].port \/ att[k].pc = "arc",
           \/ UNCHANGED wire
           \/ \E s \in {"stop", "none"} : wire' = [wire EXCEPT ![k] = s],
           UNCHANGED <<ttl, mixed>>
    PROVE  StreamInv'
  <1> DEFINE a == Closed(port, res)
  <1>1. AttemptType(a) /\ a.pc = "done" /\ ~a.listed /\ a.port = port
    BY StreamAssumption DEF Closed, Idle, AttemptType, Fields, Early
  <1> HIDE DEF a
  <1>2. /\ att'[k] = a
        /\ \A j \in Attempts : j # k => att'[j] = att[j] /\ wire'[j] = wire[j]
        /\ att' = [j \in Attempts |-> att'[j]]
        /\ \A j \in Attempts : Streams(j)' => Streams(j) /\ att'[j].port = att[j].port
    <2>1. att' = [att EXCEPT ![k] = a]
      BY DEF a
    <2>2. att[k].pc = "arc" => ~Streams(k)
      BY DEF StreamInv, PlaceInv, Streams, Early
    <2> QED BY <2>1, <2>2, <1>1 DEF StreamInv, StreamType, Streams
  <1>3. StreamType'
    BY <1>1, <1>2 DEF StreamInv, StreamType
  <1>4. ASSUME NEW j \in Attempts PROVE PlaceInv(j)' /\ TimeInv(j)' /\ AloneInv(j)'
    <2>1. CASE j = k
      BY <2>1, <1>1, <1>2 DEF PlaceInv, TimeInv, AloneInv, Open, Early
    <2>2. CASE j # k
      BY <2>2, <1>2 DEF StreamInv, PlaceInv, TimeInv, AloneInv, Open
    <2> QED BY <2>1, <2>2
  <1> QED BY <1>3, <1>4 DEF StreamInv

\* The steps of establish keep the invariant.
LEMMA EstablishKeepsStreamInv ==
    ASSUME StreamInv, NEW k \in Attempts, Start(k) \/ EstablishStep(k)
    PROVE  StreamInv'
  <1>1. CASE Start(k) \/ QueryChan(k)
    <2>1. PICK a : /\ att' = [att EXCEPT ![k] = a] /\ AttemptType(a)
                   /\ att[k].pc \in Early /\ a.pc \in Early
                   /\ a.port = att[k].port /\ a.listed = att[k].listed /\ a.lost = att[k].lost
                   /\ UNCHANGED <<wire, ttl, mixed>>
      <3>1. AttemptType(att[k])
        BY DEF StreamInv, StreamType
      <3>2. CASE Start(k)
        <4> DEFINE b == [att[k] EXCEPT !.pc = "chan"]
        <4>1. AttemptType(b) /\ b.pc = "chan" /\ b.port = att[k].port
              /\ b.listed = att[k].listed /\ b.lost = att[k].lost
          BY <3>1 DEF AttemptType, Early, Fields
        <4>2. att' = [att EXCEPT ![k] = b] /\ att[k].pc = "idle" /\ UNCHANGED <<wire, ttl, mixed>>
          BY <3>2 DEF Start
        <4> HIDE DEF b
        <4> QED BY <4>1, <4>2 DEF Early
      <3>3. CASE QueryChan(k)
        <4>1. PICK heard, res : /\ att' = [att EXCEPT ![k].pc = "arc", ![k].heard = heard, ![k].res = res]
                                /\ att[k].pc = "chan" /\ UNCHANGED <<wire, ttl, mixed>>
          BY <3>3 DEF QueryChan
        <4> DEFINE b == [att[k] EXCEPT !.pc = "arc", !.heard = heard, !.res = res]
        <4>2. AttemptType(b) /\ b.pc = "arc" /\ b.port = att[k].port
              /\ b.listed = att[k].listed /\ b.lost = att[k].lost
          BY <3>1 DEF AttemptType, Early, Fields
        <4>3. att' = [att EXCEPT ![k] = b]
          BY <4>1
        <4> HIDE DEF b
        <4> QED BY <4>1, <4>2, <4>3 DEF Early
      <3> QED BY <1>1, <3>2, <3>3
    <2>2. /\ att'[k] = a
          /\ \A j \in Attempts : j # k => att'[j] = att[j]
          /\ att' = [j \in Attempts |-> att'[j]]
      BY <2>1 DEF StreamInv, StreamType
    <2>3. StreamType'
      BY <2>1, <2>2 DEF StreamInv, StreamType
    <2>4. ASSUME NEW j \in Attempts PROVE PlaceInv(j)' /\ TimeInv(j)' /\ AloneInv(j)'
      BY <2>1, <2>2 DEF StreamInv, PlaceInv, TimeInv, AloneInv, Open, Streams, Early
    <2> QED BY <2>3, <2>4 DEF StreamInv
  <1>2. CASE QueryArc(k)
    <2>1. CASE /\ att' = [att EXCEPT ![k] = Closed(NoPort, Unresolved)]
               /\ att[k].pc = "arc" /\ UNCHANGED <<wire, ttl, mixed>>
      BY <2>1, CloseKeepsStreamInv
    <2>2. ASSUME NEW res, NEW port,
                 att[k].pc = "arc",
                 att' = [att EXCEPT ![k].pc = "asked", ![k].res = res,
                                    ![k].port = port, ![k].wait = ReplyTimeout],
                 wire' = [wire EXCEPT ![k] = "request"],
                 mixed' = IF \E j \in Attempts : Streams(j) /\ att[j].port = port
                          THEN mixed \cup {k} ELSE mixed,
                 UNCHANGED ttl
          PROVE  StreamInv'
      <3>1. /\ AttemptType(att'[k])
            /\ att'[k].pc = "asked" /\ att'[k].port = port /\ att'[k].wait = ReplyTimeout
            /\ att'[k].lost = att[k].lost /\ att'[k].listed = att[k].listed
            /\ \A j \in Attempts : j # k => att'[j] = att[j] /\ wire'[j] = wire[j]
            /\ att' = [j \in Attempts |-> att'[j]]
        BY <2>2, StreamAssumption DEF StreamInv, StreamType, AttemptType, Fields, Early
      <3>2. StreamType'
        BY <2>2, <3>1 DEF StreamInv, StreamType
      <3>3. att[k].lost = 0 /\ ~att[k].listed
        BY <2>2 DEF StreamInv, PlaceInv, Early
      <3>4. PlaceInv(k)' /\ TimeInv(k)'
        BY <2>2, <3>1, <3>3 DEF StreamInv, StreamType, PlaceInv, TimeInv, Early
      <3>5. AloneInv(k)'
        BY <2>2, <3>1 DEF StreamInv, StreamType, AloneInv, Streams
      <3>6. ASSUME NEW j \in Attempts, j # k PROVE PlaceInv(j)' /\ TimeInv(j)' /\ AloneInv(j)'
        <4>1. att'[j] = att[j] /\ wire'[j] = wire[j] /\ ttl'[j] = ttl[j] /\ (j \notin mixed' => j \notin mixed)
          BY <2>2, <3>1, <3>6
        <4>2. PlaceInv(j)' /\ TimeInv(j)'
          BY <4>1 DEF StreamInv, PlaceInv, TimeInv
        <4>3. ~Streams(k)
          BY <2>2 DEF StreamInv, PlaceInv, Streams, Early
        <4>4. AloneInv(j)'
          <5>1. \A i \in Attempts : Streams(i)' => Streams(i) /\ att'[i] = att[i]
            BY <2>2, <3>1, <4>3 DEF Streams
          <5> QED BY <5>1, <4>1 DEF StreamInv, AloneInv, Open
        <4> QED BY <4>2, <4>4
      <3> QED BY <3>2, <3>4, <3>5, <3>6 DEF StreamInv
    <2> QED BY <1>2, <2>1, <2>2 DEF QueryArc
  <1>3. CASE ReplyArrives(k)
    <2>1. /\ AttemptType(att'[k])
          /\ att'[k].pc = "flow" /\ att'[k].due = 1
          /\ att'[k].port = att[k].port /\ att'[k].lost = att[k].lost
          /\ \A j \in Attempts : j # k => att'[j] = att[j] /\ wire'[j] = wire[j]
          /\ att' = [j \in Attempts |-> att'[j]]
      BY <1>3, StreamAssumption DEF ReplyArrives, NextKeepalive, StreamInv, StreamType, AttemptType, Fields, Early
    <2>2. /\ att[k].pc = "asked" /\ wire[k] \in {"ok", "okNoHandle"}
          /\ wire' = [wire EXCEPT ![k] = "none"] /\ UNCHANGED <<ttl, mixed>>
      BY <1>3 DEF ReplyArrives
    <2>3. StreamType'
      BY <2>1, <2>2 DEF StreamInv, StreamType
    <2>4. PlaceInv(k)'
      BY <2>1, <2>2 DEF StreamInv, StreamType, PlaceInv, Early
    <2>5. TimeInv(k)'
      <3>1. ttl[k] >= Expire - ReplyTimeout + att[k].wait /\ att[k].lost = 0
        BY <2>2 DEF StreamInv, TimeInv, PlaceInv
      <3>2. ttl[k] \in Int /\ att[k].wait \in Nat
        BY DEF StreamInv, StreamType, AttemptType
      <3> QED BY <3>1, <3>2, <2>1, <2>2, StreamAssumption, TimeAssumption DEF TimeInv
    <2>6. \A j \in Attempts : AloneInv(j)'
      BY <2>1, <2>2 DEF StreamInv, AloneInv, Open, Streams
    <2>7. ASSUME NEW j \in Attempts, j # k PROVE PlaceInv(j)' /\ TimeInv(j)'
      BY <2>1, <2>2, <2>7 DEF StreamInv, PlaceInv, TimeInv
    <2> QED BY <2>3, <2>4, <2>5, <2>6, <2>7 DEF StreamInv
  <1>4. CASE RequestFails(k)
    BY <1>4, CloseKeepsStreamInv DEF RequestFails
  <1> QED BY <1>1, <1>2, <1>3, <1>4 DEF EstablishStep

\* Keepalives keep the invariant: the flow's own transmitter gets them.
LEMMA TurnKeepsStreamInv ==
    ASSUME StreamInv, NEW k \in Attempts, Turn(k)
    PROVE  StreamInv'
  <1>1. PICK src \in LastSource(k) : Keepalive(k, src)
    BY DEF Turn
  <1>2. /\ att[k].pc = "flow" /\ att[k].due = 0
        /\ UNCHANGED <<wire, mixed>>
    BY DEF Turn
  <1>3. src \in Attempts \cup {None} /\ (k \notin mixed => src = k)
    <2>1. src \in Attempts \cup {None}
      BY DEF LastSource, Senders, StreamInv, StreamType, AttemptType
    <2>2. ASSUME k \notin mixed PROVE src = k
      <3>1. Streams(k)
        BY <1>2, <2>2, StreamAssumption DEF StreamInv, StreamType, AttemptType, TimeInv, Streams
      <3>2. Senders(k) = {k}
        BY <1>2, <2>2, <3>1 DEF StreamInv, AloneInv, Open, Senders
      <3> QED BY <3>2 DEF LastSource
    <2> QED BY <2>1, <2>2
  <1>4. /\ AttemptType(att'[k])
        /\ att'[k].pc = "flow" /\ att'[k].due = 1
        /\ att'[k].port = att[k].port
        /\ \A j \in Attempts : j # k => att'[j] = att[j]
        /\ att' = [j \in Attempts |-> att'[j]]
    <2>1. att = [j \in Attempts |-> att[j]] /\ AttemptType(att[k])
      BY DEF StreamInv, StreamType
    <2>2. CASE att' = [att EXCEPT ![k].last = src, ![k].due = NextKeepalive, ![k].lost = 0] /\ src # None
      BY <1>2, <1>3, <2>1, <2>2, StreamAssumption DEF NextKeepalive, AttemptType, Fields
    <2>3. CASE /\ att' = [att EXCEPT ![k].last = src, ![k].due = NextKeepalive, ![k].lost = @ + 1]
               /\ src # None /\ att[k].lost < MaxLoss
      BY <1>2, <1>3, <2>1, <2>3, StreamAssumption DEF NextKeepalive, AttemptType, Fields
    <2>4. CASE att' = [att EXCEPT ![k].due = NextKeepalive]
      BY <1>2, <2>1, <2>4, StreamAssumption DEF NextKeepalive, AttemptType, Fields
    <2> QED BY <1>1, <2>2, <2>3, <2>4 DEF Keepalive
  <1>5. /\ ttl' \in [Attempts -> 0..Expire]
        /\ \A j \in Attempts : ttl'[j] = ttl[j] \/ (Streams(j) /\ ttl'[j] = Expire)
    BY <1>1, <1>3, StreamAssumption DEF Keepalive, StreamInv, StreamType, Streams
  <1>6. StreamType'
    BY <1>2, <1>4, <1>5 DEF StreamInv, StreamType
  <1>7. \A j \in Attempts : PlaceInv(j)' /\ AloneInv(j)'
    <2>1. \A j \in Attempts : AloneInv(j)'
      BY <1>2, <1>4, <1>5 DEF StreamInv, AloneInv, Open, Streams
    <2>2. \A j \in Attempts : PlaceInv(j)'
      BY <1>2, <1>4, <1>5, StreamAssumption DEF StreamInv, PlaceInv, Streams, Early
    <2> QED BY <2>1, <2>2
  <1>8. TimeInv(k)'
    <2> SUFFICES ASSUME k \notin mixed
                 PROVE  ttl'[k] > att'[k].due + (MaxLoss - att'[k].lost)
      BY <1>2, <1>4 DEF TimeInv
    <2>1. ttl[k] > MaxLoss - att[k].lost /\ att[k].lost \in 0..MaxLoss /\ ttl[k] \in 0..Expire
      BY <1>2, StreamAssumption DEF StreamInv, StreamType, AttemptType, TimeInv
    <2>2. src = k /\ k # None
      BY <1>3, StreamAssumption DEF None
    <2>3. \/ ttl'[k] = Expire /\ att'[k].lost = 0
          \/ ttl'[k] = ttl[k] /\ att'[k].lost = att[k].lost + 1
      <3>1. att = [j \in Attempts |-> att[j]] /\ DOMAIN att[k] = Fields /\ Streams(k)
            /\ ttl \in [Attempts -> 0..Expire]
        BY <2>1, StreamAssumption DEF StreamInv, StreamType, AttemptType, Streams
      <3>2. CASE /\ ttl' = [ttl EXCEPT ![k] = IF Streams(k) THEN Expire ELSE 0]
                 /\ att' = [att EXCEPT ![k].last = k, ![k].due = NextKeepalive, ![k].lost = 0]
        BY <3>1, <3>2 DEF Fields
      <3>3. CASE /\ att' = [att EXCEPT ![k].last = k, ![k].due = NextKeepalive, ![k].lost = @ + 1]
                 /\ UNCHANGED ttl
        BY <3>1, <3>3 DEF Fields
      <3> QED BY <1>1, <2>2, <3>2, <3>3 DEF Keepalive
    <2> QED BY <2>1, <2>3, <1>4, StreamAssumption, TimeAssumption
  <1>9. ASSUME NEW j \in Attempts, j # k PROVE TimeInv(j)'
    BY <1>2, <1>4, <1>5, <1>9, StreamAssumption, TimeAssumption
       DEF StreamInv, StreamType, AttemptType, TimeInv
  <1> QED BY <1>6, <1>7, <1>8, <1>9 DEF StreamInv

\* So does time: what is left to wait and what is left to do shrink alike.
LEMMA TickKeepsStreamInv ==
    ASSUME StreamInv, Tick
    PROVE  StreamInv'
  <1>1. ASSUME NEW k \in Attempts
        PROVE  /\ AttemptType(att'[k]) /\ ttl'[k] \in 0..Expire
               /\ att'[k].pc = att[k].pc /\ att'[k].port = att[k].port
               /\ att'[k].lost = att[k].lost /\ att'[k].listed = att[k].listed
               /\ att[k].pc = "asked" => att'[k].wait = att[k].wait - 1
               /\ att[k].pc = "flow" => att'[k].due = att[k].due - 1 /\ att[k].due = 1
               /\ Streams(k)' => Streams(k)
               /\ ttl'[k] = IF ttl[k] > 0 THEN ttl[k] - 1 ELSE 0
    <2>1. AttemptType(att[k]) /\ ttl[k] \in 0..Expire
      BY DEF StreamInv, StreamType
    <2>2. att'[k] = [att[k] EXCEPT !.wait = IF att[k].pc = "asked" THEN @ - 1 ELSE @,
                                   !.due = IF att[k].pc = "flow" THEN @ - 1 ELSE @]
          /\ (att[k].pc = "asked" => att[k].wait > 0) /\ (att[k].pc = "flow" => att[k].due > 0)
          /\ ttl'[k] = IF ttl[k] > 0 THEN ttl[k] - 1 ELSE 0
      BY DEF Tick
    <2>3. AttemptType(att'[k])
      BY <2>1, <2>2, StreamAssumption DEF AttemptType, Fields
    <2>4. /\ att'[k].pc = att[k].pc /\ att'[k].port = att[k].port
          /\ att'[k].lost = att[k].lost /\ att'[k].listed = att[k].listed
          /\ att[k].pc = "asked" => att'[k].wait = att[k].wait - 1
          /\ att[k].pc = "flow" => att'[k].due = att[k].due - 1 /\ att[k].due = 1
      BY <2>1, <2>2, StreamAssumption DEF AttemptType, Fields
    <2>5. ttl'[k] \in 0..Expire /\ (Streams(k)' => Streams(k))
      BY <2>1, <2>2, StreamAssumption DEF Streams
    <2> QED BY <2>2, <2>3, <2>4, <2>5
  <1>2. UNCHANGED <<wire, mixed>>
    BY DEF Tick
  <1>3. StreamType'
    BY <1>1, <1>2 DEF Tick, StreamInv, StreamType
  <1>4. ASSUME NEW k \in Attempts PROVE PlaceInv(k)' /\ AloneInv(k)'
    BY <1>1, <1>2 DEF StreamInv, PlaceInv, AloneInv, Open, Early
  <1>5. ASSUME NEW k \in Attempts PROVE TimeInv(k)'
    <2>1. att[k].wait \in 0..ReplyTimeout /\ ttl[k] \in 0..Expire /\ att[k].lost \in 0..MaxLoss
      BY DEF StreamInv, StreamType, AttemptType
    <2> QED BY <1>1, <1>2, <2>1, StreamAssumption, TimeAssumption DEF StreamInv, TimeInv
  <1> QED BY <1>3, <1>4, <1>5 DEF StreamInv

\* And what transmitters and the network do.
LEMMA NetworkKeepsStreamInv ==
    ASSUME StreamInv, NEW k \in Attempts, TxAccept(k) \/ TxRefuse(k) \/ TxStop(k) \/ Lose(k)
    PROVE  StreamInv'
  <1>1. UNCHANGED att /\ wire[k] # "none" /\ att[k].pc \in {"asked", "done"}
    BY DEF TxAccept, TxRefuse, TxStop, Lose, StreamInv, StreamType, AttemptType, PlaceInv
  <1>2. CASE TxAccept(k)
    <2>1. /\ wire[k] = "request"
          /\ wire'[k] \in {"ok", "okNoHandle"} /\ \A j \in Attempts : j # k => wire'[j] = wire[j]
          /\ ttl' = [ttl EXCEPT ![k] = Expire]
          /\ \A j \in Attempts : j # k /\ att[j].port = att[k].port /\ Open(j) => j \in mixed'
          /\ \A j \in Attempts : j # k /\ Streams(j) /\ att[j].port = att[k].port => k \in mixed'
          /\ mixed \subseteq mixed'
      BY <1>2 DEF TxAccept, StreamInv, StreamType, Senders
    <2>2. StreamType'
      BY <1>1, <1>2, StreamAssumption DEF TxAccept, StreamInv, StreamType, AttemptType
    <2>3. \A j \in Attempts : PlaceInv(j)'
      BY <1>1, <2>1 DEF StreamInv, StreamType, PlaceInv, Early
    <2>4. ASSUME NEW j \in Attempts PROVE TimeInv(j)'
      <3>1. att[j].wait \in 0..ReplyTimeout /\ ttl \in [Attempts -> 0..Expire]
        BY DEF StreamInv, StreamType, AttemptType
      <3>2. CASE j = k
        BY <1>1, <2>1, <3>1, <3>2, StreamAssumption DEF TimeInv
      <3>3. CASE j # k
        BY <1>1, <2>1, <3>1, <3>3 DEF StreamInv, TimeInv
      <3> QED BY <3>2, <3>3
    <2>5. ASSUME NEW j \in Attempts PROVE AloneInv(j)'
      BY <1>1, <2>1 DEF StreamInv, StreamType, AloneInv, Open, Streams
    <2> QED BY <2>2, <2>3, <2>4, <2>5 DEF StreamInv
  <1>3. CASE TxStop(k)
    <2>1. wire[k] = "stop" /\ wire' = [wire EXCEPT ![k] = "none"]
          /\ ttl' = [ttl EXCEPT ![k] = 0] /\ UNCHANGED mixed
      BY <1>3 DEF TxStop
    <2>2. att[k].pc = "done"
      BY <1>1, <2>1 DEF StreamInv, PlaceInv
    <2>3. StreamType'
      BY <1>1, <2>1, StreamAssumption DEF StreamInv, StreamType, AttemptType
    <2>4. \A j \in Attempts : PlaceInv(j)' /\ TimeInv(j)' /\ AloneInv(j)'
      BY <1>1, <2>1, <2>2 DEF StreamInv, StreamType, PlaceInv, TimeInv, AloneInv, Open, Streams, Early
    <2> QED BY <2>3, <2>4 DEF StreamInv
  <1>4. CASE TxRefuse(k) \/ Lose(k)
    <2>1. /\ \E s \in {"refused", "none"} : wire' = [wire EXCEPT ![k] = s]
          /\ UNCHANGED <<ttl, mixed>>
      BY <1>4 DEF TxRefuse, Lose
    <2>2. StreamType'
      BY <1>1, <2>1 DEF StreamInv, StreamType, AttemptType
    <2>3. \A j \in Attempts : PlaceInv(j)' /\ TimeInv(j)' /\ AloneInv(j)'
      BY <1>1, <2>1 DEF StreamInv, StreamType, PlaceInv, TimeInv, AloneInv, Open, Streams, Early
    <2> QED BY <2>2, <2>3 DEF StreamInv
  <1> QED BY <1>2, <1>3, <1>4

------------------------------------------------------------------------------
\* StreamInv holds in every reachable state: a transmitter that is used waits
\* longer than this code may take for its next keepalive.
THEOREM StreamInvariant == Spec => []StreamInv
  <1>1. Init => StreamInv
    BY InitStreamInv
  <1>2. StreamInv /\ [Next]_vars => StreamInv'
    <2> SUFFICES ASSUME StreamInv, [Next]_vars PROVE StreamInv'
      OBVIOUS
    <2>1. CASE Tick
      BY <2>1, TickKeepsStreamInv
    <2>2. ASSUME NEW k \in Attempts, Start(k) \/ EstablishStep(k) PROVE StreamInv'
      BY <2>2, EstablishKeepsStreamInv
    <2>3. ASSUME NEW k \in Attempts, StopFlow(k) PROVE StreamInv'
      BY <2>3, CloseKeepsStreamInv DEF StopFlow
    <2>4. ASSUME NEW k \in Attempts, Turn(k) PROVE StreamInv'
      BY <2>4, TurnKeepsStreamInv
    <2>5. ASSUME NEW k \in Attempts, TxAccept(k) \/ TxRefuse(k) \/ TxStop(k) \/ Lose(k)
          PROVE  StreamInv'
      BY <2>5, NetworkKeepsStreamInv
    <2>6. CASE UNCHANGED vars
      BY <2>6 DEF vars, StreamInv, StreamType, AttemptType, PlaceInv, TimeInv, AloneInv, Open, Streams
    <2> QED BY <2>1, <2>2, <2>3, <2>4, <2>5, <2>6 DEF Next
  <1> QED BY <1>1, <1>2, PTL DEF Spec

\* KeptAlive for all constants: the transmitter does not give up a stream that
\* a listed flow uses, however late the reply and whichever keepalives are lost.
THEOREM StreamsAreKeptAlive == Spec => []KeptAlive
  <1>1. StreamInv => KeptAlive
    <2> SUFFICES ASSUME StreamInv, NEW k \in Attempts, att[k].listed, k \notin mixed
                 PROVE  ttl[k] > 0
      BY DEF KeptAlive, Streams
    <2>1. AttemptType(att[k]) /\ att[k].pc = "flow" /\ ttl[k] \in 0..Expire
      BY DEF StreamInv, StreamType, AttemptType, PlaceInv
    <2>2. ttl[k] > att[k].due + (MaxLoss - att[k].lost)
      BY <2>1 DEF StreamInv, TimeInv
    <2> QED BY <2>1, <2>2, StreamAssumption DEF AttemptType
  <1> QED BY <1>1, StreamInvariant, PTL

------------------------------------------------------------------------------
(* Sources of keepalives *)

\* A request that is in flight has not started a stream, and the last source a
\* flow remembers is a stream to that flow's port.
RequestInv(k) == wire[k] = "request" => ttl[k] = 0

SourceInv(k) ==
    att[k].last # None =>
        /\ att[k].pc = "flow"
        /\ att[att[k].last].pc \notin Early /\ att[att[k].last].port = att[k].port

SourcesInv == \A k \in Attempts : RequestInv(k) /\ SourceInv(k)

\* The sources of a flow: streams to its port.
LEMMA SourcesOfFlow ==
    ASSUME StreamInv, SourcesInv, NEW k \in Attempts, NEW src \in LastSource(k), src # None
    PROVE  src \in Attempts /\ att[src].pc \notin Early /\ att[src].port = att[k].port
  <1>1. CASE src \in Senders(k)
    <2>1. src \in Attempts /\ ttl[src] > 0 /\ att[src].port = att[k].port
      BY <1>1 DEF Senders, Streams
    <2>2. att[src].pc \notin Early
      BY <2>1 DEF StreamInv, PlaceInv
    <2> QED BY <2>1, <2>2
  <1>2. CASE src = att[k].last
    BY <1>2 DEF StreamInv, StreamType, AttemptType, SourcesInv, SourceInv
  <1> QED BY <1>1, <1>2 DEF LastSource

\* An attempt that has a port keeps it, and remembers no source but one of its
\* present sources.
Settled(k) == att[k].pc \notin Early => att'[k].pc \notin Early /\ att'[k].port = att[k].port
Remembers(k) ==
    \/ att'[k].last = None
    \/ att'[k].last = att[k].last /\ (att[k].pc = "flow" => att'[k].pc = "flow")
    \/ att[k].pc = "flow" /\ att'[k].pc = "flow" /\ att'[k].last \in LastSource(k)

\* No step of an attempt moves a port or a source of another.
LEMMA OneAttemptMoves ==
    ASSUME StreamInv, NEW k \in Attempts, NEW a, att' = [att EXCEPT ![k] = a]
    PROVE  /\ att'[k] = a
           /\ \A j \in Attempts : j # k => att'[j] = att[j] /\ Settled(j) /\ Remembers(j)
  <1>1. att = [j \in Attempts |-> att[j]]
    BY DEF StreamInv, StreamType
  <1>2. att'[k] = a /\ \A j \in Attempts : j # k => att'[j] = att[j]
    BY <1>1
  <1> QED BY <1>2 DEF Settled, Remembers

\* Steps of establish.
LEMMA EstablishShape ==
    ASSUME StreamInv, NEW k \in Attempts, Start(k) \/ EstablishStep(k) \/ StopFlow(k)
    PROVE  \A j \in Attempts : Settled(j) /\ Remembers(j)
  <1>1. AttemptType(att[k])
    BY DEF StreamInv, StreamType
  <1>2. ASSUME NEW port, NEW res, att' = [att EXCEPT ![k] = Closed(port, res)],
               port = att[k].port \/ att[k].pc \in Early
        PROVE  \A j \in Attempts : Settled(j) /\ Remembers(j)
    <2>1. Closed(port, res).pc = "done" /\ Closed(port, res).port = port /\ Closed(port, res).last = None
      BY DEF Closed, Idle
    <2>2. att'[k] = Closed(port, res) /\ \A j \in Attempts : j # k => Settled(j) /\ Remembers(j)
      BY <1>2, OneAttemptMoves
    <2>3. Settled(k) /\ Remembers(k)
      BY <1>2, <2>1, <2>2 DEF Settled, Remembers, Early
    <2> QED BY <2>2, <2>3
  <1>3. ASSUME NEW a, att' = [att EXCEPT ![k] = a], a.last = att[k].last, att[k].pc # "flow",
               att[k].pc \in Early \/ (a.pc = "flow" /\ a.port = att[k].port)
        PROVE  \A j \in Attempts : Settled(j) /\ Remembers(j)
    <2>1. att'[k] = a /\ \A j \in Attempts : j # k => Settled(j) /\ Remembers(j)
      BY <1>3, OneAttemptMoves
    <2>2. Settled(k) /\ Remembers(k)
      BY <1>3, <2>1 DEF Settled, Remembers, Early
    <2> QED BY <2>1, <2>2
  <1>4. CASE Start(k)
    <2> DEFINE a == [att[k] EXCEPT !.pc = "chan"]
    <2>1. a.last = att[k].last /\ att[k].pc = "idle"
      BY <1>1, <1>4 DEF Start, AttemptType, Fields
    <2>2. att' = [att EXCEPT ![k] = a]
      BY <1>4 DEF Start
    <2> HIDE DEF a
    <2> QED BY <1>3, <2>1, <2>2 DEF Early
  <1>5. CASE QueryChan(k)
    <2>1. PICK heard, res : /\ att' = [att EXCEPT ![k].pc = "arc", ![k].heard = heard, ![k].res = res]
                            /\ att[k].pc = "chan"
      BY <1>5 DEF QueryChan
    <2> DEFINE a == [att[k] EXCEPT !.pc = "arc", !.heard = heard, !.res = res]
    <2>2. a.last = att[k].last
      BY <1>1 DEF AttemptType, Fields
    <2>3. att' = [att EXCEPT ![k] = a]
      BY <2>1
    <2> HIDE DEF a
    <2> QED BY <1>3, <2>1, <2>2, <2>3 DEF Early
  <1>6. CASE QueryArc(k)
    <2>1. att[k].pc = "arc"
      BY <1>6 DEF QueryArc
    <2>2. CASE att' = [att EXCEPT ![k] = Closed(NoPort, Unresolved)]
      BY <1>2, <2>1, <2>2 DEF Early
    <2>3. ASSUME NEW res, NEW port,
                 att' = [att EXCEPT ![k].pc = "asked", ![k].res = res, ![k].port = port,
                                    ![k].wait = ReplyTimeout]
          PROVE  \A j \in Attempts : Settled(j) /\ Remembers(j)
      <3> DEFINE a == [att[k] EXCEPT !.pc = "asked", !.res = res, !.port = port, !.wait = ReplyTimeout]
      <3>1. a.last = att[k].last
        BY <1>1 DEF AttemptType, Fields
      <3>2. att' = [att EXCEPT ![k] = a]
        BY <2>3
      <3> HIDE DEF a
      <3> QED BY <1>3, <2>1, <3>1, <3>2 DEF Early
    <2> QED BY <1>6, <2>2, <2>3 DEF QueryArc
  <1>7. CASE ReplyArrives(k)
    <2> DEFINE a == [att[k] EXCEPT !.pc = "flow", !.listed = TRUE, !.handle = (wire[k] = "ok"),
                                   !.due = NextKeepalive, !.wait = 0]
    <2>1. a.last = att[k].last /\ a.pc = "flow" /\ a.port = att[k].port /\ att[k].pc = "asked"
      BY <1>1, <1>7 DEF ReplyArrives, AttemptType, Fields
    <2>2. att' = [att EXCEPT ![k] = a]
      BY <1>7 DEF ReplyArrives
    <2> HIDE DEF a
    <2> QED BY <1>3, <2>1, <2>2
  <1>8. CASE RequestFails(k) \/ StopFlow(k)
    <2>1. PICK res : att' = [att EXCEPT ![k] = Closed(att[k].port, res)]
      BY <1>8 DEF RequestFails, StopFlow
    <2> QED BY <1>2, <2>1
  <1> QED BY <1>4, <1>5, <1>6, <1>7, <1>8 DEF EstablishStep

\* A turn of the media thread and what it does to the transmitters.
LEMMA TurnShape ==
    ASSUME StreamInv, NEW k \in Attempts, Turn(k)
    PROVE  /\ \A j \in Attempts : Settled(j) /\ Remembers(j)
           /\ UNCHANGED wire /\ Open(k)
           /\ \E src \in LastSource(k) : \A j \in Attempts :
                 ttl'[j] = ttl[j] \/ (j = src /\ src # None /\ Streams(j) /\ ttl'[j] = Expire)
  <1>1. AttemptType(att[k]) /\ ttl \in [Attempts -> 0..Expire]
    BY DEF StreamInv, StreamType
  <1>2. att[k].pc = "flow" /\ UNCHANGED wire /\ Open(k)
    BY DEF Turn, Open
  <1>3. PICK src \in LastSource(k) : Keepalive(k, src)
    BY DEF Turn
  <1>4. PICK a : att' = [att EXCEPT ![k] = a] /\ a.pc = "flow" /\ a.port = att[k].port
                 /\ a.last \in {src, att[k].last}
    <2>1. CASE att' = [att EXCEPT ![k].last = src, ![k].due = NextKeepalive, ![k].lost = 0]
      <3> DEFINE a == [att[k] EXCEPT !.last = src, !.due = NextKeepalive, !.lost = 0]
      <3>1. a.pc = "flow" /\ a.port = att[k].port /\ a.last = src
        BY <1>1, <1>2 DEF AttemptType, Fields
      <3>2. att' = [att EXCEPT ![k] = a]
        BY <2>1
      <3> HIDE DEF a
      <3> QED BY <3>1, <3>2
    <2>2. CASE att' = [att EXCEPT ![k].last = src, ![k].due = NextKeepalive, ![k].lost = @ + 1]
      <3> DEFINE a == [att[k] EXCEPT !.last = src, !.due = NextKeepalive, !.lost = @ + 1]
      <3>1. a.pc = "flow" /\ a.port = att[k].port /\ a.last = src
        BY <1>1, <1>2 DEF AttemptType, Fields
      <3>2. att' = [att EXCEPT ![k] = a]
        BY <2>2
      <3> HIDE DEF a
      <3> QED BY <3>1, <3>2
    <2>3. CASE att' = [att EXCEPT ![k].due = NextKeepalive]
      <3> DEFINE a == [att[k] EXCEPT !.due = NextKeepalive]
      <3>1. a.pc = "flow" /\ a.port = att[k].port /\ a.last = att[k].last
        BY <1>1, <1>2 DEF AttemptType, Fields
      <3>2. att' = [att EXCEPT ![k] = a]
        BY <2>3
      <3> HIDE DEF a
      <3> QED BY <3>1, <3>2
    <2> QED BY <1>3, <2>1, <2>2, <2>3 DEF Keepalive
  <1>5. att'[k] = a /\ \A j \in Attempts : j # k => Settled(j) /\ Remembers(j)
    BY <1>4, OneAttemptMoves
  <1>6. Settled(k) /\ Remembers(k)
    BY <1>2, <1>3, <1>4, <1>5 DEF Settled, Remembers, Early
  <1>7. \A j \in Attempts : ttl'[j] = ttl[j] \/ (j = src /\ src # None /\ Streams(j) /\ ttl'[j] = Expire)
    <2>1. CASE src # None /\ ttl' = [ttl EXCEPT ![src] = IF Streams(src) THEN Expire ELSE 0]
      <3> TAKE j \in Attempts
      <3>1. CASE j = src /\ Streams(j)
        BY <1>1, <2>1, <3>1
      <3>2. CASE j = src /\ ~Streams(j)
        <4>1. ttl'[j] = 0 /\ ttl[j] = 0
          BY <1>1, <2>1, <3>2, StreamAssumption DEF Streams
        <4> QED BY <4>1
      <3>3. CASE j # src
        BY <1>1, <2>1, <3>3
      <3> QED BY <3>1, <3>2, <3>3
    <2>2. CASE UNCHANGED ttl
      BY <2>2
    <2> QED BY <1>3, <2>1, <2>2 DEF Keepalive
  <1> QED BY <1>2, <1>3, <1>5, <1>6, <1>7

\* Time moves no port and no source.
LEMMA TickShape ==
    ASSUME StreamInv, Tick
    PROVE  /\ \A j \in Attempts : Settled(j) /\ Remembers(j)
           /\ UNCHANGED wire
           /\ \A j \in Attempts : ttl'[j] <= ttl[j] /\ (ttl[j] = 0 => ttl'[j] = 0)
  <1>1. ASSUME NEW j \in Attempts PROVE Settled(j) /\ Remembers(j)
    <2>1. AttemptType(att[j])
      BY DEF StreamInv, StreamType
    <2>2. att'[j] = [att[j] EXCEPT !.wait = IF att[j].pc = "asked" THEN @ - 1 ELSE @,
                                   !.due = IF att[j].pc = "flow" THEN @ - 1 ELSE @]
      BY DEF Tick
    <2>3. att'[j].pc = att[j].pc /\ att'[j].port = att[j].port /\ att'[j].last = att[j].last
      BY <2>1, <2>2 DEF AttemptType, Fields
    <2> QED BY <2>3 DEF Settled, Remembers
  <1>2. ASSUME NEW j \in Attempts PROVE ttl'[j] <= ttl[j] /\ (ttl[j] = 0 => ttl'[j] = 0)
    <2>1. ttl[j] \in 0..Expire /\ ttl'[j] = IF ttl[j] > 0 THEN ttl[j] - 1 ELSE 0
      BY DEF StreamInv, StreamType, Tick
    <2> QED BY <2>1, StreamAssumption
  <1> QED BY <1>1, <1>2 DEF Tick

\* Sources stay what they are.
LEMMA SourcesStay ==
    ASSUME StreamInv, SourcesInv, \A j \in Attempts : Settled(j) /\ Remembers(j)
    PROVE  \A j \in Attempts : SourceInv(j)'
  <1> SUFFICES ASSUME NEW j \in Attempts, att'[j].last # None
               PROVE  /\ att'[j].pc = "flow"
                      /\ att'[att'[j].last].pc \notin Early /\ att'[att'[j].last].port = att'[j].port
    BY DEF SourceInv
  <1>1. PICK src \in Attempts : /\ att'[j].last = src /\ att[j].pc = "flow" /\ att'[j].pc = "flow"
                                /\ att[src].pc \notin Early /\ att[src].port = att[j].port
    <2>1. CASE att'[j].last = att[j].last /\ (att[j].pc = "flow" => att'[j].pc = "flow")
      BY <2>1 DEF StreamInv, StreamType, AttemptType, SourcesInv, SourceInv
    <2>2. CASE att[j].pc = "flow" /\ att'[j].pc = "flow" /\ att'[j].last \in LastSource(j)
      BY <2>2, SourcesOfFlow
    <2> QED BY <2>1, <2>2 DEF Remembers
  <1>2. att'[src].pc \notin Early /\ att'[src].port = att[src].port
    BY <1>1 DEF Settled
  <1>3. att'[j].port = att[j].port
    BY <1>1 DEF Settled, Early
  <1> QED BY <1>1, <1>2, <1>3

\* Steps of establish start no stream and ask only where none is.
LEMMA EstablishSources ==
    ASSUME StreamInv, SourcesInv, NEW k \in Attempts, Start(k) \/ EstablishStep(k) \/ StopFlow(k)
    PROVE  SourcesInv' /\ UNCHANGED ttl
  <1>1. UNCHANGED ttl
    BY DEF Start, EstablishStep, QueryChan, QueryArc, ReplyArrives, RequestFails, StopFlow
  <1>2. \A j \in Attempts : SourceInv(j)'
    BY EstablishShape, SourcesStay
  <1>3. \/ UNCHANGED wire
        \/ \E s \in {"none", "stop"} : wire' = [wire EXCEPT ![k] = s]
        \/ wire' = [wire EXCEPT ![k] = "request"] /\ att[k].pc = "arc"
    BY DEF Start, EstablishStep, QueryChan, QueryArc, ReplyArrives, RequestFails, StopFlow
  <1>4. \A j \in Attempts : wire'[j] = "request" => wire[j] = "request" \/ (j = k /\ att[k].pc = "arc")
    BY <1>3 DEF StreamInv, StreamType
  <1>5. \A j \in Attempts : RequestInv(j)'
    BY <1>1, <1>4 DEF StreamInv, PlaceInv, Early, SourcesInv, RequestInv
  <1> QED BY <1>1, <1>2, <1>5 DEF SourcesInv

\* Turns and time leave what does not stream alone.
LEMMA TurnSources ==
    ASSUME StreamInv, SourcesInv, (\E k \in Attempts : Turn(k)) \/ Tick
    PROVE  SourcesInv'
  <1>1. /\ \A j \in Attempts : Settled(j) /\ Remembers(j)
        /\ UNCHANGED wire /\ \A j \in Attempts : ttl[j] = 0 => ttl'[j] = 0
    BY TurnShape, TickShape DEF Streams
  <1>2. \A j \in Attempts : SourceInv(j)'
    BY <1>1, SourcesStay
  <1> QED BY <1>1, <1>2 DEF SourcesInv, RequestInv

\* An accepted request is no longer in flight.
LEMMA NetworkSources ==
    ASSUME StreamInv, SourcesInv, NEW k \in Attempts, TxAccept(k) \/ TxRefuse(k) \/ TxStop(k) \/ Lose(k)
    PROVE  /\ SourcesInv'
           /\ \A j \in Attempts : Streams(j) => ttl'[j] <= ttl[j]
  <1>1. UNCHANGED att
    BY DEF TxAccept, TxRefuse, TxStop, Lose
  <1>2. ttl \in [Attempts -> 0..Expire] /\ DOMAIN wire = Attempts
    BY DEF StreamInv, StreamType
  <1>3. \A j \in Attempts : SourceInv(j)'
    BY <1>1 DEF SourcesInv, SourceInv
  <1>4. \A j \in Attempts : j # k => wire'[j] = wire[j] /\ ttl'[j] = ttl[j]
    BY <1>2 DEF TxAccept, TxRefuse, TxStop, Lose
  <1>5. wire'[k] # "request" /\ (ttl'[k] = ttl[k] \/ ttl'[k] = 0 \/ wire[k] = "request")
    BY <1>2 DEF TxAccept, TxRefuse, TxStop, Lose
  <1>6. \A j \in Attempts : RequestInv(j)'
    BY <1>4, <1>5 DEF SourcesInv, RequestInv
  <1>7. ASSUME NEW j \in Attempts, Streams(j) PROVE ttl'[j] <= ttl[j]
    <2>1. ttl[j] \in 0..Expire /\ ttl[j] > 0
      BY <1>2, <1>7 DEF Streams
    <2>2. j = k => wire[k] # "request"
      BY <2>1 DEF SourcesInv, RequestInv
    <2>3. ttl'[j] = ttl[j] \/ ttl'[j] = 0
      BY <1>4, <1>5, <2>2
    <2> QED BY <2>1, <2>3, StreamAssumption
  <1> QED BY <1>3, <1>6, <1>7 DEF SourcesInv

\* SourcesInv holds in every reachable state.
THEOREM SourcesInvariant == Spec => []SourcesInv
  <1>1. Init => SourcesInv
    BY DEF Init, Idle, SourcesInv, RequestInv, SourceInv
  <1>2. StreamInv /\ SourcesInv /\ [Next]_vars => SourcesInv'
    <2> SUFFICES ASSUME StreamInv, SourcesInv, [Next]_vars PROVE SourcesInv'
      OBVIOUS
    <2>1. ASSUME NEW k \in Attempts, Start(k) \/ EstablishStep(k) \/ StopFlow(k) PROVE SourcesInv'
      BY <2>1, EstablishSources
    <2>2. CASE (\E k \in Attempts : Turn(k)) \/ Tick
      BY <2>2, TurnSources
    <2>3. ASSUME NEW k \in Attempts, TxAccept(k) \/ TxRefuse(k) \/ TxStop(k) \/ Lose(k)
          PROVE  SourcesInv'
      BY <2>3, NetworkSources
    <2>4. CASE UNCHANGED vars
      BY <2>4 DEF vars, SourcesInv, RequestInv, SourceInv
    <2> QED BY <2>1, <2>2, <2>3, <2>4 DEF Next
  <1> QED BY <1>1, <1>2, StreamInvariant, PTL DEF Spec

\* AbandonedIsNotKept for all constants: what the media thread sends prolongs no
\* stream to a port that nobody has open.
THEOREM AbandonedStreamsRunOut == Spec => AbandonedIsNotKept
  <1> DEFINE Runs == \A k \in Attempts :
                        Streams(k) /\ (\A j \in Attempts : Open(j) => att[j].port # att[k].port)
                          => ttl'[k] <= ttl[k]
  <1>1. ASSUME StreamInv, SourcesInv, [Next]_vars PROVE Runs
    <2> SUFFICES ASSUME NEW k \in Attempts, Streams(k),
                        \A j \in Attempts : Open(j) => att[j].port # att[k].port
                 PROVE  ttl'[k] <= ttl[k]
      OBVIOUS
    <2>1. ttl[k] \in 0..Expire
      BY <1>1 DEF StreamInv, StreamType
    <2>2. CASE ttl'[k] = ttl[k]
      BY <2>1, <2>2, StreamAssumption
    <2>3. ASSUME NEW j \in Attempts, Start(j) \/ EstablishStep(j) \/ StopFlow(j) PROVE ttl'[k] <= ttl[k]
      BY <1>1, <2>2, <2>3, EstablishSources
    <2>4. ASSUME NEW j \in Attempts, Turn(j) PROVE ttl'[k] <= ttl[k]
      <3>1. PICK src \in LastSource(j) : ttl'[k] = ttl[k] \/ (k = src /\ src # None)
        BY <1>1, <2>4, TurnShape
      <3>2. src # k \/ src = None
        BY <1>1, <2>4, SourcesOfFlow, TurnShape
      <3> QED BY <2>2, <3>1, <3>2
    <2>5. CASE Tick
      BY <1>1, <2>5, TickShape
    <2>6. ASSUME NEW j \in Attempts, TxAccept(j) \/ TxRefuse(j) \/ TxStop(j) \/ Lose(j)
          PROVE  ttl'[k] <= ttl[k]
      BY <1>1, <2>6, NetworkSources
    <2>7. CASE UNCHANGED vars
      BY <2>2, <2>7 DEF vars
    <2> QED BY <1>1, <2>3, <2>4, <2>5, <2>6, <2>7 DEF Next
  <1>2. StreamInv /\ SourcesInv /\ [Next]_vars => [Runs]_vars
    BY <1>1
  <1> QED BY <1>2, StreamInvariant, SourcesInvariant, PTL DEF Spec, AbandonedIsNotKept

------------------------------------------------------------------------------
(* What resolve_tx makes of the answers *)

\* A set of numbers has a least one: induction without a parameter.
LEMMA LeastNumber ==
    ASSUME NEW T, T \subseteq Nat, T # {}
    PROVE  \E x \in T : \A y \in T : x <= y
  <1> DEFINE R == OpToRel(<, Nat)
  <1>1. IsWellFoundedOn(R, Nat) BY NatLessThanWellFounded, Zenon
  <1> HIDE DEF R
  <1>2. PICK x \in T : \A y \in T : <<y, x>> \notin R BY <1>1, WFMin
  <1>3. ASSUME NEW y \in T, y < x PROVE FALSE
    <2>1. <<y, x>> \in R BY <1>3 DEF R, OpToRel
    <2> QED BY <1>2, <2>1
  <1>4. \A y \in T : x <= y BY <1>3
  <1> QED BY <1>4

\* The records of a message are considered one after the other: the recursive
\* function exists, since a least length without one would have one.
LEMMA ConsideredInOrder ==
    ASSUME NEW res, NEW S, NEW msg \in Seq(S), NEW chan
    PROVE  /\ Considered(res, msg, chan)[0] = res
           /\ \A n \in 1..Len(msg) : Considered(res, msg, chan)[n] =
                 Consider(Considered(res, msg, chan)[n - 1], msg[n], chan)
  <1> DEFINE L == Len(msg)
             Walks(f, m) == /\ DOMAIN f = 0..m
                            /\ f[0] = res
                            /\ \A n \in 1..m : f[n] = Consider(f[n - 1], msg[n], chan)
             bad == {m \in Nat : ~\E f : Walks(f, m)}
             Full(f) == f = [n \in 0..L |-> IF n = 0 THEN res ELSE Consider(f[n - 1], msg[n], chan)]
  <1>0. L \in Nat BY LenProperties
  <1>1. bad = {}
    <2> SUFFICES ASSUME bad # {} PROVE FALSE OBVIOUS
    <2>1. PICK m \in bad : \A y \in bad : m <= y
      <3>1. bad \subseteq Nat OBVIOUS
      <3> HIDE DEF bad
      <3> QED BY <3>1, LeastNumber
    <2>2. m \in Nat /\ ~\E f : Walks(f, m) OBVIOUS
    <2>3. CASE m = 0
      <3> DEFINE f == [n \in 0..0 |-> res]
      <3>1. Walks(f, 0) OBVIOUS
      <3> QED BY <2>2, <2>3, <3>1
    <2>4. CASE m # 0
      <3>1. m - 1 \in Nat BY <2>2, <2>4
      <3>2. m - 1 \notin bad BY <2>1, <2>2, <3>1
      <3>3. PICK g : Walks(g, m - 1) BY <3>1, <3>2
      <3> DEFINE f == [n \in 0..m |-> IF n < m THEN g[n] ELSE Consider(g[m - 1], msg[m], chan)]
      <3>4. DOMAIN f = 0..m /\ f[0] = res BY <2>2, <2>4, <3>3
      <3>5. ASSUME NEW n \in 1..m PROVE f[n] = Consider(f[n - 1], msg[n], chan)
        <4>1. f[n - 1] = g[n - 1] BY <2>2
        <4>2. CASE n < m
          <5>1. f[n] = g[n] /\ n \in 1..m - 1 BY <2>2, <4>2
          <5> HIDE DEF f
          <5> QED BY <3>3, <4>1, <5>1
        <4>3. CASE n = m
          <5>1. f[n] = Consider(g[m - 1], msg[m], chan) BY <2>2, <4>3
          <5> HIDE DEF f
          <5> QED BY <4>1, <4>3, <5>1
        <4> QED BY <2>2, <4>2, <4>3
      <3> HIDE DEF f
      <3>6. Walks(f, m) BY <3>4, <3>5
      <3> QED BY <2>2, <3>6
    <2> QED BY <2>3, <2>4
  <1>2. PICK f : Walks(f, L) BY <1>0, <1>1
  <1> DEFINE g == [n \in 0..L |-> f[n]]
  <1>3. Full(g)
    <2>1. ASSUME NEW n \in 0..L
          PROVE  g[n] = IF n = 0 THEN res ELSE Consider(g[n - 1], msg[n], chan)
      <3>1. CASE n = 0 BY <1>0, <1>2, <3>1
      <3>2. CASE n # 0
        <4>1. n \in 1..L /\ n - 1 \in 0..L BY <1>0, <3>2
        <4>2. g[n] = f[n] /\ g[n - 1] = f[n - 1] BY <4>1
        <4> HIDE DEF g
        <4> QED BY <1>2, <3>2, <4>1, <4>2
      <3> QED BY <3>1, <3>2
    <2> DEFINE h == [n \in 0..L |-> IF n = 0 THEN res ELSE Consider(g[n - 1], msg[n], chan)]
    <2>2. g = h BY <2>1
    <2> HIDE DEF g
    <2> QED BY <2>2
  <1>4. PICK after : after = Considered(res, msg, chan) OBVIOUS
  <1>5. after = CHOOSE x : Full(x) BY <1>4 DEF Considered
  <1> HIDE DEF g
  <1>6. Full(after)
    <2> HIDE DEF Full
    <2> QED BY <1>3, <1>5
  <1>7. after[0] = res BY <1>0, <1>6
  <1>8. ASSUME NEW n \in 1..L PROVE after[n] = Consider(after[n - 1], msg[n], chan)
     BY <1>0, <1>6
  <1> QED BY <1>4, <1>7, <1>8

\* A message in which every record says what is known changes nothing.
LEMMA NothingNew ==
    ASSUME NEW res, NEW S, NEW msg \in Seq(S), NEW chan,
           \A i \in 1..Len(msg) : Consider(res, msg[i], chan) = res
    PROVE  ConsiderAll(res, msg, chan) = res
  <1> DEFINE after == Considered(res, msg, chan)
             L == Len(msg)
             bad == {n \in 0..L : after[n] # res}
  <1>1. L \in Nat BY LenProperties
  <1>2. after[0] = res /\ \A n \in 1..L : after[n] = Consider(after[n - 1], msg[n], chan)
    BY ONLY ConsideredInOrder, msg \in Seq(S)
  <1> HIDE DEF after
  <1> HIDE DEF L
  <1>3. bad = {}
    <2> SUFFICES ASSUME bad # {} PROVE FALSE OBVIOUS
    <2>1. bad \subseteq Nat BY <1>1
    <2>2. PICK n \in bad : \A y \in bad : n <= y
      <3> HIDE DEF bad
      <3> QED BY <2>1, LeastNumber
    <2>3. n \in 1..L /\ n - 1 \in 0..L BY <1>1, <1>2
    <2>4. n - 1 \notin bad BY <2>1, <2>2, <2>3
    <2>5. after[n - 1] = res BY <2>3, <2>4
    <2>6. after[n] = res BY <1>2, <2>3, <2>5 DEF L
    <2> QED BY <2>6
  <1>4. after[L] = res BY <1>1, <1>3
  <1> QED BY <1>4 DEF ConsiderAll, L, after

\* An address comes from a record.
LEMMA AddressIsAnswered ==
    ASSUME NEW res, NEW S, NEW msg \in Seq(S), NEW chan, NEW ip,
           \A i \in 1..Len(msg) : msg[i].type = "A" => msg[i].val = ip
    PROVE  ConsiderAll(res, msg, chan).ip \in {res.ip, ip}
  <1> PICK after : after = Considered(res, msg, chan) OBVIOUS
  <1> DEFINE L == Len(msg)
             bad == {n \in 0..L : after[n].ip \notin {res.ip, ip}}
  <1>1. L \in Nat BY LenProperties
  <1>2. after[0] = res /\ \A n \in 1..L : after[n] = Consider(after[n - 1], msg[n], chan)
    BY ConsideredInOrder
  <1> HIDE DEF L
  <1>3. bad = {}
    <2> SUFFICES ASSUME bad # {} PROVE FALSE OBVIOUS
    <2>1. bad \subseteq Nat BY <1>1
    <2>2. PICK n \in bad : \A y \in bad : n <= y
      <3> HIDE DEF bad
      <3> QED BY <2>1, LeastNumber
    <2>3. n \in 1..L /\ n - 1 \in 0..L BY <1>1, <1>2
    <2>4. n - 1 \notin bad BY <2>1, <2>2, <2>3
    <2>5. after[n - 1].ip \in {res.ip, ip} BY <2>3, <2>4
    <2>6. after[n].ip = IF msg[n].type = "A" THEN msg[n].val ELSE after[n - 1].ip
      <3>1. PICK p : p = after[n - 1] OBVIOUS
      <3>2. after[n] = Consider(p, msg[n], chan) BY <1>2, <2>3, <3>1
      <3>3. after[n].ip = IF msg[n].type = "A" THEN msg[n].val ELSE p.ip BY <3>2 DEF Consider
      <3> QED BY <3>1, <3>3
    <2>7. after[n].ip \in {res.ip, ip} BY <2>3, <2>5, <2>6 DEF L
    <2> QED BY <2>7
  <1>4. after[L].ip \in {res.ip, ip} BY <1>1, <1>3
  <1> QED BY <1>4 DEF ConsiderAll, L

\* What there is to know of a device.
Facts(d) == [ip |-> d.ip, port |-> d.port, rate |-> d.rate, id |-> d.chans[Channel]]

\* Only devices of the name answer the query for the channel, and then they
\* say everything.
LEMMA ChannelAnswers ==
    ASSUME NEW msg \in Answers(link, ChanInstance(Channel, Host)), msg # <<>>
    PROVE  \E d \in Named : msg = << Record("SRV", ChanInstance(Channel, Host), d.port),
                                     Record("TXT", ChanInstance(Channel, Host),
                                            [rate |-> d.rate, id |-> d.chans[Channel]]),
                                     Record("A", HostLocal(d.host), d.ip) >>
  <1> DEFINE q == ChanInstance(Channel, Host)
  <1>1. q[1] = "chan" /\ q[2] = Channel /\ q[3] = Host /\ Len(q) = 3 BY DEF ChanInstance
  <1>2. ASSUME NEW d PROVE ~ShouldAnswer(d, q)
    <2>1. \A x : q # <<x>> BY <1>1
    <2>2. \A x, y : q # <<x, y>> BY <1>1
    <2> HIDE DEF q
    <2> QED BY <2>1, <2>2 DEF ShouldAnswer, ServiceInstance, HostLocal
  <1>3. ASSUME NEW d, TxAnswers(d, q) PROVE d.host = Host
    <2>1. \A x, y : q = <<"chan", x, y>> => y = Host BY <1>1
    <2>2. \A y : q # <<"arc", y>> BY <1>1
    <2> HIDE DEF q
    <2> QED BY <1>3, <2>1, <2>2 DEF TxAnswers, ChanInstance, ServiceInstance
  <1>4. PICK d \in link : TxAnswers(d, q) /\ msg = Decode(d, TxRecords(d, q))
    <2> HIDE DEF q
    <2> QED BY <1>2 DEF Answers, Decode, q
  <1>5. msg = TxRecords(d, q) BY <1>4 DEF Decode
  <1>6. d \in Named BY <1>3, <1>4 DEF Named
  <1>7. TxRecords(d, q) = << Record("SRV", q, d.port),
                             Record("TXT", q, [rate |-> d.rate, id |-> d.chans[Channel]]),
                             Record("A", HostLocal(d.host), d.ip) >>
    <2> HIDE DEF q
    <2> QED BY <1>1 DEF TxRecords
  <1> QED BY <1>5, <1>6, <1>7

\* Only devices of the name answer for the host; they give their address and
\* nothing about a channel.
LEMMA HostAnswers ==
    ASSUME NEW msg \in Answers(link, ServiceInstance(Host, "arc")), msg # <<>>
    PROVE  \E d \in Named :
              /\ \E S : msg \in Seq(S)
              /\ \A i \in 1..Len(msg) :
                    /\ msg[i].type = "A" => msg[i].val = d.ip
                    /\ msg[i].type = "SRV" => msg[i].name # ChanInstance(Channel, Host)
                    /\ msg[i].type = "TXT" => "rate" \notin DOMAIN msg[i].val /\ "id" \notin DOMAIN msg[i].val
  <1> DEFINE q == ServiceInstance(Host, "arc")
             c == ChanInstance(Channel, Host)
  <1>1. q[1] = "arc" /\ q[2] = Host /\ Len(q) = 2 BY DEF ServiceInstance
  <1>2. ASSUME NEW d, ShouldAnswer(d, q) \/ TxAnswers(d, q) PROVE d.host = Host
    <2>1. \A x : q # <<x>> BY <1>1
    <2>2. \A x, y, z : q # <<x, y, z>> BY <1>1
    <2>3. \A x, y : q = <<x, y>> => x = "arc" /\ y = Host BY <1>1
    <2> HIDE DEF q
    <2> QED BY <1>2, <2>1, <2>2, <2>3 DEF ShouldAnswer, TxAnswers, ServiceInstance, HostLocal, ChanInstance
  <1>3. PICK d \in link : /\ ShouldAnswer(d, q) \/ TxAnswers(d, q)
                          /\ msg \in {Decode(d, BuildAnnouncement(d)), Decode(d, TxRecords(d, q))}
    <2> HIDE DEF q
    <2> QED BY DEF Answers, q
  <1>4. d \in Named BY <1>2, <1>3 DEF Named
  <1>5. \A x, y : c # <<x, y>>
    <2>1. Len(c) = 3 BY DEF ChanInstance
    <2> QED BY <2>1
  <1>6. msg = BuildAnnouncement(d) \/ msg = TxRecords(d, q) BY <1>3 DEF Decode
  <1>7. CASE msg = TxRecords(d, q)
    <2>1. msg = << Record("SRV", q, ArcPort), Record("TXT", q, [mf |-> "other"]),
                   Record("A", HostLocal(d.host), d.ip) >>
      <3> HIDE DEF q
      <3> QED BY <1>1, <1>7 DEF TxRecords
    <2>2. q # c BY <1>5 DEF ServiceInstance
    <2> HIDE DEF q, c
    <2>3. Len(msg) = 3 /\ msg[1] = Record("SRV", q, ArcPort) /\ msg[2] = Record("TXT", q, [mf |-> "other"])
          /\ msg[3] = Record("A", HostLocal(d.host), d.ip)
      BY <2>1
    <2>4. \E S : msg \in Seq(S)
      <3> DEFINE S == {Record("SRV", q, ArcPort), Record("TXT", q, [mf |-> "other"]),
                       Record("A", HostLocal(d.host), d.ip)}
      <3>1. msg \in Seq(S) BY <2>1
      <3> QED BY <3>1
    <2>5. ASSUME NEW i \in 1..Len(msg)
          PROVE  /\ msg[i].type = "A" => msg[i].val = d.ip
                 /\ msg[i].type = "SRV" => msg[i].name # c
                 /\ msg[i].type = "TXT" => "rate" \notin DOMAIN msg[i].val /\ "id" \notin DOMAIN msg[i].val
      BY <2>2, <2>3 DEF Record
    <2> QED BY <1>4, <2>4, <2>5 DEF c
  <1>8. CASE msg = BuildAnnouncement(d)
    <2> DEFINE arc == ServiceInstance(d.host, "arc")
               cmc == ServiceInstance(d.host, "cmc")
    <2>1. msg = << Record("PTR", <<"arc">>, arc), Record("PTR", <<"cmc">>, cmc),
                   Record("SRV", arc, ArcPort), Record("TXT", arc, [mf |-> "this"]),
                   Record("SRV", cmc, ArcPort + 1), Record("TXT", cmc, [process |-> 1]),
                   Record("A", HostLocal(d.host), d.ip) >>
      BY <1>8 DEF BuildAnnouncement
    <2>2. arc # c /\ cmc # c BY <1>5 DEF ServiceInstance
    <2> HIDE DEF arc, cmc, c
    <2>3. /\ Len(msg) = 7
          /\ msg[1] = Record("PTR", <<"arc">>, arc) /\ msg[2] = Record("PTR", <<"cmc">>, cmc)
          /\ msg[3] = Record("SRV", arc, ArcPort) /\ msg[4] = Record("TXT", arc, [mf |-> "this"])
          /\ msg[5] = Record("SRV", cmc, ArcPort + 1) /\ msg[6] = Record("TXT", cmc, [process |-> 1])
          /\ msg[7] = Record("A", HostLocal(d.host), d.ip)
      BY <2>1
    <2>4. \E S : msg \in Seq(S)
      <3> DEFINE S == {msg[i] : i \in 1..7}
      <3>1. msg \in Seq(S) BY <2>1, <2>3
      <3> QED BY <3>1
    <2>5. ASSUME NEW i \in 1..Len(msg)
          PROVE  /\ msg[i].type = "A" => msg[i].val = d.ip
                 /\ msg[i].type = "SRV" => msg[i].name # c
                 /\ msg[i].type = "TXT" => "rate" \notin DOMAIN msg[i].val /\ "id" \notin DOMAIN msg[i].val
      <3>1. i \in {1, 2, 3, 4, 5, 6, 7} BY <2>3
      <3> QED BY <2>2, <2>3, <3>1 DEF Record
    <2> QED BY <1>4, <2>4, <2>5 DEF c
  <1> QED BY <1>6, <1>7, <1>8

------------------------------------------------------------------------------
(* What is known of the transmitter *)

\* A message without records says nothing.
LEMMA Silence ==
    ASSUME NEW res, NEW chan
    PROVE  ConsiderAll(res, <<>>, chan) = res
  <1>1. <<>> \in Seq({}) /\ \A i \in 1..Len(<<>>) : Consider(res, <<>>[i], chan) = res
    OBVIOUS
  <1> QED BY <1>1, NothingNew

\* After the query for the channel: nothing, or what a device of the name says.
LEMMA ChannelFound ==
    ASSUME NEW msg \in Answers(link, ChanInstance(Channel, Host)),
           NEW res, res = ConsiderAll(Unresolved, msg, ChanInstance(Channel, Host))
    PROVE  \/ msg = <<>> /\ res = Unresolved
           \/ \E d \in Named : res = Facts(d)
  <1> DEFINE q == ChanInstance(Channel, Host)
  <1>1. CASE msg = <<>> BY <1>1, Silence
  <1>2. CASE msg # <<>>
    <2>1. PICK d \in Named : msg = << Record("SRV", q, d.port),
                                      Record("TXT", q, [rate |-> d.rate, id |-> d.chans[Channel]]),
                                      Record("A", HostLocal(d.host), d.ip) >>
      BY <1>2, ChannelAnswers
    <2> HIDE DEF q
    <2> DEFINE S == {Record("SRV", q, d.port),
                     Record("TXT", q, [rate |-> d.rate, id |-> d.chans[Channel]]),
                     Record("A", HostLocal(d.host), d.ip)}
               after == Considered(Unresolved, msg, q)
    <2>2. /\ Len(msg) = 3 /\ msg \in Seq(S)
          /\ msg[1] = Record("SRV", q, d.port)
          /\ msg[2] = Record("TXT", q, [rate |-> d.rate, id |-> d.chans[Channel]])
          /\ msg[3] = Record("A", HostLocal(d.host), d.ip)
      BY <2>1
    <2> HIDE DEF S
    <2>3. after[0] = Unresolved /\ \A n \in 1..Len(msg) : after[n] = Consider(after[n - 1], msg[n], q)
      <3>1. msg \in Seq(S) BY <2>2
      <3> QED BY ONLY <3>1, ConsideredInOrder
    <2> HIDE DEF after
    <2>4. after[1] = Consider(after[0], msg[1], q) BY <2>2, <2>3
    <2>5. after[2] = Consider(after[1], msg[2], q) BY <2>2, <2>3
    <2>6. after[3] = Consider(after[2], msg[3], q) BY <2>2, <2>3
    <2>7. after[1] = [ip |-> NoIp, port |-> d.port, rate |-> OwnRate, id |-> 1]
      BY <2>2, <2>3, <2>4 DEF Consider, Record, Unresolved
    <2>8. after[2] = [ip |-> NoIp, port |-> d.port, rate |-> d.rate, id |-> d.chans[Channel]]
      BY <2>2, <2>5, <2>7 DEF Consider, Record
    <2>9. after[3] = Facts(d) BY <2>2, <2>6, <2>8 DEF Consider, Record, Facts
    <2> QED BY <2>2, <2>9 DEF ConsiderAll, q, after
  <1> QED BY <1>1, <1>2

\* After the query for the host: the address may be that of another device of
\* the name, and nothing that is true of the only one is lost.
LEMMA HostFound ==
    ASSUME NEW msg \in Answers(link, ServiceInstance(Host, "arc")),
           NEW res, NEW known, known = ConsiderAll(res, msg, ChanInstance(Channel, Host))
    PROVE  /\ known.ip = res.ip \/ \E d \in Named : known.ip = d.ip
           /\ \A d \in Named : Named = {d} /\ res = Facts(d) => known = res
  <1> DEFINE c == ChanInstance(Channel, Host)
  <1>1. CASE msg = <<>> BY <1>1, Silence
  <1>2. CASE msg # <<>>
    <2>1. PICK d \in Named :
              /\ \E S : msg \in Seq(S)
              /\ \A i \in 1..Len(msg) :
                    /\ msg[i].type = "A" => msg[i].val = d.ip
                    /\ msg[i].type = "SRV" => msg[i].name # c
                    /\ msg[i].type = "TXT" => "rate" \notin DOMAIN msg[i].val /\ "id" \notin DOMAIN msg[i].val
      BY <1>2, HostAnswers
    <2>2. PICK S : msg \in Seq(S) BY <2>1
    <2>3. known.ip \in {res.ip, d.ip}
      BY <2>1, <2>2, AddressIsAnswered
    <2>4. ASSUME NEW e \in Named, Named = {e}, res = Facts(e) PROVE known = res
      <3>1. e = d BY <2>4
      <3> HIDE DEF c
      <3>2. ASSUME NEW i \in 1..Len(msg) PROVE Consider(res, msg[i], c) = res
        <4>1. PICK r : r = msg[i] OBVIOUS
        <4>2. /\ r.type = "A" => r.val = d.ip
              /\ ~(r.type = "SRV" /\ r.name = c)
              /\ ~(r.type = "TXT" /\ "rate" \in DOMAIN r.val)
              /\ ~(r.type = "TXT" /\ "id" \in DOMAIN r.val)
          BY <2>1, <4>1
        <4>3. Consider(Facts(d), r, c) = Facts(d)
          BY <4>2 DEF Consider, Facts
        <4> QED BY <2>4, <3>1, <4>1, <4>3
      <3>3. ConsiderAll(res, msg, c) = res BY <2>2, <3>2, NothingNew
      <3> QED BY <3>3 DEF c
    <2> QED BY <2>3, <2>4
  <1> QED BY <1>1, <1>2

\* From the first answer on: an address is that of a device of the name, what
\* the channel's own records said is still known if there is one such device,
\* and a flow is requested at some address.
Found(a) ==
    a.pc \in {"arc", "asked", "flow"} =>
        /\ a.res.ip # NoIp => \E d \in Named : a.res.ip = d.ip
        /\ a.heard => \A d \in Named : Named = {d} => a.res = Facts(d)
        /\ a.pc # "arc" => a.res.ip # NoIp

FoundInv == \A k \in Attempts : Found(att[k])

\* It is enough that the attempt that moves knows what it has to.
LEMMA OneAttemptFinds ==
    ASSUME StreamInv, FoundInv, UNCHANGED link, NEW k \in Attempts, NEW a,
           att' = [att EXCEPT ![k] = a], Found(a)
    PROVE  FoundInv'
  <1>1. att'[k] = a /\ \A j \in Attempts : j # k => att'[j] = att[j]
    BY DEF StreamInv, StreamType
  <1>2. Named' = Named BY DEF Named
  <1>3. ASSUME NEW j \in Attempts PROVE Found(att[j])'
    <2>1. PICK b : b = att'[j] /\ Found(b) BY <1>1 DEF FoundInv
    <2> QED BY <1>2, <2>1 DEF Found, Facts
  <1> QED BY <1>3 DEF FoundInv

\* An attempt that is over knows nothing.
LEMMA ClosedFinds ==
    ASSUME NEW port, NEW res
    PROVE  Found(Closed(port, res))
  <1>1. Closed(port, res).pc = "done" BY DEF Closed, Idle
  <1> QED BY <1>1 DEF Found

\* The steps of establish keep what is known.
LEMMA EstablishFinds ==
    ASSUME StreamInv, FoundInv, NEW k \in Attempts, Start(k) \/ EstablishStep(k) \/ StopFlow(k)
    PROVE  FoundInv'
  <1>1. AttemptType(att[k]) /\ Found(att[k])
    BY DEF StreamInv, StreamType, FoundInv
  <1>2. UNCHANGED link
    BY DEF Start, EstablishStep, QueryChan, QueryArc, ReplyArrives, RequestFails, StopFlow
  <1>3. CASE Start(k)
    <2> DEFINE a == [att[k] EXCEPT !.pc = "chan"]
    <2>1. a.pc = "chan" BY <1>1 DEF AttemptType, Fields
    <2>2. att' = [att EXCEPT ![k] = a] BY <1>3 DEF Start
    <2> HIDE DEF a
    <2>3. Found(a) BY <2>1 DEF Found
    <2> QED BY <1>2, <2>2, <2>3, OneAttemptFinds
  <1>4. CASE QueryChan(k)
    <2>0. PICK msg \in Answers(link, ChanInstance(Channel, Host)) : \E res :
              /\ res = ConsiderAll(Unresolved, msg, ChanInstance(Channel, Host))
              /\ att' = [att EXCEPT ![k].pc = "arc", ![k].heard = msg # <<>>, ![k].res = res]
      BY <1>4 DEF QueryChan
    <2>1. PICK res :
              /\ res = ConsiderAll(Unresolved, msg, ChanInstance(Channel, Host))
              /\ att' = [att EXCEPT ![k].pc = "arc", ![k].heard = msg # <<>>, ![k].res = res]
      BY <2>0
    <2> DEFINE a == [att[k] EXCEPT !.pc = "arc", !.heard = msg # <<>>, !.res = res]
    <2>2. a.pc = "arc" /\ a.heard = (msg # <<>>) /\ a.res = res
      BY <1>1 DEF AttemptType, Fields
    <2>3. att' = [att EXCEPT ![k] = a] BY <2>1
    <2> HIDE DEF a
    <2>4. (msg = <<>> /\ res = Unresolved) \/ \E d \in Named : res = Facts(d)
      BY <2>1, ChannelFound
    <2>5. ASSUME msg = <<>>, res = Unresolved PROVE Found(a)
      <3>1. res.ip = NoIp BY <2>5 DEF Unresolved
      <3>2. ~a.heard BY <2>2, <2>5, Zenon
      <3> QED BY <2>2, <3>1, <3>2 DEF Found
    <2>6. ASSUME NEW d \in Named, res = Facts(d) PROVE Found(a)
      <3>1. res.ip = d.ip BY <2>6 DEF Facts
      <3>2. \A e \in Named : Named = {e} => e = d OBVIOUS
      <3> QED BY <2>2, <2>6, <3>1, <3>2 DEF Found
    <2> QED BY <1>2, <2>3, <2>4, <2>5, <2>6, OneAttemptFinds
  <1>5. CASE QueryArc(k)
    <2>0. PICK msg \in Answers(link, ServiceInstance(Host, "arc")) : \E res :
              /\ res = ConsiderAll(att[k].res, msg, ChanInstance(Channel, Host))
              /\ att[k].pc = "arc"
              /\ \/ att' = [att EXCEPT ![k] = Closed(NoPort, Unresolved)]
                 \/ /\ res.ip # NoIp
                    /\ \E p : att' = [att EXCEPT ![k].pc = "asked", ![k].res = res, ![k].port = p,
                                                 ![k].wait = ReplyTimeout]
      BY <1>5 DEF QueryArc
    <2>1. PICK res :
              /\ res = ConsiderAll(att[k].res, msg, ChanInstance(Channel, Host))
              /\ att[k].pc = "arc"
              /\ \/ att' = [att EXCEPT ![k] = Closed(NoPort, Unresolved)]
                 \/ /\ res.ip # NoIp
                    /\ \E p : att' = [att EXCEPT ![k].pc = "asked", ![k].res = res, ![k].port = p,
                                                 ![k].wait = ReplyTimeout]
      BY <2>0
    <2>2. CASE att' = [att EXCEPT ![k] = Closed(NoPort, Unresolved)]
      BY <1>2, <2>2, ClosedFinds, OneAttemptFinds
    <2>3. ASSUME NEW p, res.ip # NoIp,
                 att' = [att EXCEPT ![k].pc = "asked", ![k].res = res, ![k].port = p,
                                    ![k].wait = ReplyTimeout]
          PROVE  FoundInv'
      <3> DEFINE a == [att[k] EXCEPT !.pc = "asked", !.res = res, !.port = p, !.wait = ReplyTimeout]
      <3>1. a.pc = "asked" /\ a.heard = att[k].heard /\ a.res = res
        BY <1>1 DEF AttemptType, Fields
      <3>2. att' = [att EXCEPT ![k] = a] BY <2>3
      <3> HIDE DEF a
      <3>3. PICK old : old = att[k].res OBVIOUS
      <3>4. /\ res.ip = old.ip \/ \E d \in Named : res.ip = d.ip
            /\ \A d \in Named : Named = {d} /\ old = Facts(d) => res = old
        <4>1. res = ConsiderAll(old, msg, ChanInstance(Channel, Host)) BY <2>1, <3>3
        <4> QED BY ONLY <4>1, msg \in Answers(link, ServiceInstance(Host, "arc")), HostFound
      <3>5. Found(a)
        BY <1>1, <2>1, <2>3, <3>1, <3>3, <3>4 DEF Found
      <3> QED BY <1>2, <3>2, <3>5, OneAttemptFinds
    <2> QED BY <2>1, <2>2, <2>3
  <1>6. CASE ReplyArrives(k)
    <2> DEFINE a == [att[k] EXCEPT !.pc = "flow", !.listed = TRUE, !.handle = (wire[k] = "ok"),
                                   !.due = NextKeepalive, !.wait = 0]
    <2>1. a.pc = "flow" /\ a.heard = att[k].heard /\ a.res = att[k].res /\ att[k].pc = "asked"
      BY <1>1, <1>6 DEF ReplyArrives, AttemptType, Fields
    <2>2. att' = [att EXCEPT ![k] = a] BY <1>6 DEF ReplyArrives
    <2> HIDE DEF a
    <2>3. Found(a) BY <1>1, <2>1 DEF Found
    <2> QED BY <1>2, <2>2, <2>3, OneAttemptFinds
  <1>7. CASE RequestFails(k) \/ StopFlow(k)
    <2>1. PICK res : att' = [att EXCEPT ![k] = Closed(att[k].port, res)]
      BY <1>7 DEF RequestFails, StopFlow
    <2> QED BY <1>2, <2>1, ClosedFinds, OneAttemptFinds
  <1> QED BY <1>3, <1>4, <1>5, <1>6, <1>7 DEF EstablishStep

\* Turns, time and the network tell an attempt nothing about its transmitter.
LEMMA OthersFind ==
    ASSUME StreamInv, FoundInv,
           \/ Tick
           \/ \E k \in Attempts : Turn(k) \/ TxAccept(k) \/ TxRefuse(k) \/ TxStop(k) \/ Lose(k)
    PROVE  FoundInv'
  <1>1. UNCHANGED link
    BY DEF Tick, Turn, TxAccept, TxRefuse, TxStop, Lose
  <1>2. \A j \in Attempts : /\ att'[j].pc = att[j].pc /\ att'[j].res = att[j].res
                            /\ att'[j].heard = att[j].heard
    <2> TAKE j \in Attempts
    <2>1. att = [i \in Attempts |-> att[i]] /\ AttemptType(att[j]) BY DEF StreamInv, StreamType
    <2>2. CASE Tick BY <2>1, <2>2 DEF Tick, AttemptType, Fields
    <2>3. ASSUME NEW k \in Attempts, NEW src, Keepalive(k, src)
          PROVE  /\ att'[j].pc = att[j].pc /\ att'[j].res = att[j].res
                 /\ att'[j].heard = att[j].heard
      BY <2>1, <2>3 DEF Keepalive, AttemptType, Fields
    <2>4. CASE UNCHANGED att BY <2>4
    <2> QED BY <2>2, <2>3, <2>4 DEF Turn, TxAccept, TxRefuse, TxStop, Lose
  <1>3. Named' = Named BY <1>1 DEF Named
  <1> QED BY <1>2, <1>3 DEF FoundInv, Found, Facts

\* FoundInv holds in every reachable state.
THEOREM FoundInvariant == Spec => []FoundInv
  <1>1. Init => FoundInv
    BY DEF Init, Idle, FoundInv, Found
  <1>2. StreamInv /\ FoundInv /\ [Next]_vars => FoundInv'
    <2> SUFFICES ASSUME StreamInv, FoundInv, [Next]_vars PROVE FoundInv'
      OBVIOUS
    <2>1. ASSUME NEW k \in Attempts, Start(k) \/ EstablishStep(k) \/ StopFlow(k) PROVE FoundInv'
      BY <2>1, EstablishFinds
    <2>2. CASE \/ Tick
               \/ \E k \in Attempts : Turn(k) \/ TxAccept(k) \/ TxRefuse(k) \/ TxStop(k) \/ Lose(k)
      BY <2>2, OthersFind
    <2>3. CASE UNCHANGED vars
      BY <2>3 DEF vars, FoundInv, Found, Facts, Named
    <2> QED BY <2>1, <2>2, <2>3 DEF Next
  <1> QED BY <1>1, <1>2, StreamInvariant, PTL DEF Spec

\* ResolvedIsNamed for every link and every number of attempts: resolve_tx
\* asks no device of another name for a flow, whichever datagrams come first.
THEOREM RequestsGoToTheName == Spec => []ResolvedIsNamed
  <1>1. FoundInv => ResolvedIsNamed
    <2> SUFFICES ASSUME FoundInv, NEW k \in Attempts, Open(k)
                 PROVE  \E d \in Named :
                           /\ att[k].res.ip = d.ip
                           /\ att[k].heard /\ Named = {d} => att[k].res = Facts(d)
      BY DEF ResolvedIsNamed, Facts
    <2>1. Found(att[k]) /\ att[k].pc \in {"asked", "flow"} BY DEF FoundInv, Open
    <2> QED BY <2>1 DEF Found
  <1> QED BY <1>1, FoundInvariant, PTL

=============================================================================
