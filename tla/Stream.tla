-------------------------------- MODULE Stream --------------------------------
(***************************************************************************)
(* The life of media streams between transmitters and this device, in      *)
(* time: an attempt resolves its transmitter (Discovery), binds a socket   *)
(* and requests a flow (establish, src/device/subscribe.rs); while the     *)
(* media thread has the socket (src/media/rx.rs) it sends a keepalive to   *)
(* the last source of a datagram at every interval; a transmitter ends a   *)
(* stream for which no keepalive comes, or that it is told to stop.        *)
(*                                                                         *)
(* The unit of time is the keepalive interval, 250 ms. All attempts are    *)
(* for one channel of one host.                                            *)
(***************************************************************************)
EXTENDS Discovery, FiniteSetsExt

CONSTANTS
    Attempts,      \* attempts in one behaviour (bound)
    Host, Channel, \* what the subscription names
    Links,         \* what devices there may be on the link
    Ports,         \* media ports, taken in order
    ReplyTimeout,  \* of the flows-control request: 3 s
    Expire,        \* a transmitter gives a stream up after 4 s
    MaxLoss        \* bound: keepalives of a flow that are lost in a row

ASSUME StreamAssumption ==
    /\ Attempts \subseteq Nat /\ Ports \subseteq Nat \ {0}
    /\ ReplyTimeout \in Nat /\ Expire \in Nat /\ MaxLoss \in Nat

\* bind_in_range does not come to its last resort, a port of the OS's choice.
ASSUME PortsAssumption == Cardinality(Ports) >= Cardinality(Attempts)

\* 3 s, 250 ms and two lost keepalives are less than 4 s.
ASSUME TimeAssumption == ReplyTimeout + 1 + MaxLoss < Expire

NoPort == 0
None == -1

VARIABLES
    link,    \* the devices on the link
    att,     \* the attempts, each with its socket and its flow
    wire,    \* the flows-control datagram of an attempt in flight
    ttl,     \* time until the transmitter gives the attempt's stream up; 0: no stream
    mixed    \* attempts whose socket has had two senders (ghost)

vars == <<link, att, wire, ttl, mixed>>

\* pc: "idle", "chan" and "arc" before the answers to the two queries, "asked"
\* with the request sent, "flow" with the socket in the media thread, "done".
\* heard: the channel's own records were among the answers (ghost); listed: the
\* flow is in rx_flows; lost: keepalives lost in a row (ghost).
Idle == [pc |-> "idle", res |-> Unresolved, heard |-> FALSE, port |-> NoPort, wait |-> 0,
         listed |-> FALSE, handle |-> FALSE, last |-> None, due |-> 0, lost |-> 0]

Init ==
    /\ link \in Links
    /\ att = [k \in Attempts |-> Idle]
    /\ wire = [k \in Attempts |-> "none"]
    /\ ttl = [k \in Attempts |-> 0]
    /\ mixed = {}

------------------------------------------------------------------------------
(* establish *)

Open(k) == att[k].pc \in {"asked", "flow"}
Streams(k) == ttl[k] > 0

\* What is left of an attempt that is over: the port that is streamed to and,
\* in its request, what was resolved.
Closed(port, res) == [Idle EXCEPT !.pc = "done", !.port = port, !.res = res]

\* The streams that are sent to the socket of attempt k.
Senders(k) == {j \in Attempts : Streams(j) /\ att[j].port = att[k].port}

Start(k) ==
    /\ att[k].pc = "idle" /\ \A j \in Attempts : j < k => att[j].pc # "idle"
    /\ att' = [att EXCEPT ![k].pc = "chan"]
    /\ UNCHANGED <<link, wire, ttl, mixed>>

\* The query for the channel's instance.
QueryChan(k) ==
    LET name == ChanInstance(Channel, Host)
    IN  /\ att[k].pc = "chan"
        /\ \E msg \in Answers(link, name) :
              att' = [att EXCEPT ![k].pc = "arc", ![k].heard = msg # <<>>,
                                 ![k].res = ConsiderAll(Unresolved, msg, name)]
        /\ UNCHANGED <<link, wire, ttl, mixed>>

FreePorts == Ports \ {att[j].port : j \in {i \in Attempts : Open(i)}}

\* The query for the host's ARC instance; then, with an address and the rate
\* of this device, the media socket is bound and the flow requested.
QueryArc(k) ==
    LET name == ServiceInstance(Host, "arc")
    IN  /\ att[k].pc = "arc"
        /\ \E msg \in Answers(link, name) :
              LET res == ConsiderAll(att[k].res, msg, ChanInstance(Channel, Host))
              IN  \/ /\ res.ip = NoIp \/ res.rate # OwnRate
                     /\ att' = [att EXCEPT ![k] = Closed(NoPort, Unresolved)]
                     /\ UNCHANGED <<wire, mixed>>
                  \/ /\ res.ip # NoIp /\ res.rate = OwnRate
                     /\ att' = [att EXCEPT ![k].pc = "asked", ![k].res = res,
                                           ![k].port = Min(FreePorts), ![k].wait = ReplyTimeout]
                     /\ wire' = [wire EXCEPT ![k] = "request"]
                     /\ mixed' = IF \E j \in Attempts : Streams(j) /\ att[j].port = Min(FreePorts)
                                 THEN mixed \cup {k} ELSE mixed
        /\ UNCHANGED <<link, ttl>>

\* Mutant of NextKeepalive: as long as the transmitter waits.
NextKeepaliveLate == Expire

NextKeepalive == 1

\* The answer comes in time: the flow is listed and its socket goes to the
\* media thread.
ReplyArrives(k) ==
    /\ att[k].pc = "asked" /\ wire[k] \in {"ok", "okNoHandle"}
    /\ att' = [att EXCEPT ![k].pc = "flow", ![k].listed = TRUE,
                          ![k].handle = (wire[k] = "ok"), ![k].due = NextKeepalive, ![k].wait = 0]
    /\ wire' = [wire EXCEPT ![k] = "none"]
    /\ UNCHANGED <<link, ttl, mixed>>

\* No answer within the timeout, or a refusal: the socket is closed. What is
\* in flight stays in flight.
RequestFails(k) ==
    /\ att[k].pc = "asked" /\ (att[k].wait = 0 \/ wire[k] = "refused")
    /\ att' = [att EXCEPT ![k] = Closed(@.port, IF wire[k] = "request" THEN @.res ELSE Unresolved)]
    /\ UNCHANGED <<link, wire, ttl, mixed>>

\* Mutant of StopFlow: RemoveFlow is not sent and the media thread goes on.
StopFlowKeepsSocket(k) ==
    /\ att[k].listed
    /\ att' = [att EXCEPT ![k].listed = FALSE]
    /\ wire' = [wire EXCEPT ![k] = IF att[k].handle THEN "stop" ELSE "none"]
    /\ UNCHANGED <<link, ttl, mixed>>

\* stop_flow: the flow leaves the media thread, its socket is closed, and one
\* 0x0101 goes to the transmitter if it gave a handle. (One step here; that the
\* socket closes only when the media thread takes RemoveFlow is in Subscribe. A
\* keepalive in between is one that Turn sends before this step.)
StopFlow(k) ==
    /\ att[k].listed
    /\ att' = [att EXCEPT ![k] = Closed(@.port, Unresolved)]
    /\ wire' = [wire EXCEPT ![k] = IF att[k].handle THEN "stop" ELSE "none"]
    /\ UNCHANGED <<link, ttl, mixed>>

------------------------------------------------------------------------------
(* The media thread *)

\* Mutant of LastSource: one last source for all flows of the thread.
LastSourceShared(k) ==
    LET all == {j \in Attempts : Streams(j)}
    IN  IF all # {} THEN all ELSE {att[k].last}

\* The sources that can be last after a turn: one of those that sent since
\* the last turn (whoever sends is heard within an interval), else as before.
LastSource(k) == IF Senders(k) # {} THEN Senders(k) ELSE {att[k].last}

\* The keepalive to the last source, if there is one, arrives or is lost; the
\* next one is set in any case.
Keepalive(k, src) ==
    \/ /\ src # None
       /\ ttl' = [ttl EXCEPT ![src] = IF Streams(src) THEN Expire ELSE 0]
       /\ att' = [att EXCEPT ![k].last = src, ![k].due = NextKeepalive, ![k].lost = 0]
    \/ /\ src # None /\ att[k].lost < MaxLoss
       /\ att' = [att EXCEPT ![k].last = src, ![k].due = NextKeepalive, ![k].lost = @ + 1]
       /\ UNCHANGED ttl
    \/ /\ src = None
       /\ att' = [att EXCEPT ![k].due = NextKeepalive]
       /\ UNCHANGED ttl

\* A turn of the loop with the keepalive of flow k due: the socket is drained.
Turn(k) ==
    /\ att[k].pc = "flow" /\ att[k].due = 0
    /\ \E src \in LastSource(k) : Keepalive(k, src)
    /\ UNCHANGED <<link, wire, mixed>>

------------------------------------------------------------------------------
(* Time, the transmitters and the network (external) *)

\* The timeout of a request and a keepalive that is due do not wait.
Tick ==
    /\ \A k \in Attempts : /\ att[k].pc = "asked" => att[k].wait > 0
                           /\ att[k].pc = "flow" => att[k].due > 0
    /\ att' = [k \in Attempts |->
                 [att[k] EXCEPT !.wait = IF att[k].pc = "asked" THEN @ - 1 ELSE @,
                                !.due = IF att[k].pc = "flow" THEN @ - 1 ELSE @]]
    /\ ttl' = [k \in Attempts |-> IF ttl[k] > 0 THEN ttl[k] - 1 ELSE 0]
    /\ UNCHANGED <<link, wire, mixed>>

\* The device at the address of the request is a transmitter that listens on
\* the port and has the channel; it streams to the socket's port.
TxAccept(k) ==
    /\ wire[k] = "request"
    /\ \E d \in link : /\ d.kind = "tx" /\ d.ip = att[k].res.ip /\ d.port = att[k].res.port
                       /\ \E c \in DOMAIN d.chans : d.chans[c] = att[k].res.id
    /\ \E reply \in {"ok", "okNoHandle"} : wire' = [wire EXCEPT ![k] = reply]
    /\ ttl' = [ttl EXCEPT ![k] = Expire]
    /\ mixed' = mixed \cup {j \in Attempts : j # k /\ att[j].port = att[k].port /\ Open(j)}
                      \cup {j \in {k} : Senders(k) \ {k} # {}}
    /\ UNCHANGED <<link, att>>

TxRefuse(k) ==
    /\ wire[k] = "request" /\ wire' = [wire EXCEPT ![k] = "refused"]
    /\ UNCHANGED <<link, att, ttl, mixed>>

TxStop(k) ==
    /\ wire[k] = "stop" /\ wire' = [wire EXCEPT ![k] = "none"]
    /\ ttl' = [ttl EXCEPT ![k] = 0]
    /\ UNCHANGED <<link, att, mixed>>

Lose(k) ==
    /\ wire[k] # "none" /\ wire' = [wire EXCEPT ![k] = "none"]
    /\ UNCHANGED <<link, att, ttl, mixed>>

------------------------------------------------------------------------------
EstablishStep(k) == QueryChan(k) \/ QueryArc(k) \/ ReplyArrives(k) \/ RequestFails(k)

Next ==
    \/ Tick
    \/ \E k \in Attempts :
          \/ Start(k) \/ EstablishStep(k) \/ StopFlow(k) \/ Turn(k)
          \/ TxAccept(k) \/ TxRefuse(k) \/ TxStop(k) \/ Lose(k)

Spec == Init /\ [][Next]_vars

\* Time goes on, every await of establish has a timeout, and the media thread
\* loops. A stop need not come, and no datagram need arrive.
Fairness ==
    /\ WF_vars(Tick)
    /\ \A k \in Attempts : WF_vars(EstablishStep(k)) /\ WF_vars(Turn(k))

FairSpec == Spec /\ Fairness

------------------------------------------------------------------------------
(* Properties *)

Named == {d \in link : d.host = Host}

\* The address a flow is requested at is one of a device that carries the
\* name, although resolve_tx takes any A record of any first datagram. If the
\* channel's own records arrived and the name is not used twice, then the
\* port, rate and channel number are that device's too.
ResolvedIsNamed ==
    \A k \in Attempts : Open(k) =>
        \E d \in Named :
            /\ att[k].res.ip = d.ip
            /\ att[k].heard /\ Named = {d} =>
                  att[k].res = [ip |-> d.ip, port |-> d.port, rate |-> d.rate, id |-> d.chans[Channel]]

\* A stream that a flow uses is not given up by its transmitter, however late
\* the answer to the request came and whichever keepalives were lost (fewer in
\* a row than the 4 s leave room for after the 3 s), as long as no other
\* stream is sent to the same socket.
KeptAlive ==
    \A k \in Attempts : att[k].listed /\ k \notin mixed => Streams(k)

\* A stream to a port that no attempt has open is not prolonged by the
\* keepalives of flows on other ports: the transmitter's 4 s go on running.
AbandonedIsNotKept ==
    [][\A k \in Attempts :
          Streams(k) /\ (\A j \in Attempts : Open(j) => att[j].port # att[k].port)
            => ttl'[k] <= ttl[k]]_vars

\* A stream that no listed flow uses gets one or comes to an end, although the
\* 0x0101 may be lost and an attempt may time out after its request was
\* accepted, unless another attempt binds its port and so hears it.
OrphanExpires ==
    \A k \in Attempts :
        (Streams(k) /\ ~att[k].listed)
          ~> (\/ ~Streams(k) \/ att[k].listed
              \/ \E j \in Attempts \ {k} : Open(j) /\ att[j].port = att[k].port)

=============================================================================
