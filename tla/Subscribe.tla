------------------------------ MODULE Subscribe ------------------------------
(***************************************************************************)
(* The subscription machinery of the device (src/device/subscribe.rs) with *)
(* the parts of the media thread (src/media/rx.rs) and of shutdown         *)
(* (src/device/mod.rs) it talks to.                                        *)
(*                                                                         *)
(* Four kinds of actors run concurrently and share state under short       *)
(* critical sections, one mutex at a time:                                 *)
(*   - the ARC task handles one controller request after the other and     *)
(*     runs `apply` synchronously (variable arc);                          *)
(*   - every subscription spawns an untracked `establish` task (task[k]);  *)
(*   - the media thread takes one command at a time from an unbounded      *)
(*     channel and drains its sockets (cmds, media);                       *)
(*   - the transmitters, on the other side of a lossy network (external).  *)
(*                                                                         *)
(* An action is one critical section together with what the actor does     *)
(* that no other actor can observe separately.                             *)
(***************************************************************************)
EXTENDS Integers, Sequences, SequencesExt

CONSTANTS
    NChan,       \* number of RX channels; local ids are 1..NChan
    Tx,          \* transmitters a controller can name
    NoTx,        \* no transmitter named (both fields None)
    Partial,     \* a record that names only a channel or only a host
    RangePorts,  \* MEDIA_PORT_START..MEDIA_PORT_END
    EphPorts,    \* ports the OS hands out when the range is exhausted
    IdMod,       \* width of a flow id: 2^16 in the code
    MaxTasks,    \* bound: establish tasks spawned in one behaviour
    Controller   \* how the controller behaves: "any", "patient" or "polite"

ASSUME ConstantsAssumption ==
    /\ NChan \in Nat /\ MaxTasks \in Nat
    /\ IdMod \in Nat /\ IdMod > 1
    /\ RangePorts \subseteq Nat \ {0} /\ EphPorts \subseteq Nat \ {0}
    /\ NoTx \notin Tx /\ Partial \notin Tx /\ NoTx # Partial
    /\ Controller \in {"any", "patient", "polite"}

Chan    == 1..NChan
Task    == 1..MaxTasks
FlowIds == 0..IdMod - 1
Ports   == RangePorts \cup EphPorts
NoFlow  == -1
NoPort  == 0
NoTask  == 0

\* What a record of an ARC 0x3010 request can ask for besides unsubscribing.
Targets == Tx \cup {Partial}

VARIABLES
    subs,        \* Shared.subs: tx, status and flow_id per channel
    patched,     \* Ring.patched per channel
    arc,         \* the ARC task: idle, or between two sections of apply
    task,        \* the establish tasks
    nextFlowId,  \* Shared.next_flow_id
    rxFlows,     \* Shared.rx_flows
    cmds,        \* the media command channel
    media,       \* the media thread's HashMap of flows
    noted,       \* Ring.ports, what bound_ports reports for media
    stopped,     \* Shared.stopped
    mediaUp,     \* the media thread (and the receiver of cmds) is alive
    wire,        \* the flows-control datagram of attempt k, if in flight
    stream       \* whether the transmitter sends media for attempt k

local == <<subs, patched, arc, task, nextFlowId, rxFlows, cmds, media, noted,
           stopped, mediaUp>>
vars  == <<local, wire, stream>>

------------------------------------------------------------------------------
(* State *)

Statuses == {"none", "unresolved", "establishing", "receiving"}

RxSub == [tx: Targets \cup {NoTx}, status: Statuses, flow: FlowIds \cup {NoFlow}]
DefaultSub == [tx |-> NoTx, status |-> "none", flow |-> NoFlow]

\* handle is the transmitter's own name for the flow: the attempt that
\* requested it, or NoTask when the reply carried none.
RxFlowInfo == [id: FlowIds, chan: Chan, port: Ports, handle: Task \cup {NoTask}]

Command == [op: {"add"}, id: FlowIds, chan: Chan, port: Ports]
             \cup [op: {"remove"}, id: FlowIds, chan: {0}, port: {NoPort}]
             \cup [op: {"shutdown"}, id: {NoFlow}, chan: {0}, port: {NoPort}]

MediaFlow == [on: BOOLEAN, chan: Chan \cup {0}, port: Ports \cup {NoPort},
              saw: BOOLEAN]
NoMediaFlow == [on |-> FALSE, chan |-> 0, port |-> NoPort, saw |-> FALSE]

\* pc of an establish task: "resolve" until resolve_tx returns, "bind" until
\* the request is sent, "wait" for the reply, "record" with the flow pushed to
\* rx_flows, "add" with the flow recorded in subs, "done" after the last step.
Establish == [pc: {"idle", "resolve", "bind", "wait", "record", "add", "done"},
              chan: Chan \cup {0}, tx: Targets \cup {NoTx},
              port: Ports \cup {NoPort}, fid: FlowIds \cup {NoFlow}]
IdleTask == [pc |-> "idle", chan |-> 0, tx |-> NoTx, port |-> NoPort, fid |-> NoFlow]

\* pc of the ARC task: "spawn" and "stop" are the second halves of apply.
ArcTask == [pc: {"idle", "spawn", "stop", "down"}, chan: Chan \cup {0},
            tx: Targets \cup {NoTx}, fid: FlowIds \cup {NoFlow}]
IdleArc == [pc |-> "idle", chan |-> 0, tx |-> NoTx, fid |-> NoFlow]

Datagrams == {"none", "request", "ok", "okNoHandle", "refused", "stop"}

(***************************************************************************)
(* The type invariant of the state the device shares between its tasks.    *)
(***************************************************************************)
TypeOK ==
    /\ subs \in [Chan -> RxSub]
    /\ patched \in [Chan -> BOOLEAN]
    /\ arc \in ArcTask
    /\ task \in [Task -> Establish]
    /\ nextFlowId \in FlowIds
    /\ rxFlows \in Seq(RxFlowInfo)
    /\ cmds \in Seq(Command)
    /\ media \in [FlowIds -> MediaFlow]
    /\ noted \subseteq Ports
    /\ stopped \in BOOLEAN
    /\ mediaUp \in BOOLEAN
    /\ wire \in [Task -> Datagrams]
    /\ stream \in [Task -> BOOLEAN]

Init ==
    /\ subs = [c \in Chan |-> DefaultSub]
    /\ patched = [c \in Chan |-> FALSE]
    /\ arc = IdleArc
    /\ task = [k \in Task |-> IdleTask]
    /\ nextFlowId = 1
    /\ rxFlows = <<>>
    /\ cmds = <<>>
    /\ media = [f \in FlowIds |-> NoMediaFlow]
    /\ noted = {}
    /\ stopped = FALSE
    /\ mediaUp = TRUE
    /\ wire = [k \in Task |-> "none"]
    /\ stream = [k \in Task |-> FALSE]

------------------------------------------------------------------------------
(* Derived state *)

Live(k) == task[k].pc \in {"resolve", "bind", "wait", "record", "add"}

\* The task owns the media socket from the bind until AddFlow moves it out.
HoldsSocket(k) == task[k].pc \in {"wait", "record", "add"}

PortsInUse ==
    {task[k].port : k \in {j \in Task : HoldsSocket(j)}}
      \cup {cmds[i].port : i \in {j \in 1..Len(cmds) : cmds[j].op = "add"}}
      \cup {media[f].port : f \in {g \in FlowIds : media[g].on}}

\* The ports bind_in_range can return: the first free one of the range, or,
\* with the range exhausted, any port the OS still has.
Bindable ==
    LET free == RangePorts \ PortsInUse
    IN  IF free # {} THEN {p \in free : \A q \in free : p <= q}
                     ELSE EphPorts \ PortsInUse

\* An idle task to spawn; the bound MaxTasks is a guard of Subscribe.
Fresh(k) == task[k].pc = "idle" /\ \A j \in Task : j < k => task[j].pc # "idle"

\* Environment: "any" controller asks at any time, a "patient" one lets the
\* attempt it started on the channel finish, a "polite" one also unsubscribes
\* a channel before it subscribes it to something else.
MayAsk(c) == Controller = "any" \/ \A k \in Task : Live(k) => task[k].chan # c
MayPatch(c) == MayAsk(c) /\ (Controller = "polite" => subs[c].tx = NoTx)

\* set_status
SetStatus(c, s) == subs' = [subs EXCEPT ![c].status = s]

\* Mutant of Send: queues although the receiver is gone.
SendUnchecked(c) == cmds' = Append(cmds, c)

\* media_tx.send: the command is queued unless the receiver is gone.
Send(c) == cmds' = IF mediaUp THEN Append(cmds, c) ELSE cmds

------------------------------------------------------------------------------
(* The ARC task: apply *)

\* First section of apply for a record that subscribes: the old flow_id stays.
Subscribe(c, t) ==
    /\ arc.pc = "idle" /\ MayPatch(c)
    /\ \E k \in Task : Fresh(k)
    /\ subs' = [subs EXCEPT ![c].tx = t, ![c].status = "unresolved"]
    /\ arc' = [IdleArc EXCEPT !.pc = "spawn", !.chan = c, !.tx = t]
    /\ UNCHANGED <<patched, task, nextFlowId, rxFlows, cmds, media, noted,
                   stopped, mediaUp, wire, stream>>

\* Rest of apply for a record that subscribes.
SpawnEstablish ==
    /\ arc.pc = "spawn"
    /\ patched' = [patched EXCEPT ![arc.chan] = TRUE]
    /\ \E k \in Task :
          /\ Fresh(k)
          /\ task' = [task EXCEPT ![k] =
                        [IdleTask EXCEPT !.pc = "resolve", !.chan = arc.chan, !.tx = arc.tx]]
    /\ arc' = IdleArc
    /\ UNCHANGED <<subs, nextFlowId, rxFlows, cmds, media, noted, stopped,
                   mediaUp, wire, stream>>

\* Mutant of Unsubscribe: flow_id is not reset.
UnsubscribeKeepsFlow(c) ==
    /\ arc.pc = "idle" /\ MayAsk(c)
    /\ subs' = [subs EXCEPT ![c].tx = NoTx, ![c].status = "none"]
    /\ arc' = [IdleArc EXCEPT !.pc = "stop", !.chan = c, !.fid = subs[c].flow]
    /\ UNCHANGED <<patched, task, nextFlowId, rxFlows, cmds, media, noted,
                   stopped, mediaUp, wire, stream>>

\* First section of apply for a record that unsubscribes.
Unsubscribe(c) ==
    /\ arc.pc = "idle" /\ MayAsk(c)
    /\ subs' = [subs EXCEPT ![c] = DefaultSub]
    /\ arc' = [IdleArc EXCEPT !.pc = "stop", !.chan = c, !.fid = subs[c].flow]
    /\ UNCHANGED <<patched, task, nextFlowId, rxFlows, cmds, media, noted,
                   stopped, mediaUp, wire, stream>>

\* Position of the first entry of rx_flows with this id.
IsPosition(i, f) ==
    /\ i \in 1..Len(rxFlows) /\ rxFlows[i].id = f
    /\ \A j \in 1..Len(rxFlows) : rxFlows[j].id = f => i <= j

Known(f) == \E i \in 1..Len(rxFlows) : rxFlows[i].id = f

\* What stop_flow does with the entry it takes out of rx_flows: one 0x0101
\* from a thread of its own if the transmitter's handle is known.
SendStop(i) == wire' = [k \in Task |-> IF k = rxFlows[i].handle THEN "stop" ELSE wire[k]]

\* Mutants of StopFlow: the media thread is not told; the entry stays in
\* rx_flows.
StopFlowUntold(f) ==
    /\ UNCHANGED cmds
    /\ \/ ~Known(f) /\ UNCHANGED <<rxFlows, wire>>
       \/ \E i \in 1..Len(rxFlows) :
             IsPosition(i, f) /\ rxFlows' = RemoveAt(rxFlows, i) /\ SendStop(i)

StopFlowKeepsEntry(f) ==
    /\ Send([op |-> "remove", id |-> f, chan |-> 0, port |-> NoPort])
    /\ \/ ~Known(f) /\ UNCHANGED <<rxFlows, wire>>
       \/ \E i \in 1..Len(rxFlows) :
             IsPosition(i, f) /\ UNCHANGED rxFlows /\ SendStop(i)

\* stop_flow: forget the flow, tell the media thread, stop the transmitter.
StopFlow(f) ==
    /\ Send([op |-> "remove", id |-> f, chan |-> 0, port |-> NoPort])
    /\ \/ ~Known(f) /\ UNCHANGED <<rxFlows, wire>>
       \/ \E i \in 1..Len(rxFlows) :
             IsPosition(i, f) /\ rxFlows' = RemoveAt(rxFlows, i) /\ SendStop(i)

\* Rest of apply for a record that unsubscribes.
FinishUnsubscribe ==
    /\ arc.pc = "stop"
    /\ patched' = [patched EXCEPT ![arc.chan] = FALSE]
    /\ \/ arc.fid = NoFlow /\ UNCHANGED <<rxFlows, cmds, wire>>
       \/ arc.fid # NoFlow /\ StopFlow(arc.fid)
    /\ arc' = IdleArc
    /\ UNCHANGED <<subs, task, nextFlowId, media, noted, stopped, mediaUp, stream>>

------------------------------------------------------------------------------
(* The establish tasks *)

\* A record without a host or without a channel name: establish returns.
Incomplete(k) ==
    /\ task[k].pc = "resolve" /\ task[k].tx = Partial
    /\ task' = [task EXCEPT ![k].pc = "done"]
    /\ UNCHANGED <<subs, patched, arc, nextFlowId, rxFlows, cmds, media, noted,
                   stopped, mediaUp, wire, stream>>

\* The task is in resolve_tx: two mDNS queries of 800 ms each, which any
\* answer, or none, ends. (What it makes of them is in Discovery.)
Resolving(k) == task[k].pc = "resolve" /\ task[k].tx # Partial

\* resolve_tx failed, or the transmitter runs at another sample rate.
ResolveFails(k) ==
    /\ Resolving(k)
    /\ SetStatus(task[k].chan, "unresolved")
    /\ task' = [task EXCEPT ![k].pc = "done"]
    /\ UNCHANGED <<patched, arc, nextFlowId, rxFlows, cmds, media, noted,
                   stopped, mediaUp, wire, stream>>

ResolveOk(k) ==
    /\ Resolving(k)
    /\ SetStatus(task[k].chan, "establishing")
    /\ task' = [task EXCEPT ![k].pc = "bind"]
    /\ UNCHANGED <<patched, arc, nextFlowId, rxFlows, cmds, media, noted,
                   stopped, mediaUp, wire, stream>>

BindFails(k) ==
    /\ task[k].pc = "bind"
    /\ SetStatus(task[k].chan, "unresolved")
    /\ task' = [task EXCEPT ![k].pc = "done"]
    /\ UNCHANGED <<patched, arc, nextFlowId, rxFlows, cmds, media, noted,
                   stopped, mediaUp, wire, stream>>

\* Mutants of BindAndRequest: the counter does not wrap; it is read but not
\* advanced.
BindAndRequestNoWrap(k) ==
    /\ task[k].pc = "bind"
    /\ \E p \in Bindable :
          task' = [task EXCEPT ![k].pc = "wait", ![k].port = p, ![k].fid = nextFlowId]
    /\ nextFlowId' = nextFlowId + 1
    /\ wire' = [wire EXCEPT ![k] = "request"]
    /\ UNCHANGED <<subs, patched, arc, rxFlows, cmds, media, noted, stopped,
                   mediaUp, stream>>

BindAndRequestSameId(k) ==
    /\ task[k].pc = "bind"
    /\ \E p \in Bindable :
          task' = [task EXCEPT ![k].pc = "wait", ![k].port = p, ![k].fid = nextFlowId]
    /\ wire' = [wire EXCEPT ![k] = "request"]
    /\ UNCHANGED <<subs, patched, arc, nextFlowId, rxFlows, cmds, media, noted, stopped,
                   mediaUp, stream>>

\* Bind the media socket, draw a flow id and send the 0x0100 request.
BindAndRequest(k) ==
    /\ task[k].pc = "bind"
    /\ \E p \in Bindable :
          task' = [task EXCEPT ![k].pc = "wait", ![k].port = p, ![k].fid = nextFlowId]
    /\ nextFlowId' = (nextFlowId + 1) % IdMod
    /\ wire' = [wire EXCEPT ![k] = "request"]
    /\ UNCHANGED <<subs, patched, arc, rxFlows, cmds, media, noted, stopped,
                   mediaUp, stream>>

\* Mutant of RequestFails: no timeout, only an answer ends the wait.
RequestNeverTimesOut(k) ==
    /\ task[k].pc = "wait" /\ wire[k] = "refused"
    /\ SetStatus(task[k].chan, "unresolved")
    /\ task' = [task EXCEPT ![k].pc = "done"]
    /\ wire' = [wire EXCEPT ![k] = IF @ = "request" THEN @ ELSE "none"]
    /\ UNCHANGED <<patched, arc, nextFlowId, rxFlows, cmds, media, noted,
                   stopped, mediaUp, stream>>

\* Mutant of RequestFails: the status is left as it is.
RequestFailsSilently(k) ==
    /\ task[k].pc = "wait"
    /\ task' = [task EXCEPT ![k].pc = "done"]
    /\ wire' = [wire EXCEPT ![k] = IF @ = "request" THEN @ ELSE "none"]
    /\ UNCHANGED <<subs, patched, arc, nextFlowId, rxFlows, cmds, media, noted,
                   stopped, mediaUp, stream>>

\* No usable answer: the 3 s timeout, an error opcode or a foreign datagram.
\* The socket is dropped; a request still in flight stays in flight.
RequestFails(k) ==
    /\ task[k].pc = "wait"
    /\ SetStatus(task[k].chan, "unresolved")
    /\ task' = [task EXCEPT ![k].pc = "done"]
    /\ wire' = [wire EXCEPT ![k] = IF @ = "request" THEN @ ELSE "none"]
    /\ UNCHANGED <<patched, arc, nextFlowId, rxFlows, cmds, media, noted,
                   stopped, mediaUp, stream>>

\* The transmitter accepted: push the flow to rx_flows.
ReplyArrives(k) ==
    /\ task[k].pc = "wait" /\ wire[k] \in {"ok", "okNoHandle"}
    /\ rxFlows' = Append(rxFlows,
                    [id |-> task[k].fid, chan |-> task[k].chan, port |-> task[k].port,
                     handle |-> IF wire[k] = "ok" THEN k ELSE NoTask])
    /\ task' = [task EXCEPT ![k].pc = "record"]
    /\ wire' = [wire EXCEPT ![k] = "none"]
    /\ UNCHANGED <<subs, patched, arc, nextFlowId, cmds, media, noted, stopped,
                   mediaUp, stream>>

\* Record the flow in the subscription, whatever the subscription is by now.
RecordFlow(k) ==
    /\ task[k].pc = "record"
    /\ subs' = [subs EXCEPT ![task[k].chan].flow = task[k].fid,
                            ![task[k].chan].status = "establishing"]
    /\ task' = [task EXCEPT ![k].pc = "add"]
    /\ UNCHANGED <<patched, arc, nextFlowId, rxFlows, cmds, media, noted,
                   stopped, mediaUp, wire, stream>>

\* Hand the socket to the media thread; if it is gone the socket is dropped.
SendAddFlow(k) ==
    /\ task[k].pc = "add"
    /\ Send([op |-> "add", id |-> task[k].fid, chan |-> task[k].chan, port |-> task[k].port])
    /\ \/ mediaUp /\ UNCHANGED subs
       \/ ~mediaUp /\ SetStatus(task[k].chan, "unresolved")
    /\ task' = [task EXCEPT ![k].pc = "done"]
    /\ UNCHANGED <<patched, arc, nextFlowId, rxFlows, media, noted, stopped,
                   mediaUp, wire, stream>>

------------------------------------------------------------------------------
(* The media thread *)

\* insert replaces a flow with the same id and so closes its socket.
MediaAdd ==
    /\ mediaUp /\ cmds # <<>> /\ Head(cmds).op = "add"
    /\ media' = [media EXCEPT ![Head(cmds).id] =
                   [on |-> TRUE, chan |-> Head(cmds).chan, port |-> Head(cmds).port,
                    saw |-> FALSE]]
    /\ noted' = noted \cup {Head(cmds).port}
    /\ cmds' = Tail(cmds)
    /\ UNCHANGED <<subs, patched, arc, task, nextFlowId, rxFlows, stopped,
                   mediaUp, wire, stream>>

MediaRemove ==
    /\ mediaUp /\ cmds # <<>> /\ Head(cmds).op = "remove"
    /\ media' = [media EXCEPT ![Head(cmds).id] = NoMediaFlow]
    /\ cmds' = Tail(cmds)
    /\ UNCHANGED <<subs, patched, arc, task, nextFlowId, rxFlows, noted,
                   stopped, mediaUp, wire, stream>>

\* The thread leaves its loop; its sockets and those still queued are closed.
MediaExit ==
    /\ mediaUp
    /\ stopped \/ (cmds # <<>> /\ Head(cmds).op = "shutdown")
    /\ mediaUp' = FALSE
    /\ cmds' = <<>>
    /\ media' = [f \in FlowIds |-> NoMediaFlow]
    /\ UNCHANGED <<subs, patched, arc, task, nextFlowId, rxFlows, noted,
                   stopped, wire, stream>>

\* Mutants of MarkReceiving: by channel instead of by flow; only from the
\* status apply sets.
MarkReceivingByChannel(f) == SetStatus(media[f].chan, "receiving")

MarkReceivingIfUnresolved(f) ==
    subs' = [c \in Chan |-> IF subs[c].flow = f /\ subs[c].status = "unresolved"
                            THEN [subs[c] EXCEPT !.status = "receiving"] ELSE subs[c]]

\* mark_flow_receiving
MarkReceiving(f) ==
    subs' = [c \in Chan |-> IF subs[c].flow = f THEN [subs[c] EXCEPT !.status = "receiving"]
                                                ELSE subs[c]]

\* A media packet of attempt k's stream arrives on the socket of flow f, which
\* accepts any sender; the first one marks the subscriptions of the flow as
\* receiving. (What the packet does to the ring and the clock is modelled in
\* Ring and Servo, the keepalives to the sender in Stream.)
MediaPacket(f, k) ==
    /\ mediaUp /\ media[f].on
    /\ stream[k] /\ task[k].port = media[f].port
    /\ media' = [media EXCEPT ![f].saw = TRUE]
    /\ \/ media[f].saw /\ UNCHANGED subs
       \/ ~media[f].saw /\ MarkReceiving(f)
    /\ UNCHANGED <<patched, arc, task, nextFlowId, rxFlows, cmds, noted,
                   stopped, mediaUp, wire, stream>>

------------------------------------------------------------------------------
(* Shutdown: signal_stop, then the control task aborts the ARC task *)

SignalStop ==
    /\ ~stopped
    /\ stopped' = TRUE
    /\ Send([op |-> "shutdown", id |-> NoFlow, chan |-> 0, port |-> NoPort])
    /\ UNCHANGED <<subs, patched, arc, task, nextFlowId, rxFlows, media, noted,
                   mediaUp, wire, stream>>

AbortArc ==
    /\ stopped /\ arc.pc = "idle"
    /\ arc' = [IdleArc EXCEPT !.pc = "down"]
    /\ UNCHANGED <<subs, patched, task, nextFlowId, rxFlows, cmds, media, noted,
                   stopped, mediaUp, wire, stream>>

------------------------------------------------------------------------------
(* The transmitters and the network (external) *)

TxAccept(k) ==
    /\ wire[k] = "request"
    /\ \E reply \in {"ok", "okNoHandle"} : wire' = [wire EXCEPT ![k] = reply]
    /\ stream' = [stream EXCEPT ![k] = TRUE]
    /\ UNCHANGED local

TxRefuse(k) ==
    /\ wire[k] = "request"
    /\ wire' = [wire EXCEPT ![k] = "refused"]
    /\ UNCHANGED <<local, stream>>

TxStop(k) ==
    /\ wire[k] = "stop"
    /\ wire' = [wire EXCEPT ![k] = "none"]
    /\ stream' = [stream EXCEPT ![k] = FALSE]
    /\ UNCHANGED local

Lose(k) ==
    /\ wire[k] # "none"
    /\ wire' = [wire EXCEPT ![k] = "none"]
    /\ UNCHANGED <<local, stream>>

\* The transmitter ends a stream: it went away, or gave the receiver up.
TxEnds(k) ==
    /\ stream[k]
    /\ stream' = [stream EXCEPT ![k] = FALSE]
    /\ UNCHANGED <<local, wire>>

------------------------------------------------------------------------------
EstablishStep(k) ==
    \/ Incomplete(k) \/ ResolveFails(k) \/ ResolveOk(k)
    \/ BindFails(k) \/ BindAndRequest(k)
    \/ RequestFails(k) \/ ReplyArrives(k)
    \/ RecordFlow(k) \/ SendAddFlow(k)

ArcStep == SpawnEstablish \/ FinishUnsubscribe

MediaStep == MediaAdd \/ MediaRemove \/ MediaExit

TxStep(k) == TxAccept(k) \/ TxRefuse(k) \/ TxStop(k) \/ Lose(k) \/ TxEnds(k)

Next ==
    \/ \E c \in Chan : \E t \in Targets : Subscribe(c, t)
    \/ \E c \in Chan : Unsubscribe(c)
    \/ ArcStep
    \/ \E k \in Task : EstablishStep(k)
    \/ MediaStep
    \/ \E f \in FlowIds : \E k \in Task : MediaPacket(f, k)
    \/ SignalStop \/ AbortArc
    \/ \E k \in Task : TxStep(k)

Spec == Init /\ [][Next]_vars

\* The runtime polls every spawned task, the OS runs the media thread, and
\* every await of establish has a timeout. ARC's select! picks a ready branch
\* at random, so a stream of requests cannot shut the abort out for ever.
\* Nothing is assumed about the controller, the network or a shutdown.
Fairness ==
    /\ WF_vars(ArcStep) /\ WF_vars(MediaStep) /\ SF_vars(AbortArc)
    /\ \A k \in Task : WF_vars(EstablishStep(k))

\* Of a stream that goes on, packets reach the socket that has its port. Only
\* EstablishingSettles needs this.
PacketFairness == \A k \in Task : SF_vars(\E f \in FlowIds : MediaPacket(f, k))

FairSpec == Spec /\ Fairness /\ PacketFairness

------------------------------------------------------------------------------
(* Properties that hold whatever the controller does *)

\* A subscription never names a flow that rx_flows has forgotten, so an
\* unsubscribe always finds the handle it needs for the 0x0101 stop
\* (establish pushes before it records, apply resets before it removes).
FlowIsKnown ==
    \A c \in Chan : subs[c].flow # NoFlow =>
        \E i \in 1..Len(rxFlows) : rxFlows[i].id = subs[c].flow /\ rxFlows[i].chan = c

\* While the media thread runs, the status "receiving unicast" that ARC
\* reports is backed by a flow of that very channel, in the media thread, on
\* which a packet has arrived.
ReceivingIsLive ==
    \A c \in Chan : mediaUp /\ subs[c].status = "receiving" =>
        /\ subs[c].flow # NoFlow
        /\ media[subs[c].flow].on /\ media[subs[c].flow].saw
        /\ media[subs[c].flow].chan = c

\* Nothing is ever on its way to stop a flow that a subscription names: no
\* RemoveFlow to the media thread, no 0x0101 to the transmitter. (With more
\* flow ids drawn than a u16 holds this fails: ids are reused unchecked.)
StopsOnlyUnwanted ==
    \A c \in Chan : subs[c].flow # NoFlow =>
        /\ \A i \in 1..Len(cmds) : cmds[i].op = "remove" => cmds[i].id # subs[c].flow
        /\ \A k \in Task : wire[k] = "stop" => task[k].fid # subs[c].flow
        /\ arc.pc = "stop" => arc.fid # subs[c].flow

\* A flow of the channel that the media thread has, or will have when it has
\* read its commands.
Underway(f, c) ==
    \/ media[f].on /\ media[f].chan = c
    \/ \E i \in 1..Len(cmds) : cmds[i].op = "add" /\ cmds[i].id = f /\ cmds[i].chan = c

\* While the media thread runs, "establishing" is never a left-over: an attempt
\* for the channel is still at work, or the flow that the subscription names
\* waits for packets in the media thread. (Attempts that fail late, that are
\* overtaken by another one and that are unsubscribed meanwhile all write the
\* same status.)
EstablishingIsBacked ==
    \A c \in Chan : mediaUp /\ subs[c].status = "establishing" =>
        \/ \E k \in Task : Live(k) /\ task[k].chan = c
        \/ subs[c].flow # NoFlow /\ Underway(subs[c].flow, c)

\* Every establish task comes to an end: resolve_tx and the flows-control
\* request cannot wait for ever, whatever the network loses.
AttemptsEnd == \A k \in Task : Live(k) ~> task[k].pc = "done"

\* After signal_stop the media thread, the ARC task and every establish task
\* end for good, and every media socket, wherever it was, is closed.
ShutdownQuiesces ==
    stopped ~> [](/\ ~mediaUp /\ arc.pc = "down"
                  /\ \A k \in Task : ~Live(k)
                  /\ PortsInUse = {})

\* A subscription does not stay "establishing" while its transmitter sends:
\* the first packet marks it, or a later attempt takes it over.
EstablishingSettles ==
    \A c \in Chan : \A k \in Task :
        (subs[c].status = "establishing" /\ task[k].pc = "done"
            /\ subs[c].flow = task[k].fid /\ stream[k])
          ~> (\/ subs[c].status # "establishing" \/ subs[c].flow # task[k].fid
              \/ ~stream[k] \/ ~mediaUp)

------------------------------------------------------------------------------
(* Properties of a device whose controller waits and unsubscribes first *)

Removing(f) ==
    \/ arc.pc = "stop" /\ arc.fid = f
    \/ \E i \in 1..Len(cmds) : cmds[i].op = "remove" /\ cmds[i].id = f

\* A running flow belongs to the subscription of its channel, or its removal
\* is under way: no flow outlives its subscription, and a channel never has
\* two flows that both write its lane of the ring.
FlowsAreWanted ==
    \A f \in FlowIds : media[f].on /\ ~Removing(f) =>
        subs[media[f].chan].flow = f /\ subs[media[f].chan].tx # NoTx

\* rx_flows lists only flows that a subscription names, that establish is
\* about to record, or that an unsubscribe is about to remove.
NoForgottenFlow ==
    \A i \in 1..Len(rxFlows) :
        \/ subs[rxFlows[i].chan].flow = rxFlows[i].id
        \/ \E k \in Task : task[k].pc = "record" /\ task[k].fid = rxFlows[i].id
        \/ arc.pc = "stop" /\ arc.fid = rxFlows[i].id

\* An attempt for the channel is about to be spawned or under way.
Trying(c) ==
    \/ arc.pc = "spawn" /\ arc.chan = c
    \/ \E k \in Task : Live(k) /\ task[k].chan = c

\* How far the subscription of a channel has come.
Phase(c) ==
    CASE subs[c].tx = NoTx -> "none"
      [] subs[c].tx # NoTx /\ subs[c].status = "receiving" -> "receiving"
      [] OTHER -> IF Trying(c) THEN "trying"
                  ELSE IF subs[c].status = "establishing" THEN "waiting" ELSE "failed"

Promise == INSTANCE Session WITH
    Channels <- Chan, Wishes <- Targets, Nothing <- NoTx,
    wanted <- [c \in Chan |-> subs[c].tx], phase <- [c \in Chan |-> Phase(c)]

\* What such a controller sees is a Session: a status of one attempt is never
\* taken for another's, a channel that receives goes on doing so until it is
\* unsubscribed, and late tasks, commands and packets of an earlier
\* subscription do not show through.
IsSession == Promise!Spec

------------------------------------------------------------------------------
(* What the repository's documents say, whatever the controller does *)

Quiet == /\ mediaUp /\ arc.pc = "idle" /\ cmds = <<>>
         /\ \A k \in Task : ~Live(k)

\* "Unsubscribe: 0x0101, media-thread remove, status 0": with nothing in
\* progress, no flow runs for a channel that is not subscribed.
UnsubscribedIsSilent ==
    Quiet => \A f \in FlowIds : media[f].on => subs[media[f].chan].tx # NoTx

=============================================================================
