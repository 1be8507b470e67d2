--------------------------- MODULE SubscribeProofs ---------------------------
(***************************************************************************)
(* Proofs about the subscription machinery, for every number of channels,  *)
(* transmitters, ports and attempts: type correctness without conditions,  *)
(* the safety properties of any controller as long as flow ids are not     *)
(* drawn twice (IdsSuffice), in the second part what a polite controller   *)
(* gets in addition (Polite) and, in the third, what is behind the status  *)
(* "establishing", again for any controller.                               *)
(***************************************************************************)
EXTENDS Subscribe, FiniteSetTheorems, TLAPS

(* The inductive invariant behind the properties of any controller, for     *)
(* fewer attempts than there are flow ids                                   *)

IdsSuffice == MaxTasks + 1 < IdMod

\* What a task or the ARC task has filled in at each point.
ProgressInv ==
    /\ \A k \in Task :
          /\ task[k].pc # "idle" => task[k].chan \in Chan
          /\ task[k].pc \in {"idle", "resolve", "bind"} => task[k].fid = NoFlow
          /\ HoldsSocket(k) => task[k].fid # NoFlow /\ task[k].port # NoPort
    /\ arc.pc \in {"spawn", "stop"} => arc.chan \in Chan

\* Flow ids are drawn in order and never twice.
Numbered == {k \in Task : task[k].fid # NoFlow}
IdsInv ==
    /\ nextFlowId = Cardinality(Numbered) + 1
    /\ \A k \in Task : task[k].fid < nextFlowId
    /\ \A j, k \in Numbered : task[j].fid = task[k].fid => j = k

\* rx_flows holds flows of tasks that have their reply, with their handles;
\* a flow that is recorded, or about to be, is in it.
Listed(f, c) == \E i \in 1..Len(rxFlows) : rxFlows[i].id = f /\ rxFlows[i].chan = c
FlowsInv ==
    /\ \A i \in 1..Len(rxFlows) : \E k \in Task :
          /\ task[k].fid = rxFlows[i].id /\ task[k].pc \in {"record", "add", "done"}
          /\ rxFlows[i].handle \in {NoTask, k}
    /\ \A k \in Task : task[k].pc = "record" => Listed(task[k].fid, task[k].chan)
    /\ \A c \in Chan : subs[c].flow # NoFlow =>
          /\ Listed(subs[c].flow, c)
          /\ \E k \in Task : /\ task[k].fid = subs[c].flow /\ task[k].chan = c
                            /\ task[k].pc \in {"add", "done"}

\* A flow that something is on its way to stop was recorded, once and for
\* all, and no subscription names it any more.
Unwanted(f) ==
    /\ \E k \in Task : task[k].fid = f /\ task[k].pc \in {"add", "done"}
    /\ \A c \in Chan : subs[c].flow # f
DoomedInv ==
    /\ arc.pc = "stop" /\ arc.fid # NoFlow => Unwanted(arc.fid)
    /\ \A i \in 1..Len(cmds) : cmds[i].op = "remove" => cmds[i].id # NoFlow /\ Unwanted(cmds[i].id)
    /\ \A k \in Task : wire[k] = "stop" => task[k].fid # NoFlow /\ Unwanted(task[k].fid)

\* A flow is handed to the media thread once, by the task that made it.
Handed(f, c) == \E k \in Task : task[k].fid = f /\ task[k].chan = c /\ task[k].pc = "done"
MediaInv ==
    /\ ~mediaUp => cmds = <<>>
    /\ \A i \in 1..Len(cmds) : cmds[i].op = "add" =>
          /\ cmds[i].id # NoFlow /\ Handed(cmds[i].id, cmds[i].chan)
          /\ ~media[cmds[i].id].on
          /\ \A j \in 1..Len(cmds) : cmds[j].op = "add" /\ cmds[j].id = cmds[i].id => j = i
    /\ \A f \in FlowIds : media[f].on => Handed(f, media[f].chan)

\* The types alone are inductive with ProgressInv, whatever IdMod.
TypeInv == TypeOK /\ ProgressInv

SubscribeInv ==
    /\ TypeOK /\ ProgressInv /\ IdsInv /\ FlowsInv /\ DoomedInv /\ MediaInv
    /\ ReceivingIsLive

------------------------------------------------------------------------------
(* Sequences *)

\* Removing an entry leaves a sequence over the same set.
LEMMA RemoveAtType ==
    ASSUME NEW S, NEW s \in Seq(S), NEW i \in 1..Len(s)
    PROVE  RemoveAt(s, i) \in Seq(S)
  BY DEF RemoveAt

\* Every entry of the result was an entry before, and every entry but the
\* one removed is still there.
LEMMA RemoveAtEntries ==
    ASSUME NEW S, NEW s \in Seq(S), NEW i \in 1..Len(s)
    PROVE  /\ \A j \in 1..Len(RemoveAt(s, i)) : \E m \in 1..Len(s) : RemoveAt(s, i)[j] = s[m]
           /\ \A m \in 1..Len(s) : m # i => \E j \in 1..Len(RemoveAt(s, i)) : RemoveAt(s, i)[j] = s[m]
  <1> DEFINE a == SubSeq(s, 1, i - 1)
             b == SubSeq(s, i + 1, Len(s))
  <1>1. /\ a \in Seq(S) /\ Len(a) = i - 1 /\ \A j \in 1..i - 1 : a[j] = s[j]
    OBVIOUS
  <1>2. /\ b \in Seq(S) /\ Len(b) = Len(s) - i /\ \A j \in 1..Len(s) - i : b[j] = s[i + j]
    OBVIOUS
  <1>3. RemoveAt(s, i) = a \o b
    BY DEF RemoveAt
  <1> HIDE DEF a, b
  <1>4. Len(a \o b) = Len(s) - 1
    BY <1>1, <1>2
  <1>5. \A j \in 1..Len(s) - 1 : (a \o b)[j] = IF j <= i - 1 THEN s[j] ELSE s[j + 1]
    BY <1>1, <1>2
  <1>6. ASSUME NEW m \in 1..Len(s), m # i
        PROVE  \E j \in 1..Len(s) - 1 : (a \o b)[j] = s[m]
    <2>0. Len(s) \in Nat /\ i \in Nat /\ m \in Nat /\ 1 <= m /\ m <= Len(s) /\ 1 <= i /\ i <= Len(s)
      OBVIOUS
    <2>1. CASE m < i
      <3>1. m \in 1..Len(s) - 1 /\ m <= i - 1 BY <2>0, <2>1
      <3>2. (a \o b)[m] = s[m] BY <1>5, <3>1
      <3> QED BY <3>1, <3>2
    <2>2. CASE m > i
      <3>1. m - 1 \in 1..Len(s) - 1 /\ ~(m - 1 <= i - 1) /\ m - 1 + 1 = m BY <2>0, <2>2
      <3>2. (a \o b)[m - 1] = s[m] BY <1>5, <3>1
      <3> QED BY <3>1, <3>2
    <2>3. m < i \/ m > i BY <1>6, <2>0
    <2> QED BY <2>1, <2>2, <2>3
  <1>7. ASSUME NEW j \in 1..Len(s) - 1
        PROVE  \E m \in 1..Len(s) : (a \o b)[j] = s[m]
    <2>1. j \in 1..Len(s) /\ j + 1 \in 1..Len(s) OBVIOUS
    <2> QED BY <1>5, <2>1
  <1> QED BY <1>3, <1>4, <1>6, <1>7

------------------------------------------------------------------------------
(* Type correctness *)

\* The initial state is well typed.
LEMMA InitTypeInv == Init => TypeInv
  <1> SUFFICES ASSUME Init PROVE TypeInv
    OBVIOUS
  <1> USE DEF Init, Chan, Task, FlowIds, NoFlow, NoPort, NoTask, IdleTask, IdleArc, DefaultSub,
              NoMediaFlow
  <1>1. TypeOK
    <2>1. subs \in [Chan -> RxSub] /\ patched \in [Chan -> BOOLEAN] /\ arc \in ArcTask
      BY DEF RxSub, Statuses, ArcTask
    <2>2. task \in [Task -> Establish] /\ nextFlowId \in FlowIds
      BY ConstantsAssumption DEF Establish
    <2>3. rxFlows \in Seq(RxFlowInfo) /\ cmds \in Seq(Command)
      OBVIOUS
    <2>4. media \in [FlowIds -> MediaFlow] /\ noted \subseteq Ports
      BY DEF MediaFlow
    <2>5. stopped \in BOOLEAN /\ mediaUp \in BOOLEAN
      OBVIOUS
    <2>6. wire \in [Task -> Datagrams] /\ stream \in [Task -> BOOLEAN]
      BY DEF Datagrams
    <2> QED BY <2>1, <2>2, <2>3, <2>4, <2>5, <2>6 DEF TypeOK
  <1>2. ProgressInv
    BY DEF ProgressInv, HoldsSocket
  <1> QED BY <1>1, <1>2 DEF TypeInv

\* Sending a command keeps the channel well typed.
LEMMA SendType ==
    ASSUME cmds \in Seq(Command), NEW c \in Command, Send(c)
    PROVE  cmds' \in Seq(Command)
  BY DEF Send

\* stop_flow keeps rx_flows, the command channel and the wire well typed.
LEMMA StopFlowType ==
    ASSUME TypeOK, NEW f \in FlowIds, StopFlow(f)
    PROVE  rxFlows' \in Seq(RxFlowInfo) /\ cmds' \in Seq(Command) /\ wire' \in [Task -> Datagrams]
  <1>1. cmds' \in Seq(Command)
    <2>1. [op |-> "remove", id |-> f, chan |-> 0, port |-> NoPort] \in Command
      BY DEF Command
    <2> QED BY <2>1, SendType DEF StopFlow, TypeOK
  <1>2. rxFlows' \in Seq(RxFlowInfo)
    BY RemoveAtType DEF StopFlow, TypeOK
  <1>3. wire' \in [Task -> Datagrams]
    BY DEF StopFlow, SendStop, TypeOK, Datagrams
  <1> QED BY <1>1, <1>2, <1>3

\* The two ways in which a subscription is changed in two fields.
LEMMA RxSubType ==
    ASSUME NEW s \in RxSub
    PROVE  /\ \A t \in Targets : [s EXCEPT !.tx = t, !.status = "unresolved"] \in RxSub
           /\ \A f \in FlowIds \cup {NoFlow} : [s EXCEPT !.flow = f, !.status = "establishing"] \in RxSub
  <1>1. ASSUME NEW t \in Targets PROVE [s EXCEPT !.tx = t, !.status = "unresolved"] \in RxSub
    BY DEF RxSub, Statuses
  <1>2. ASSUME NEW f \in FlowIds \cup {NoFlow}
        PROVE  [s EXCEPT !.flow = f, !.status = "establishing"] \in RxSub
    BY DEF RxSub, Statuses
  <1> QED BY <1>1, <1>2

\* Steps of the ARC task keep the types.
LEMMA ArcKeepsTypeInv ==
    ASSUME TypeInv,
           \/ \E c \in Chan : \E t \in Targets : Subscribe(c, t)
           \/ \E c \in Chan : Unsubscribe(c)
           \/ ArcStep \/ AbortArc
    PROVE  TypeInv'
  <1> USE ConstantsAssumption DEF TypeInv, TypeOK, ProgressInv, HoldsSocket, Chan, Task, NoFlow, NoPort
  <1>1. ASSUME NEW c \in Chan, NEW t \in Targets, Subscribe(c, t) PROVE TypeInv'
    <2>1. subs' \in [Chan -> RxSub]
      <3>1. [subs[c] EXCEPT !.tx = t, !.status = "unresolved"] \in RxSub
        BY RxSubType
      <3>2. subs' = [subs EXCEPT ![c] = [subs[c] EXCEPT !.tx = t, !.status = "unresolved"]]
        BY <1>1 DEF Subscribe
      <3> QED BY <3>1, <3>2
    <2>2. arc' \in ArcTask /\ arc'.chan \in Chan
      BY <1>1 DEF Subscribe, ArcTask, IdleArc
    <2>3. UNCHANGED <<patched, task, nextFlowId, rxFlows, cmds, media, noted,
                      stopped, mediaUp, wire, stream>>
      BY <1>1 DEF Subscribe
    <2>4. TypeOK' BY <2>1, <2>2, <2>3
    <2>5. ProgressInv' BY <2>2, <2>3
    <2> QED BY <2>4, <2>5
  <1>2. ASSUME NEW c \in Chan, Unsubscribe(c) PROVE TypeInv'
    <2>1. DefaultSub \in RxSub
      BY DEF DefaultSub, RxSub, Statuses
    <2>2. arc' \in ArcTask /\ arc'.chan \in Chan
      <3>1. subs[c].flow \in FlowIds \cup {NoFlow} BY DEF RxSub
      <3> QED BY <1>2, <3>1 DEF Unsubscribe, ArcTask, IdleArc
    <2> QED BY <1>2, <2>1, <2>2 DEF Unsubscribe
  <1>3. CASE SpawnEstablish
    <2>1. PICK k \in Task : task' = [task EXCEPT ![k] =
                 [IdleTask EXCEPT !.pc = "resolve", !.chan = arc.chan, !.tx = arc.tx]]
      BY <1>3 DEF SpawnEstablish
    <2>2. TypeOK'
      BY <1>3, <2>1 DEF SpawnEstablish, ArcTask, IdleArc, Establish, IdleTask
    <2>3. ProgressInv'
      BY <1>3, <2>1 DEF SpawnEstablish, ArcTask, IdleArc, Establish, IdleTask
    <2> QED BY <2>2, <2>3
  <1>4. CASE FinishUnsubscribe
    <2>1. rxFlows' \in Seq(RxFlowInfo) /\ cmds' \in Seq(Command) /\ wire' \in [Task -> Datagrams]
      <3>1. CASE arc.fid = NoFlow
        BY <1>4, <3>1 DEF FinishUnsubscribe
      <3>2. CASE arc.fid # NoFlow
        <4>1. arc.fid \in FlowIds BY <3>2 DEF ArcTask
        <4> QED BY <1>4, <3>2, <4>1, StopFlowType DEF FinishUnsubscribe
      <3> QED BY <3>1, <3>2
    <2> QED BY <1>4, <2>1 DEF FinishUnsubscribe, ArcTask, IdleArc
  <1>5. CASE AbortArc
    BY <1>5 DEF AbortArc, ArcTask, IdleArc
  <1> QED BY <1>1, <1>2, <1>3, <1>4, <1>5 DEF ArcStep

\* set_status keeps the subscriptions well typed.
LEMMA SetStatusType ==
    ASSUME TypeOK, NEW c, NEW s \in Statuses, SetStatus(c, s)
    PROVE  subs' \in [Chan -> RxSub]
  <1>1. subs \in [Chan -> RxSub] BY DEF TypeOK
  <1> QED BY <1>1 DEF SetStatus, RxSub

\* A task that only moves on keeps what it has filled in.
LEMMA MoveOn ==
    ASSUME TypeInv, NEW k \in Task, NEW p \in {"bind", "record", "add", "done"},
           task[k].pc # "idle", p = "bind" => task[k].pc = "resolve",
           p \in {"record", "add"} => HoldsSocket(k),
           task' = [task EXCEPT ![k].pc = p], UNCHANGED arc
    PROVE  task' \in [Task -> Establish] /\ ProgressInv'
  <1>1. task \in [Task -> Establish] BY DEF TypeInv, TypeOK
  <1>2. task' \in [Task -> Establish]
    BY <1>1 DEF Establish
  <1>3. ProgressInv'
    BY <1>1 DEF TypeInv, ProgressInv, HoldsSocket, Establish
  <1> QED BY <1>2, <1>3

\* Steps of an establish task keep the types.
LEMMA EstablishKeepsTypeInv ==
    ASSUME TypeInv, NEW k \in Task, EstablishStep(k)
    PROVE  TypeInv'
  <1>0. TypeOK /\ ProgressInv /\ task[k] \in Establish
    BY DEF TypeInv, TypeOK
  <1>1. CASE Incomplete(k)
    <2>1. task' \in [Task -> Establish] /\ ProgressInv'
      BY <1>1, MoveOn DEF Incomplete
    <2> QED BY <1>0, <1>1, <2>1 DEF Incomplete, TypeInv, TypeOK
  <1>2. CASE ResolveFails(k)
    <2>1. task' \in [Task -> Establish] /\ ProgressInv'
      BY <1>2, MoveOn DEF ResolveFails, Resolving
    <2>2. subs' \in [Chan -> RxSub]
      BY <1>0, <1>2, SetStatusType DEF ResolveFails, Resolving, Statuses
    <2> QED BY <1>0, <1>2, <2>1, <2>2 DEF ResolveFails, Resolving, TypeInv, TypeOK
  <1>3. CASE ResolveOk(k)
    <2>1. task' \in [Task -> Establish] /\ ProgressInv'
      BY <1>3, MoveOn DEF ResolveOk, Resolving
    <2>2. subs' \in [Chan -> RxSub]
      BY <1>0, <1>3, SetStatusType DEF ResolveOk, Resolving, Statuses
    <2> QED BY <1>0, <1>3, <2>1, <2>2 DEF ResolveOk, Resolving, TypeInv, TypeOK
  <1>4. CASE BindFails(k)
    <2>1. task' \in [Task -> Establish] /\ ProgressInv'
      BY <1>4, MoveOn DEF BindFails
    <2>2. subs' \in [Chan -> RxSub]
      BY <1>0, <1>4, SetStatusType DEF BindFails, Statuses
    <2> QED BY <1>0, <1>4, <2>1, <2>2 DEF BindFails, TypeInv, TypeOK
  <1>5. CASE BindAndRequest(k)
    <2>1. PICK p \in Ports : task' = [task EXCEPT ![k].pc = "wait", ![k].port = p, ![k].fid = nextFlowId]
      BY <1>5 DEF BindAndRequest, Bindable, Ports
    <2>2. p # NoPort
      BY ConstantsAssumption DEF Ports, NoPort
    <2>3. nextFlowId' \in FlowIds /\ nextFlowId \in FlowIds /\ nextFlowId # NoFlow
      BY <1>0, <1>5, ConstantsAssumption DEF BindAndRequest, FlowIds, TypeOK, NoFlow
    <2>4. wire' \in [Task -> Datagrams]
      BY <1>0, <1>5 DEF BindAndRequest, Datagrams, TypeOK
    <2>5. task \in [Task -> Establish] /\ task' \in [Task -> Establish]
      BY <1>0, <2>1, <2>3 DEF Establish, TypeOK
    <2>6. TypeOK'
      BY <1>0, <1>5, <2>3, <2>4, <2>5 DEF BindAndRequest, TypeOK
    <2>7. ProgressInv'
      BY <1>0, <1>5, <2>1, <2>2, <2>3, <2>5 DEF BindAndRequest, Establish, ProgressInv, HoldsSocket
    <2> QED BY <2>6, <2>7 DEF TypeInv
  <1>6. CASE RequestFails(k)
    <2>1. task' \in [Task -> Establish] /\ ProgressInv'
      BY <1>6, MoveOn DEF RequestFails
    <2>2. subs' \in [Chan -> RxSub]
      BY <1>0, <1>6, SetStatusType DEF RequestFails, Statuses
    <2>3. wire' \in [Task -> Datagrams]
      BY <1>0, <1>6 DEF RequestFails, Datagrams, TypeOK
    <2> QED BY <1>0, <1>6, <2>1, <2>2, <2>3 DEF RequestFails, TypeInv, TypeOK
  <1>7. CASE ReplyArrives(k)
    <2>0. HoldsSocket(k) BY <1>7 DEF ReplyArrives, HoldsSocket
    <2>1. task' \in [Task -> Establish] /\ ProgressInv'
      BY <1>7, <2>0, MoveOn DEF ReplyArrives
    <2>2. wire' \in [Task -> Datagrams]
      BY <1>0, <1>7 DEF ReplyArrives, Datagrams, TypeOK
    <2>3. task[k].fid \in FlowIds /\ task[k].chan \in Chan /\ task[k].port \in Ports
      BY <1>0, <1>7, <2>0 DEF ReplyArrives, ProgressInv, Establish
    <2>4. rxFlows' \in Seq(RxFlowInfo)
      BY <1>0, <1>7, <2>3 DEF ReplyArrives, RxFlowInfo, TypeOK
    <2> QED BY <1>0, <1>7, <2>1, <2>2, <2>4 DEF ReplyArrives, TypeInv, TypeOK
  <1>8. CASE RecordFlow(k)
    <2>0. HoldsSocket(k) BY <1>8 DEF RecordFlow, HoldsSocket
    <2>1. task' \in [Task -> Establish] /\ ProgressInv'
      BY <1>8, <2>0, MoveOn DEF RecordFlow
    <2>2. task[k].fid \in FlowIds \cup {NoFlow} /\ subs \in [Chan -> RxSub]
      BY <1>0 DEF Establish, TypeOK
    <2>3. subs' \in [Chan -> RxSub]
      <3> DEFINE new == [subs[task[k].chan] EXCEPT !.flow = task[k].fid, !.status = "establishing"]
      <3>1. subs' = [subs EXCEPT ![task[k].chan] = new]
        BY <1>8, <2>2 DEF RecordFlow
      <3>2. task[k].chan \in Chan => new \in RxSub
        BY <2>2, RxSubType
      <3> QED BY <2>2, <3>1, <3>2
    <2> QED BY <1>0, <1>8, <2>1, <2>3 DEF RecordFlow, TypeInv, TypeOK
  <1>9. CASE SendAddFlow(k)
    <2>1. task' \in [Task -> Establish] /\ ProgressInv'
      BY <1>9, MoveOn DEF SendAddFlow
    <2>2. [op |-> "add", id |-> task[k].fid, chan |-> task[k].chan, port |-> task[k].port] \in Command
      <3>1. task[k].fid \in FlowIds /\ task[k].chan \in Chan /\ task[k].port \in Ports
        BY <1>0, <1>9 DEF SendAddFlow, ProgressInv, HoldsSocket, Establish
      <3> QED BY <3>1 DEF Command
    <2>3. cmds' \in Seq(Command)
      BY <1>0, <1>9, <2>2, SendType DEF SendAddFlow, TypeOK
    <2>4. subs' \in [Chan -> RxSub]
      BY <1>0, <1>9, SetStatusType DEF SendAddFlow, Statuses, TypeOK
    <2> QED BY <1>0, <1>9, <2>1, <2>3, <2>4 DEF SendAddFlow, TypeInv, TypeOK
  <1> QED BY <1>1, <1>2, <1>3, <1>4, <1>5, <1>6, <1>7, <1>8, <1>9 DEF EstablishStep

\* Steps of the media thread and the stop signal keep the types.
LEMMA MediaKeepsTypeInv ==
    ASSUME TypeInv,
           \/ MediaStep \/ SignalStop
           \/ \E f \in FlowIds : \E k \in Task : MediaPacket(f, k)
    PROVE  TypeInv'
  <1>0. /\ TypeOK /\ ProgressInv
        /\ cmds # <<>> => Head(cmds) \in Command /\ Tail(cmds) \in Seq(Command)
    BY DEF TypeInv, TypeOK
  <1>p. UNCHANGED <<task, arc>> => ProgressInv'
    BY <1>0 DEF ProgressInv, HoldsSocket
  <1>1. CASE MediaAdd
    <2>1. Head(cmds).port \in Ports /\ Head(cmds).chan \in Chan
      BY <1>0, <1>1 DEF MediaAdd, Command
    <2>2. media' \in [FlowIds -> MediaFlow]
      BY <1>0, <1>1, <2>1 DEF MediaAdd, MediaFlow, TypeOK
    <2>3. noted' \subseteq Ports
      BY <1>0, <1>1, <2>1 DEF MediaAdd, TypeOK
    <2> QED BY <1>0, <1>p, <1>1, <2>2, <2>3 DEF MediaAdd, TypeInv, TypeOK
  <1>2. CASE MediaRemove
    <2>1. media' \in [FlowIds -> MediaFlow]
      BY <1>0, <1>2 DEF MediaRemove, MediaFlow, NoMediaFlow, TypeOK
    <2> QED BY <1>0, <1>p, <1>2, <2>1 DEF MediaRemove, TypeInv, TypeOK
  <1>3. CASE MediaExit
    <2>1. media' \in [FlowIds -> MediaFlow]
      BY <1>3 DEF MediaExit, MediaFlow, NoMediaFlow
    <2>2. cmds' \in Seq(Command)
      BY <1>3 DEF MediaExit
    <2> QED BY <1>0, <1>p, <1>3, <2>1, <2>2 DEF MediaExit, TypeInv, TypeOK
  <1>4. CASE SignalStop
    <2>1. [op |-> "shutdown", id |-> NoFlow, chan |-> 0, port |-> NoPort] \in Command
      BY DEF Command
    <2>2. cmds' \in Seq(Command)
      BY <1>0, <1>4, <2>1, SendType DEF SignalStop, TypeOK
    <2> QED BY <1>0, <1>p, <1>4, <2>2 DEF SignalStop, TypeInv, TypeOK
  <1>5. ASSUME NEW f \in FlowIds, NEW k \in Task, MediaPacket(f, k) PROVE TypeInv'
    <2>1. subs' \in [Chan -> RxSub]
      <3>1. \A c \in Chan : subs[c] \in RxSub /\ [subs[c] EXCEPT !.status = "receiving"] \in RxSub
        BY <1>0 DEF RxSub, Statuses, TypeOK
      <3>2. CASE UNCHANGED subs
        BY <1>0, <3>2 DEF TypeOK
      <3>3. CASE MarkReceiving(f)
        BY <3>1, <3>3 DEF MarkReceiving
      <3> QED BY <1>5, <3>2, <3>3 DEF MediaPacket
    <2>2. media' \in [FlowIds -> MediaFlow]
      <3>1. media \in [FlowIds -> MediaFlow] BY <1>0 DEF TypeOK
      <3>2. media' = [media EXCEPT ![f].saw = TRUE] BY <1>5 DEF MediaPacket
      <3> QED BY <3>1, <3>2 DEF MediaFlow
    <2> QED BY <1>0, <1>p, <1>5, <2>1, <2>2 DEF MediaPacket, TypeInv, TypeOK
  <1> QED BY <1>1, <1>2, <1>3, <1>4, <1>5 DEF MediaStep

\* Steps of the transmitters and the network keep the types.
LEMMA TxKeepsTypeInv ==
    ASSUME TypeInv, NEW k \in Task, TxStep(k)
    PROVE  TypeInv'
  <1>1. UNCHANGED local
    BY DEF TxStep, TxAccept, TxRefuse, TxStop, Lose, TxEnds
  <1>2. wire' \in [Task -> Datagrams]
    BY DEF TypeInv, TypeOK, TxStep, TxAccept, TxRefuse, TxStop, Lose, TxEnds, Datagrams
  <1>3. stream' \in [Task -> BOOLEAN]
    BY DEF TypeInv, TypeOK, TxStep, TxAccept, TxRefuse, TxStop, Lose, TxEnds
  <1> QED BY <1>1, <1>2, <1>3 DEF TypeInv, TypeOK, ProgressInv, HoldsSocket, local

\* Every step keeps the types.
LEMMA NextKeepsTypeInv == TypeInv /\ [Next]_vars => TypeInv'
  <1> SUFFICES ASSUME TypeInv, [Next]_vars PROVE TypeInv'
    OBVIOUS
  <1>1. CASE UNCHANGED vars
    BY <1>1 DEF vars, local, TypeInv, TypeOK, ProgressInv, HoldsSocket
  <1>2. CASE Next
    BY <1>2, ArcKeepsTypeInv, EstablishKeepsTypeInv, MediaKeepsTypeInv, TxKeepsTypeInv DEF Next
  <1> QED BY <1>1, <1>2

\* The state shared between the ARC task, the establish tasks and the media
\* thread is well typed in every behaviour, for any controller, any number of
\* attempts and a flow id counter that wraps.
THEOREM TypeCorrect == Spec => []TypeOK
  <1>1. Spec => []TypeInv
    BY InitTypeInv, NextKeepsTypeInv, PTL DEF Spec
  <1> QED BY <1>1, PTL DEF TypeInv

------------------------------------------------------------------------------
(* What a step leaves of the invariant's parts: the frames *)

\* A numbered task keeps its number and its channel and never goes back.
Forward ==
    \A j \in Task : task[j].fid # NoFlow =>
        /\ task'[j].fid = task[j].fid /\ task'[j].chan = task[j].chan
        /\ task[j].pc = "done" => task'[j].pc = "done"
        /\ task[j].pc \in {"add", "done"} => task'[j].pc \in {"add", "done"}
        /\ task[j].pc \in {"record", "add", "done"} => task'[j].pc \in {"record", "add", "done"}

NoNewRecord == \A j \in Task : task'[j].pc = "record" => task[j].pc = "record"
NoNewFlow   == \A c \in Chan : subs'[c].flow \in {subs[c].flow, NoFlow}
NoNewStop   == \A j \in Task : wire'[j] = "stop" => wire[j] = "stop"

\* No flow id is NoFlow.
LEMMA FlowIdsAreNumbers == \A f \in FlowIds : f # NoFlow
  BY ConstantsAssumption DEF FlowIds, NoFlow

\* A task that moves on moves forward.
LEMMA MoveForward ==
    ASSUME TypeInv, NEW k \in Task, NEW p \in {"bind", "record", "add", "done"},
           task[k].pc \notin {"idle", "done"},
           p = "bind" => task[k].pc = "resolve",
           p = "record" => task[k].pc = "wait", p = "add" => task[k].pc = "record",
           task' = [task EXCEPT ![k].pc = p]
    PROVE  /\ Forward
           /\ \A j \in Task : task'[j].fid = task[j].fid
           /\ p # "record" => NoNewRecord
  <1>1. task \in [Task -> Establish] BY DEF TypeInv, TypeOK
  <1>2. \A j \in Task : task'[j] = IF j = k THEN [task[k] EXCEPT !.pc = p] ELSE task[j]
    BY <1>1
  <1>3. /\ task[k] \in Establish
        /\ task'[k].fid = task[k].fid /\ task'[k].chan = task[k].chan /\ task'[k].pc = p
    BY <1>1, <1>2 DEF Establish
  <1>4. Forward
    BY <1>2, <1>3 DEF Forward, TypeInv, ProgressInv
  <1> QED BY <1>2, <1>3, <1>4 DEF NoNewRecord

\* IdsInv is about the numbers of the tasks and the counter only.
LEMMA IdsFrame ==
    ASSUME IdsInv, UNCHANGED nextFlowId, \A j \in Task : task'[j].fid = task[j].fid
    PROVE  IdsInv'
  <1>1. Numbered' = Numbered BY DEF Numbered
  <1> QED BY <1>1 DEF IdsInv, Numbered

\* FlowsInv survives a step that lists, records and names nothing new.
LEMMA FlowsFrame ==
    ASSUME TypeInv, TypeInv', FlowsInv, Forward, NoNewRecord, NoNewFlow, UNCHANGED rxFlows
    PROVE  FlowsInv'
  <1>1. ASSUME NEW i \in 1..Len(rxFlows')
        PROVE  \E k \in Task :
                  /\ task'[k].fid = rxFlows'[i].id /\ task'[k].pc \in {"record", "add", "done"}
                  /\ rxFlows'[i].handle \in {NoTask, k}
    <2>1. i \in 1..Len(rxFlows) /\ rxFlows[i] \in RxFlowInfo
      BY <1>1 DEF TypeInv, TypeOK
    <2>2. rxFlows[i].id # NoFlow
      BY <2>1, FlowIdsAreNumbers DEF RxFlowInfo
    <2> QED BY <2>1, <2>2 DEF FlowsInv, Forward
  <1>2. ASSUME NEW k \in Task, task'[k].pc = "record"
        PROVE  Listed(task[k].fid, task[k].chan)'
    <2>1. task[k].pc = "record" /\ task[k].fid # NoFlow
      BY <1>2 DEF NoNewRecord, TypeInv, ProgressInv, HoldsSocket
    <2>2. Listed(task[k].fid, task[k].chan) BY <2>1 DEF FlowsInv
    <2>3. task'[k].fid = task[k].fid /\ task'[k].chan = task[k].chan BY <2>1 DEF Forward
    <2> QED BY <2>2, <2>3 DEF Listed
  <1>3. ASSUME NEW c \in Chan, subs'[c].flow # NoFlow
        PROVE  /\ Listed(subs[c].flow, c)'
               /\ \E k \in Task : /\ task'[k].fid = subs'[c].flow /\ task'[k].chan = c
                                 /\ task'[k].pc \in {"add", "done"}
    <2>1. subs'[c].flow = subs[c].flow BY <1>3 DEF NoNewFlow
    <2>2. Listed(subs[c].flow, c)
      BY <1>3, <2>1 DEF FlowsInv
    <2>4. Listed(subs[c].flow, c)'
      BY <2>1, <2>2 DEF Listed
    <2>3. PICK k \in Task : /\ task[k].fid = subs[c].flow /\ task[k].chan = c
                            /\ task[k].pc \in {"add", "done"}
      BY <1>3, <2>1 DEF FlowsInv
    <2> QED BY <1>3, <2>1, <2>3, <2>4 DEF Forward
  <1> QED BY <1>1, <1>2, <1>3 DEF FlowsInv

\* A flow nobody wants stays unwanted unless it is recorded again.
LEMMA UnwantedFrame ==
    ASSUME Forward, NoNewFlow
    PROVE  \A f : f # NoFlow /\ Unwanted(f) =>
              /\ \E k \in Task : task'[k].fid = f /\ task'[k].pc \in {"add", "done"}
              /\ \A c \in Chan : subs'[c].flow # f
  BY DEF Forward, NoNewFlow, Unwanted

\* DoomedInv survives a step that dooms and names nothing new.
LEMMA DoomedFrame ==
    ASSUME DoomedInv, Forward, NoNewFlow, NoNewStop,
           arc'.pc = "stop" => arc' = arc,
           \A i \in 1..Len(cmds') : cmds'[i].op = "remove" => \E j \in 1..Len(cmds) : cmds[j] = cmds'[i]
    PROVE  DoomedInv'
  <1>1. arc'.pc = "stop" /\ arc'.fid # NoFlow => Unwanted(arc.fid)'
    <2> SUFFICES ASSUME arc'.pc = "stop", arc'.fid # NoFlow PROVE Unwanted(arc.fid)'
      OBVIOUS
    <2>1. arc' = arc /\ arc.fid # NoFlow /\ Unwanted(arc.fid) BY DEF DoomedInv
    <2>2. /\ \E k \in Task : task'[k].fid = arc.fid /\ task'[k].pc \in {"add", "done"}
          /\ \A c \in Chan : subs'[c].flow # arc.fid
      BY <2>1, UnwantedFrame
    <2> QED BY <2>1, <2>2 DEF Unwanted
  <1>2. ASSUME NEW i \in 1..Len(cmds'), cmds'[i].op = "remove"
        PROVE  cmds'[i].id # NoFlow /\ Unwanted(cmds[i].id)'
    <2>1. PICK j \in 1..Len(cmds) : cmds[j] = cmds'[i] BY <1>2
    <2>2. cmds[j].id # NoFlow /\ Unwanted(cmds[j].id) BY <1>2, <2>1 DEF DoomedInv
    <2>3. /\ \E k \in Task : task'[k].fid = cmds[j].id /\ task'[k].pc \in {"add", "done"}
          /\ \A c \in Chan : subs'[c].flow # cmds[j].id
      BY <2>2, UnwantedFrame
    <2>4. cmds'[i].id = cmds[j].id BY <2>1
    <2> QED BY <2>2, <2>3, <2>4 DEF Unwanted
  <1>3. ASSUME NEW k \in Task, wire'[k] = "stop"
        PROVE  task'[k].fid # NoFlow /\ Unwanted(task[k].fid)'
    <2>1. task[k].fid # NoFlow /\ Unwanted(task[k].fid)
      BY <1>3 DEF NoNewStop, DoomedInv
    <2>2. task'[k].fid = task[k].fid BY <2>1 DEF Forward
    <2>3. /\ \E m \in Task : task'[m].fid = task[k].fid /\ task'[m].pc \in {"add", "done"}
          /\ \A c \in Chan : subs'[c].flow # task[k].fid
      BY <2>1, UnwantedFrame
    <2> QED BY <2>1, <2>2, <2>3 DEF Unwanted
  <1> QED BY <1>1, <1>2, <1>3 DEF DoomedInv

\* A flow that was handed over stays handed over.
LEMMA HandedFrame ==
    ASSUME Forward
    PROVE  \A f, c : f # NoFlow /\ Handed(f, c) =>
              \E k \in Task : task'[k].fid = f /\ task'[k].chan = c /\ task'[k].pc = "done"
  BY DEF Forward, Handed

\* MediaInv survives a step that leaves the media thread and its channel alone.
LEMMA MediaFrame ==
    ASSUME MediaInv, Forward, UNCHANGED <<cmds, media, mediaUp>>
    PROVE  MediaInv'
  <1>1. ASSUME NEW i \in 1..Len(cmds), cmds[i].op = "add"
        PROVE  cmds[i].id # NoFlow /\ Handed(cmds[i].id, cmds[i].chan)'
    <2>1. cmds[i].id # NoFlow /\ Handed(cmds[i].id, cmds[i].chan) BY <1>1 DEF MediaInv
    <2> QED BY <2>1, HandedFrame DEF Handed
  <1>2. ASSUME NEW f \in FlowIds, media[f].on
        PROVE  Handed(f, media[f].chan)'
    <2>1. f # NoFlow /\ Handed(f, media[f].chan) BY <1>2, FlowIdsAreNumbers DEF MediaInv
    <2> QED BY <2>1, HandedFrame DEF Handed
  <1> QED BY <1>1, <1>2 DEF MediaInv

\* ReceivingIsLive survives a step that makes no channel receiving.
LEMMA ReceivingFrame ==
    ASSUME ReceivingIsLive, UNCHANGED <<media, mediaUp>>,
           \A c \in Chan : subs'[c].status = "receiving" =>
               subs[c].status = "receiving" /\ subs'[c].flow = subs[c].flow
    PROVE  ReceivingIsLive'
  BY DEF ReceivingIsLive

\* With the tasks unchanged nothing goes back.
LEMMA StillForward == ASSUME UNCHANGED task PROVE Forward /\ NoNewRecord
  BY DEF Forward, NoNewRecord

\* set_status names no flow and, but for "receiving", makes no channel receiving.
LEMMA SetStatusKeeps ==
    ASSUME TypeOK, NEW d, NEW s \in Statuses, s # "receiving", SetStatus(d, s)
    PROVE  /\ NoNewFlow
           /\ \A c \in Chan : subs'[c].status = "receiving" =>
                 subs[c].status = "receiving" /\ subs'[c].flow = subs[c].flow
  <1>1. \A c \in Chan : subs'[c] = IF c = d THEN [subs[c] EXCEPT !.status = s] ELSE subs[c]
    BY DEF SetStatus, TypeOK
  <1>2. \A c \in Chan : subs[c] \in RxSub
    BY DEF TypeOK
  <1>3. \A c \in Chan : subs'[c].flow = subs[c].flow /\ subs'[c].status \in {subs[c].status, s}
    BY <1>1, <1>2 DEF RxSub
  <1>4. \A c \in Chan : subs'[c].status = "receiving" => subs[c].status = "receiving"
    BY <1>3
  <1> QED BY <1>3, <1>4 DEF NoNewFlow

\* Two numbered tasks with the same number are the same.
LEMMA OneTask ==
    ASSUME IdsInv, NEW j \in Task, NEW k \in Task, task[j].fid # NoFlow, task[j].fid = task[k].fid
    PROVE  j = k
  BY DEF IdsInv, Numbered

------------------------------------------------------------------------------
(* The invariant *)

\* The initial state satisfies the invariant.
LEMMA InitSubscribeInv == Init => SubscribeInv
  <1> SUFFICES ASSUME Init PROVE SubscribeInv
    OBVIOUS
  <1>1. TypeOK /\ ProgressInv
    BY InitTypeInv DEF TypeInv
  <1>2. IdsInv
    <2>1. Numbered = {} BY DEF Init, Numbered, IdleTask
    <2>2. \A k \in Task : task[k].fid = -1 BY DEF Init, IdleTask, NoFlow
    <2> QED BY <2>1, <2>2, FS_EmptySet DEF IdsInv, Init
  <1>3. FlowsInv
    BY DEF Init, FlowsInv, IdleTask, DefaultSub
  <1>4. DoomedInv
    BY DEF Init, DoomedInv, IdleArc
  <1>5. MediaInv
    BY DEF Init, MediaInv, NoMediaFlow
  <1>6. ReceivingIsLive
    BY DEF Init, ReceivingIsLive, DefaultSub
  <1> QED BY <1>1, <1>2, <1>3, <1>4, <1>5, <1>6 DEF SubscribeInv

\* Requests to the ARC task, and its end, keep the invariant.
LEMMA RequestKeepsSubscribeInv ==
    ASSUME SubscribeInv, TypeInv',
           \/ \E c \in Chan : \E t \in Targets : Subscribe(c, t)
           \/ \E c \in Chan : Unsubscribe(c)
           \/ SpawnEstablish \/ AbortArc
    PROVE  SubscribeInv'
  <1>0. TypeInv /\ IdsInv /\ FlowsInv /\ DoomedInv /\ MediaInv /\ ReceivingIsLive
    BY DEF SubscribeInv, TypeInv
  <1>t. \A c \in Chan : subs[c] \in RxSub
    BY <1>0 DEF TypeInv, TypeOK
  <1>1. ASSUME NEW c \in Chan, NEW t \in Targets, Subscribe(c, t) PROVE SubscribeInv'
    <2>1. Forward /\ NoNewRecord
      BY <1>1, StillForward DEF Subscribe
    <2>2. \A d \in Chan : subs'[d] = IF d = c THEN [subs[d] EXCEPT !.tx = t, !.status = "unresolved"]
                                             ELSE subs[d]
      BY <1>0, <1>1 DEF Subscribe, TypeInv, TypeOK
    <2>3. \A d \in Chan : /\ subs'[d].flow = subs[d].flow
                          /\ subs'[d].status = "receiving" => subs[d].status = "receiving"
      BY <1>t, <2>2 DEF RxSub
    <2>4. NoNewFlow /\ NoNewStop
      BY <1>1, <2>3 DEF Subscribe, NoNewFlow, NoNewStop
    <2>5. IdsInv' BY <1>0, <1>1, IdsFrame DEF Subscribe
    <2>6. FlowsInv' BY <1>0, <1>1, <2>1, <2>4, FlowsFrame DEF Subscribe
    <2>7. DoomedInv' BY <1>0, <1>1, <2>1, <2>4, DoomedFrame DEF Subscribe, IdleArc
    <2>8. MediaInv' BY <1>0, <1>1, <2>1, MediaFrame DEF Subscribe
    <2>9. ReceivingIsLive' BY <1>0, <1>1, <2>3, ReceivingFrame DEF Subscribe
    <2> QED BY <2>5, <2>6, <2>7, <2>8, <2>9 DEF SubscribeInv, TypeInv
  <1>2. ASSUME NEW c \in Chan, Unsubscribe(c) PROVE SubscribeInv'
    <2>1. Forward /\ NoNewRecord
      BY <1>2, StillForward DEF Unsubscribe
    <2>2. \A d \in Chan : subs'[d] = IF d = c THEN DefaultSub ELSE subs[d]
      BY <1>0, <1>2 DEF Unsubscribe, TypeInv, TypeOK
    <2>3. \A d \in Chan : /\ subs'[d].flow \in {subs[d].flow, NoFlow}
                          /\ subs'[d].status = "receiving" =>
                                subs[d].status = "receiving" /\ subs'[d].flow = subs[d].flow
      BY <1>t, <2>2 DEF DefaultSub
    <2>4. NoNewFlow /\ NoNewStop
      BY <1>2, <2>3 DEF Unsubscribe, NoNewFlow, NoNewStop
    <2>5. IdsInv' BY <1>0, <1>2, IdsFrame DEF Unsubscribe
    <2>6. FlowsInv' BY <1>0, <1>2, <2>1, <2>4, FlowsFrame DEF Unsubscribe
    <2>7. DoomedInv'
      <3>1. arc'.pc = "stop" /\ arc'.fid = subs[c].flow
        BY <1>2 DEF Unsubscribe, IdleArc
      <3>2. arc'.fid # NoFlow => Unwanted(arc.fid)'
        <4> SUFFICES ASSUME subs[c].flow # NoFlow
                     PROVE  /\ \E k \in Task : /\ task'[k].fid = subs[c].flow
                                               /\ task'[k].pc \in {"add", "done"}
                            /\ \A d \in Chan : subs'[d].flow # subs[c].flow
          BY <3>1 DEF Unwanted
        <4>1. PICK k \in Task : /\ task[k].fid = subs[c].flow /\ task[k].chan = c
                                /\ task[k].pc \in {"add", "done"}
          BY <1>0 DEF FlowsInv
        <4>2. ASSUME NEW d \in Chan, d # c, subs[d].flow = subs[c].flow PROVE FALSE
          <5>1. PICK j \in Task : task[j].fid = subs[d].flow /\ task[j].chan = d
            BY <1>0, <4>2 DEF FlowsInv
          <5>2. j = k BY <1>0, <4>1, <4>2, <5>1, OneTask
          <5> QED BY <4>1, <4>2, <5>1, <5>2
        <4>3. subs'[c].flow = NoFlow BY <2>2 DEF DefaultSub
        <4>4. \A d \in Chan : subs'[d].flow # subs[c].flow
          BY <2>2, <4>2, <4>3
        <4> QED BY <1>2, <4>1, <4>4 DEF Unsubscribe
      <3>3. \A i \in 1..Len(cmds) : cmds[i].op = "remove" => cmds[i].id # NoFlow /\ Unwanted(cmds[i].id)'
        <4> SUFFICES ASSUME NEW i \in 1..Len(cmds), cmds[i].op = "remove"
                     PROVE  cmds[i].id # NoFlow /\ Unwanted(cmds[i].id)'
          OBVIOUS
        <4>1. cmds[i].id # NoFlow /\ Unwanted(cmds[i].id) BY <1>0 DEF DoomedInv
        <4>2. cmds' = cmds BY <1>2 DEF Unsubscribe
        <4>3. /\ \E k \in Task : task'[k].fid = cmds[i].id /\ task'[k].pc \in {"add", "done"}
              /\ \A d \in Chan : subs'[d].flow # cmds[i].id
          BY <2>1, <2>4, <4>1, UnwantedFrame
        <4> QED BY <4>1, <4>2, <4>3 DEF Unwanted
      <3>4. \A k \in Task : wire[k] = "stop" => task[k].fid # NoFlow /\ Unwanted(task[k].fid)'
        <4> SUFFICES ASSUME NEW k \in Task, wire[k] = "stop"
                     PROVE  task[k].fid # NoFlow /\ Unwanted(task[k].fid)'
          OBVIOUS
        <4>1. task[k].fid # NoFlow /\ Unwanted(task[k].fid) BY <1>0 DEF DoomedInv
        <4>2. task' = task BY <1>2 DEF Unsubscribe
        <4>3. /\ \E m \in Task : task'[m].fid = task[k].fid /\ task'[m].pc \in {"add", "done"}
              /\ \A d \in Chan : subs'[d].flow # task[k].fid
          BY <2>1, <2>4, <4>1, UnwantedFrame
        <4> QED BY <4>1, <4>2, <4>3 DEF Unwanted
      <3>5. UNCHANGED <<cmds, wire, task>> BY <1>2 DEF Unsubscribe
      <3> QED BY <3>2, <3>3, <3>4, <3>5 DEF DoomedInv
    <2>8. MediaInv' BY <1>0, <1>2, <2>1, MediaFrame DEF Unsubscribe
    <2>9. ReceivingIsLive' BY <1>0, <1>2, <2>3, ReceivingFrame DEF Unsubscribe
    <2> QED BY <2>5, <2>6, <2>7, <2>8, <2>9 DEF SubscribeInv, TypeInv
  <1>3. CASE SpawnEstablish
    <2>0. PICK k \in Task : Fresh(k) /\ task' = [task EXCEPT ![k] =
                 [IdleTask EXCEPT !.pc = "resolve", !.chan = arc.chan, !.tx = arc.tx]]
      BY <1>3 DEF SpawnEstablish
    <2>1. task[k].fid = NoFlow
      BY <1>0, <2>0 DEF Fresh, TypeInv, ProgressInv
    <2>2. \A j \in Task : task'[j] = IF j = k THEN [IdleTask EXCEPT !.pc = "resolve", !.chan = arc.chan, !.tx = arc.tx]
                                              ELSE task[j]
      BY <1>0, <2>0 DEF TypeInv, TypeOK
    <2>3. task'[k].fid = NoFlow /\ task'[k].pc = "resolve"
      BY <2>2 DEF IdleTask
    <2>4. Forward /\ NoNewRecord /\ \A j \in Task : task'[j].fid = task[j].fid
      BY <2>1, <2>2, <2>3 DEF Forward, NoNewRecord
    <2>5. NoNewFlow /\ NoNewStop
      BY <1>3 DEF SpawnEstablish, NoNewFlow, NoNewStop
    <2>6. IdsInv' BY <1>0, <1>3, <2>4, IdsFrame DEF SpawnEstablish
    <2>7. FlowsInv' BY <1>0, <1>3, <2>4, <2>5, FlowsFrame DEF SpawnEstablish
    <2>8. DoomedInv' BY <1>0, <1>3, <2>4, <2>5, DoomedFrame DEF SpawnEstablish, IdleArc
    <2>9. MediaInv' BY <1>0, <1>3, <2>4, MediaFrame DEF SpawnEstablish
    <2>10. ReceivingIsLive' BY <1>0, <1>3, ReceivingFrame DEF SpawnEstablish
    <2> QED BY <2>6, <2>7, <2>8, <2>9, <2>10 DEF SubscribeInv, TypeInv
  <1>4. CASE AbortArc
    <2>1. Forward /\ NoNewRecord
      BY <1>4, StillForward DEF AbortArc
    <2>2. NoNewFlow /\ NoNewStop
      BY <1>4 DEF AbortArc, NoNewFlow, NoNewStop
    <2>3. IdsInv' BY <1>0, <1>4, IdsFrame DEF AbortArc
    <2>4. FlowsInv' BY <1>0, <1>4, <2>1, <2>2, FlowsFrame DEF AbortArc
    <2>5. DoomedInv' BY <1>0, <1>4, <2>1, <2>2, DoomedFrame DEF AbortArc, IdleArc
    <2>6. MediaInv' BY <1>0, <1>4, <2>1, MediaFrame DEF AbortArc
    <2>7. ReceivingIsLive' BY <1>0, <1>4, ReceivingFrame DEF AbortArc
    <2> QED BY <2>3, <2>4, <2>5, <2>6, <2>7 DEF SubscribeInv, TypeInv
  <1> QED BY <1>1, <1>2, <1>3, <1>4

\* An entry appended to a sequence: what was there stays in place.
LEMMA AppendEntries ==
    ASSUME NEW S, NEW s \in Seq(S), NEW e \in S
    PROVE  /\ Append(s, e) \in Seq(S) /\ Len(Append(s, e)) = Len(s) + 1
           /\ \A i \in 1..Len(s) : Append(s, e)[i] = s[i]
           /\ Append(s, e)[Len(s) + 1] = e
           /\ Len(s) \in Nat
  OBVIOUS

\* The end of an unsubscribe keeps the invariant: what stop_flow takes away
\* and what it sends concern a flow that nobody wants.
LEMMA StopKeepsSubscribeInv ==
    ASSUME SubscribeInv, TypeInv', FinishUnsubscribe
    PROVE  SubscribeInv'
  <1>0. TypeInv /\ IdsInv /\ FlowsInv /\ DoomedInv /\ MediaInv /\ ReceivingIsLive
    BY DEF SubscribeInv, TypeInv
  <1>1. Forward /\ NoNewRecord
    BY StillForward DEF FinishUnsubscribe
  <1>2. NoNewFlow
    BY DEF FinishUnsubscribe, NoNewFlow
  <1>3. IdsInv' BY <1>0, IdsFrame DEF FinishUnsubscribe
  <1>4. ReceivingIsLive' BY <1>0, ReceivingFrame DEF FinishUnsubscribe
  <1>5. CASE arc.fid = NoFlow
    <2>1. UNCHANGED <<rxFlows, cmds, wire>> /\ NoNewStop /\ arc'.pc = "idle"
      BY <1>5 DEF FinishUnsubscribe, NoNewStop, IdleArc
    <2>2. FlowsInv' BY <1>0, <1>1, <1>2, <2>1, FlowsFrame
    <2>3. DoomedInv' BY <1>0, <1>1, <1>2, <2>1, DoomedFrame
    <2>4. MediaInv' BY <1>0, <1>1, <2>1, MediaFrame DEF FinishUnsubscribe
    <2> QED BY <1>3, <1>4, <2>2, <2>3, <2>4 DEF SubscribeInv, TypeInv
  <1>6. CASE arc.fid # NoFlow
    <2> DEFINE f == arc.fid
               stop == [op |-> "remove", id |-> f, chan |-> 0, port |-> NoPort]
    <2>1. /\ StopFlow(f) /\ arc' = IdleArc /\ arc.pc = "stop"
          /\ UNCHANGED <<subs, task, media, mediaUp>>
      BY <1>6 DEF FinishUnsubscribe
    <2>2. f \in FlowIds /\ f # NoFlow /\ Unwanted(f)
      BY <1>0, <1>6, <2>1 DEF TypeInv, TypeOK, ArcTask, DoomedInv
    <2>3. stop \in Command
      BY <2>2 DEF Command
    <2>4. cmds' = IF mediaUp THEN Append(cmds, stop) ELSE cmds
      BY <2>1 DEF StopFlow, Send
    <2>5. cmds \in Seq(Command) /\ rxFlows \in Seq(RxFlowInfo) /\ wire \in [Task -> Datagrams]
      BY <1>0 DEF TypeInv, TypeOK
    <2>6. /\ Len(cmds') \in Nat /\ Len(cmds) \in Nat
          /\ \A i \in 1..Len(cmds') : cmds'[i] = stop \/ (i \in 1..Len(cmds) /\ cmds'[i] = cmds[i])
      BY <2>3, <2>4, <2>5, AppendEntries
    <2>7. \/ UNCHANGED <<rxFlows, wire>>
          \/ \E i \in 1..Len(rxFlows) :
                rxFlows[i].id = f /\ rxFlows' = RemoveAt(rxFlows, i) /\ SendStop(i)
      BY <2>1 DEF StopFlow, IsPosition
    <2>8. /\ \A j \in 1..Len(rxFlows') : \E m \in 1..Len(rxFlows) : rxFlows'[j] = rxFlows[m]
          /\ \A m \in 1..Len(rxFlows) : rxFlows[m].id # f =>
                \E j \in 1..Len(rxFlows') : rxFlows'[j] = rxFlows[m]
      <3>1. CASE UNCHANGED <<rxFlows, wire>>
        BY <3>1
      <3>2. ASSUME NEW i \in 1..Len(rxFlows), rxFlows[i].id = f, rxFlows' = RemoveAt(rxFlows, i)
            PROVE  /\ \A j \in 1..Len(rxFlows') : \E m \in 1..Len(rxFlows) : rxFlows'[j] = rxFlows[m]
                   /\ \A m \in 1..Len(rxFlows) : rxFlows[m].id # f =>
                         \E j \in 1..Len(rxFlows') : rxFlows'[j] = rxFlows[m]
        BY <2>5, <3>2, RemoveAtEntries
      <3> QED BY <2>7, <3>1, <3>2
    <2>9. FlowsInv'
      <3>1. \A g, c : g # f /\ Listed(g, c) =>
               \E j \in 1..Len(rxFlows') : rxFlows'[j].id = g /\ rxFlows'[j].chan = c
        BY <2>8 DEF Listed
      <3>2. ASSUME NEW k \in Task, task[k].pc = "record" PROVE task[k].fid # f
        <4>1. PICK j \in Task : task[j].fid = f /\ task[j].pc \in {"add", "done"}
          BY <2>2 DEF Unwanted
        <4> QED BY <1>0, <2>2, <3>2, <4>1, OneTask
      <3>3. \A c \in Chan : subs[c].flow # f
        BY <2>2 DEF Unwanted
      <3>4. \A j \in 1..Len(rxFlows') : \E k \in Task :
              /\ task[k].fid = rxFlows'[j].id /\ task[k].pc \in {"record", "add", "done"}
              /\ rxFlows'[j].handle \in {NoTask, k}
        BY <1>0, <2>8 DEF FlowsInv
      <3>5. ASSUME NEW k \in Task, task[k].pc = "record" PROVE Listed(task[k].fid, task[k].chan)'
        <4>1. Listed(task[k].fid, task[k].chan) BY <1>0, <3>5 DEF FlowsInv
        <4>2. \E j \in 1..Len(rxFlows') : rxFlows'[j].id = task[k].fid /\ rxFlows'[j].chan = task[k].chan
          BY <3>1, <3>2, <3>5, <4>1
        <4> QED BY <2>1, <4>2 DEF Listed
      <3>6. ASSUME NEW c \in Chan, subs[c].flow # NoFlow
            PROVE  /\ Listed(subs[c].flow, c)'
                   /\ \E k \in Task : /\ task[k].fid = subs[c].flow /\ task[k].chan = c
                                     /\ task[k].pc \in {"add", "done"}
        <4>1. Listed(subs[c].flow, c) BY <1>0, <3>6 DEF FlowsInv
        <4>2. \E j \in 1..Len(rxFlows') : rxFlows'[j].id = subs[c].flow /\ rxFlows'[j].chan = c
          BY <3>1, <3>3, <4>1
        <4>3. \E k \in Task : /\ task[k].fid = subs[c].flow /\ task[k].chan = c
                             /\ task[k].pc \in {"add", "done"}
          BY <1>0, <3>6 DEF FlowsInv
        <4> QED BY <2>1, <4>2, <4>3 DEF Listed
      <3> QED BY <2>1, <3>4, <3>5, <3>6 DEF FlowsInv
    <2>10. DoomedInv'
      <3>1. arc'.pc = "idle" BY <2>1 DEF IdleArc
      <3>2. \A g : Unwanted(g) => /\ \E k \in Task : task'[k].fid = g /\ task'[k].pc \in {"add", "done"}
                                  /\ \A c \in Chan : subs'[c].flow # g
        BY <2>1 DEF Unwanted
      <3>3. \A i \in 1..Len(cmds') : cmds'[i].op = "remove" => cmds'[i].id # NoFlow /\ Unwanted(cmds[i].id)'
        <4> SUFFICES ASSUME NEW i \in 1..Len(cmds'), cmds'[i].op = "remove"
                     PROVE  cmds'[i].id # NoFlow /\ Unwanted(cmds[i].id)'
          OBVIOUS
        <4>1. cmds'[i].id # NoFlow /\ Unwanted(cmds'[i].id)
          BY <1>0, <2>2, <2>6 DEF DoomedInv
        <4> QED BY <3>2, <4>1 DEF Unwanted
      <3>4. ASSUME NEW k \in Task, wire'[k] = "stop"
            PROVE  task'[k].fid # NoFlow /\ Unwanted(task[k].fid)'
        <4>1. task[k].fid # NoFlow /\ Unwanted(task[k].fid)
          <5>1. CASE wire[k] = "stop" BY <1>0, <5>1 DEF DoomedInv
          <5>2. CASE wire[k] # "stop"
            <6>1. PICK i \in 1..Len(rxFlows) : rxFlows[i].id = f /\ rxFlows[i].handle = k
              BY <2>7, <3>4, <5>2 DEF SendStop
            <6>2. k # NoTask BY DEF Task, NoTask
            <6>3. task[k].fid = f BY <1>0, <6>1, <6>2 DEF FlowsInv
            <6> QED BY <2>2, <6>3
          <5> QED BY <5>1, <5>2
        <4>2. task' = task BY <2>1
        <4> QED BY <3>2, <4>1, <4>2 DEF Unwanted
      <3> QED BY <3>1, <3>3, <3>4 DEF DoomedInv
    <2>11. MediaInv'
      <3>1. ~mediaUp' => cmds' = <<>>
        BY <1>0, <2>1, <2>4 DEF MediaInv
      <3>2. \A i \in 1..Len(cmds') : cmds'[i].op = "add" => i \in 1..Len(cmds) /\ cmds'[i] = cmds[i]
        BY <2>6
      <3>3. \A i \in 1..Len(cmds') : cmds'[i].op = "add" =>
              /\ cmds'[i].id # NoFlow /\ Handed(cmds'[i].id, cmds'[i].chan)
              /\ ~media[cmds'[i].id].on
              /\ \A j \in 1..Len(cmds') : cmds'[j].op = "add" /\ cmds'[j].id = cmds'[i].id => j = i
        <4> SUFFICES ASSUME NEW i \in 1..Len(cmds'), cmds'[i].op = "add"
                     PROVE  /\ cmds'[i].id # NoFlow /\ Handed(cmds'[i].id, cmds'[i].chan)
                            /\ ~media[cmds'[i].id].on
                            /\ \A j \in 1..Len(cmds') :
                                  cmds'[j].op = "add" /\ cmds'[j].id = cmds'[i].id => j = i
          OBVIOUS
        <4>1. i \in 1..Len(cmds) /\ cmds'[i] = cmds[i] /\ cmds[i].op = "add" BY <3>2
        <4>2. /\ cmds[i].id # NoFlow /\ Handed(cmds[i].id, cmds[i].chan)
              /\ ~media[cmds[i].id].on
              /\ \A j \in 1..Len(cmds) : cmds[j].op = "add" /\ cmds[j].id = cmds[i].id => j = i
          BY <1>0, <4>1 DEF MediaInv
        <4> QED BY <3>2, <4>1, <4>2
      <3>4. \A g, c : Handed(g, c) => \E k \in Task : /\ task'[k].fid = g /\ task'[k].chan = c
                                                      /\ task'[k].pc = "done"
        BY <2>1 DEF Handed
      <3>5. ASSUME NEW i \in 1..Len(cmds'), cmds'[i].op = "add"
            PROVE  Handed(cmds[i].id, cmds[i].chan)'
        <4>1. Handed(cmds'[i].id, cmds'[i].chan) BY <3>3, <3>5
        <4>2. \E k \in Task : /\ task'[k].fid = cmds'[i].id /\ task'[k].chan = cmds'[i].chan
                              /\ task'[k].pc = "done"
          BY <3>4, <4>1
        <4> QED BY <4>2 DEF Handed
      <3>6. \A g \in FlowIds : media[g].on => Handed(g, media[g].chan)'
        BY <1>0, <2>1, <3>4 DEF MediaInv, Handed
      <3> QED BY <2>1, <3>1, <3>3, <3>5, <3>6 DEF MediaInv
    <2> QED BY <1>3, <1>4, <2>9, <2>10, <2>11 DEF SubscribeInv, TypeInv
  <1> QED BY <1>5, <1>6

------------------------------------------------------------------------------
(* The establish tasks keep the invariant *)

\* Steps that only move a task on and set a status: the attempt goes to the
\* next phase or gives up.
LEMMA MoveKeepsSubscribeInv ==
    ASSUME SubscribeInv, TypeInv', NEW k \in Task,
           \/ Incomplete(k) \/ ResolveFails(k) \/ ResolveOk(k) \/ BindFails(k) \/ RequestFails(k)
    PROVE  SubscribeInv'
  <1>0. TypeInv /\ IdsInv /\ FlowsInv /\ DoomedInv /\ MediaInv /\ ReceivingIsLive
    BY DEF SubscribeInv, TypeInv
  <1>1. PICK p \in {"bind", "done"} :
          /\ task' = [task EXCEPT ![k].pc = p]
          /\ p = "bind" => task[k].pc = "resolve"
          /\ task[k].pc \notin {"idle", "done"}
    BY DEF Incomplete, ResolveFails, ResolveOk, Resolving, BindFails, RequestFails
  <1>2. Forward /\ NoNewRecord /\ \A j \in Task : task'[j].fid = task[j].fid
    BY <1>0, <1>1, MoveForward
  <1>3. /\ UNCHANGED <<arc, nextFlowId, rxFlows, cmds, media, mediaUp>>
        /\ UNCHANGED subs \/ \E s \in Statuses : s # "receiving" /\ SetStatus(task[k].chan, s)
    BY DEF Incomplete, ResolveFails, ResolveOk, Resolving, BindFails, RequestFails, Statuses
  <1>4. /\ NoNewFlow
        /\ \A c \in Chan : subs'[c].status = "receiving" =>
              subs[c].status = "receiving" /\ subs'[c].flow = subs[c].flow
    <2>1. CASE UNCHANGED subs BY <2>1 DEF NoNewFlow
    <2>2. CASE \E s \in Statuses : s # "receiving" /\ SetStatus(task[k].chan, s)
      BY <1>0, <2>2, SetStatusKeeps DEF TypeInv
    <2> QED BY <1>3, <2>1, <2>2
  <1>5. NoNewStop
    <2>1. wire \in [Task -> Datagrams] BY <1>0 DEF TypeInv, TypeOK
    <2> QED BY <2>1 DEF Incomplete, ResolveFails, ResolveOk, Resolving, BindFails, RequestFails, NoNewStop
  <1>6. IdsInv' BY <1>0, <1>2, <1>3, IdsFrame
  <1>7. FlowsInv' BY <1>0, <1>2, <1>3, <1>4, FlowsFrame
  <1>8. DoomedInv' BY <1>0, <1>2, <1>3, <1>4, <1>5, DoomedFrame
  <1>9. MediaInv' BY <1>0, <1>2, <1>3, MediaFrame
  <1>10. ReceivingIsLive' BY <1>0, <1>3, <1>4, ReceivingFrame
  <1> QED BY <1>6, <1>7, <1>8, <1>9, <1>10 DEF SubscribeInv, TypeInv

\* Drawing a flow id: it is new as long as the counter has not wrapped.
LEMMA BindKeepsSubscribeInv ==
    ASSUME IdsSuffice, SubscribeInv, TypeInv', NEW k \in Task, BindAndRequest(k)
    PROVE  SubscribeInv'
  <1>0. TypeInv /\ IdsInv /\ FlowsInv /\ DoomedInv /\ MediaInv /\ ReceivingIsLive
    BY DEF SubscribeInv, TypeInv
  <1>1. PICK p : task' = [task EXCEPT ![k].pc = "wait", ![k].port = p, ![k].fid = nextFlowId]
    BY DEF BindAndRequest
  <1>2. task \in [Task -> Establish] /\ nextFlowId \in FlowIds /\ wire \in [Task -> Datagrams]
    BY <1>0 DEF TypeInv, TypeOK
  <1>3. task[k].pc = "bind" /\ task[k].fid = NoFlow
    BY <1>0 DEF BindAndRequest, TypeInv, ProgressInv
  <1>4. /\ \A j \in Task : j # k => task'[j] = task[j]
        /\ task'[k].pc = "wait" /\ task'[k].fid = nextFlowId /\ task'[k].chan = task[k].chan
    BY <1>1, <1>2 DEF Establish
  <1>5. Forward /\ NoNewRecord
    BY <1>3, <1>4 DEF Forward, NoNewRecord
  <1>6. NoNewFlow /\ NoNewStop
    BY <1>2 DEF BindAndRequest, NoNewFlow, NoNewStop
  <1>7. IdsInv'
    <2>1. nextFlowId # NoFlow BY <1>2, FlowIdsAreNumbers
    <2>2. Numbered' = Numbered \cup {k} /\ k \notin Numbered
      BY <1>3, <1>4, <2>1 DEF Numbered
    <2>3. IsFiniteSet(Task) /\ Cardinality(Task) = MaxTasks
      BY ConstantsAssumption, FS_Interval DEF Task
    <2>4. IsFiniteSet(Numbered)
      BY <2>3, FS_Subset DEF Numbered
    <2>5. IsFiniteSet(Numbered') /\ Cardinality(Numbered') = Cardinality(Numbered) + 1
      BY <2>2, <2>4, FS_AddElement
    <2>6. Cardinality(Numbered') <= MaxTasks
      <3>1. Numbered' \in SUBSET Task BY DEF Numbered
      <3> QED BY <2>3, <3>1, FS_Subset
    <2>7. nextFlowId = Cardinality(Numbered) + 1 /\ Cardinality(Numbered) \in Nat
      BY <1>0, <2>4, FS_CardinalityType DEF IdsInv
    <2>8. nextFlowId' = nextFlowId + 1
      <3>1. nextFlowId + 1 \in 0..IdMod - 1
        BY <2>5, <2>6, <2>7, ConstantsAssumption DEF IdsSuffice
      <3>2. (nextFlowId + 1) % IdMod = nextFlowId + 1
        BY <3>1, ConstantsAssumption
      <3> QED BY <3>2 DEF BindAndRequest
    <2>9. nextFlowId' = Cardinality(Numbered') + 1
      BY <2>5, <2>7, <2>8
    <2>10. \A j \in Task : task[j].fid \in Int /\ task[j].fid < nextFlowId
      BY <1>0, <1>2, ConstantsAssumption DEF IdsInv, Establish, FlowIds, NoFlow
    <2>11. \A j \in Task : task'[j].fid < nextFlowId'
      BY <1>4, <2>7, <2>8, <2>10
    <2>12. \A i, j \in Numbered' : task'[i].fid = task'[j].fid => i = j
      <3> SUFFICES ASSUME NEW i \in Numbered', NEW j \in Numbered', task'[i].fid = task'[j].fid, i # j
                   PROVE  FALSE
        OBVIOUS
      <3>1. i \in Task /\ j \in Task BY DEF Numbered
      <3>2. CASE i # k /\ j # k BY <1>0, <1>4, <2>2, <3>1, <3>2 DEF IdsInv
      <3>3. CASE i = k \/ j = k
        <4>1. PICK m \in Task : task[m].fid = nextFlowId BY <1>4, <3>1, <3>3
        <4> QED BY <2>7, <2>10, <4>1
      <3> QED BY <3>2, <3>3
    <2> QED BY <2>9, <2>11, <2>12 DEF IdsInv
  <1>8. FlowsInv' BY <1>0, <1>5, <1>6, FlowsFrame DEF BindAndRequest
  <1>9. DoomedInv' BY <1>0, <1>5, <1>6, DoomedFrame DEF BindAndRequest
  <1>10. MediaInv' BY <1>0, <1>5, MediaFrame DEF BindAndRequest
  <1>11. ReceivingIsLive' BY <1>0, ReceivingFrame DEF BindAndRequest
  <1> QED BY <1>7, <1>8, <1>9, <1>10, <1>11 DEF SubscribeInv, TypeInv

\* A reply pushes the flow to rx_flows: it is listed, and listed with the
\* handle of its own attempt.
LEMMA ReplyKeepsSubscribeInv ==
    ASSUME SubscribeInv, TypeInv', NEW k \in Task, ReplyArrives(k)
    PROVE  SubscribeInv'
  <1>0. TypeInv /\ IdsInv /\ FlowsInv /\ DoomedInv /\ MediaInv /\ ReceivingIsLive
    BY DEF SubscribeInv, TypeInv
  <1> DEFINE e == [id |-> task[k].fid, chan |-> task[k].chan, port |-> task[k].port,
                   handle |-> IF wire[k] = "ok" THEN k ELSE NoTask]
  <1>1. /\ task \in [Task -> Establish] /\ wire \in [Task -> Datagrams]
        /\ rxFlows \in Seq(RxFlowInfo)
    BY <1>0 DEF TypeInv, TypeOK
  <1>2. /\ task' = [task EXCEPT ![k].pc = "record"] /\ task[k].pc = "wait"
        /\ rxFlows' = Append(rxFlows, e)
        /\ UNCHANGED <<subs, arc, nextFlowId, cmds, media, mediaUp>>
    BY DEF ReplyArrives
  <1>3. Forward /\ \A j \in Task : task'[j].fid = task[j].fid
    BY <1>0, <1>2, MoveForward
  <1>4. NoNewFlow /\ NoNewStop
    BY <1>1 DEF ReplyArrives, NoNewFlow, NoNewStop
  <1>5. /\ \A j \in Task : j # k => task'[j] = task[j]
        /\ task'[k].pc = "record" /\ task'[k].chan = task[k].chan
    BY <1>1, <1>2 DEF Establish
  <1>6. e \in RxFlowInfo
    <2>1. task[k] \in Establish /\ task[k].chan \in Chan /\ task[k].fid # NoFlow /\ task[k].port # NoPort
      BY <1>0, <1>1, <1>2 DEF TypeInv, ProgressInv, HoldsSocket
    <2> QED BY <2>1 DEF Establish, RxFlowInfo
  <1>7. /\ Len(rxFlows') = Len(rxFlows) + 1 /\ Len(rxFlows) \in Nat
        /\ \A i \in 1..Len(rxFlows) : rxFlows'[i] = rxFlows[i]
        /\ rxFlows'[Len(rxFlows) + 1] = e
    BY <1>1, <1>2, <1>6, AppendEntries
  <1>8. FlowsInv'
    <2>1. \A g, c : Listed(g, c) =>
             \E i \in 1..Len(rxFlows') : rxFlows'[i].id = g /\ rxFlows'[i].chan = c
      BY <1>7 DEF Listed
    <2>2. ASSUME NEW i \in 1..Len(rxFlows')
          PROVE  \E j \in Task :
                    /\ task'[j].fid = rxFlows'[i].id /\ task'[j].pc \in {"record", "add", "done"}
                    /\ rxFlows'[i].handle \in {NoTask, j}
      <3>1. CASE i \in 1..Len(rxFlows)
        <4>1. PICK j \in Task : /\ task[j].fid = rxFlows[i].id
                                /\ task[j].pc \in {"record", "add", "done"}
                                /\ rxFlows[i].handle \in {NoTask, j}
          BY <1>0, <3>1 DEF FlowsInv
        <4>2. j # k BY <1>2, <4>1
        <4> QED BY <1>5, <1>7, <3>1, <4>1, <4>2
      <3>2. CASE i = Len(rxFlows) + 1
        <4>1. /\ task'[k].fid = e.id /\ task'[k].pc = "record" /\ e.handle \in {NoTask, k}
          BY <1>3, <1>5
        <4> QED BY <1>7, <3>2, <4>1
      <3> QED BY <1>7, <3>1, <3>2
    <2>3. ASSUME NEW j \in Task, task'[j].pc = "record" PROVE Listed(task[j].fid, task[j].chan)'
      <3>1. CASE j = k
        <4>1. Len(rxFlows) + 1 \in 1..Len(rxFlows') BY <1>7
        <4>2. e.id = task'[k].fid /\ e.chan = task'[k].chan BY <1>3, <1>5
        <4> QED BY <1>7, <3>1, <4>1, <4>2 DEF Listed
      <3>2. CASE j # k
        <4>1. Listed(task[j].fid, task[j].chan) BY <1>0, <1>5, <2>3, <3>2 DEF FlowsInv
        <4>2. \E i \in 1..Len(rxFlows') : rxFlows'[i].id = task[j].fid /\ rxFlows'[i].chan = task[j].chan
          BY <2>1, <4>1
        <4> QED BY <1>5, <3>2, <4>2 DEF Listed
      <3> QED BY <3>1, <3>2
    <2>4. ASSUME NEW c \in Chan, subs'[c].flow # NoFlow
          PROVE  /\ Listed(subs[c].flow, c)'
                 /\ \E j \in Task : /\ task'[j].fid = subs'[c].flow /\ task'[j].chan = c
                                   /\ task'[j].pc \in {"add", "done"}
      <3>1. subs' = subs BY <1>2
      <3>2. PICK j \in Task : /\ task[j].fid = subs[c].flow /\ task[j].chan = c
                              /\ task[j].pc \in {"add", "done"}
        BY <1>0, <2>4, <3>1 DEF FlowsInv
      <3>3. task'[j] = task[j] BY <1>2, <1>5, <3>2
      <3>4. Listed(subs[c].flow, c) BY <1>0, <2>4, <3>1 DEF FlowsInv
      <3>5. \E i \in 1..Len(rxFlows') : rxFlows'[i].id = subs[c].flow /\ rxFlows'[i].chan = c
        BY <2>1, <3>4
      <3>6. Listed(subs[c].flow, c)' BY <3>1, <3>5 DEF Listed
      <3> QED BY <3>1, <3>2, <3>3, <3>6
    <2> QED BY <2>2, <2>3, <2>4 DEF FlowsInv
  <1>9. IdsInv' BY <1>0, <1>2, <1>3, IdsFrame
  <1>10. DoomedInv' BY <1>0, <1>2, <1>3, <1>4, DoomedFrame
  <1>11. MediaInv' BY <1>0, <1>2, <1>3, MediaFrame
  <1>12. ReceivingIsLive' BY <1>0, <1>2, ReceivingFrame
  <1> QED BY <1>8, <1>9, <1>10, <1>11, <1>12 DEF SubscribeInv, TypeInv

\* Recording the flow: it is listed already, and it is not one that anything
\* is on its way to stop, since a doomed flow has been recorded before.
LEMMA RecordKeepsSubscribeInv ==
    ASSUME SubscribeInv, TypeInv', NEW k \in Task, RecordFlow(k)
    PROVE  SubscribeInv'
  <1>0. TypeInv /\ IdsInv /\ FlowsInv /\ DoomedInv /\ MediaInv /\ ReceivingIsLive
    BY DEF SubscribeInv, TypeInv
  <1> DEFINE d == task[k].chan
             f == task[k].fid
  <1>1. /\ task \in [Task -> Establish] /\ subs \in [Chan -> RxSub]
        /\ d \in Chan /\ f # NoFlow /\ task[k].pc = "record"
    BY <1>0 DEF RecordFlow, TypeInv, TypeOK, ProgressInv, HoldsSocket
  <1>2. /\ task' = [task EXCEPT ![k].pc = "add"]
        /\ UNCHANGED <<arc, nextFlowId, rxFlows, cmds, media, mediaUp, wire>>
    BY DEF RecordFlow
  <1>3. Forward /\ NoNewRecord /\ \A j \in Task : task'[j].fid = task[j].fid
    BY <1>0, <1>1, <1>2, MoveForward
  <1>4. /\ \A j \in Task : j # k => task'[j] = task[j]
        /\ task'[k].pc = "add" /\ task'[k].chan = d
    BY <1>1, <1>2 DEF Establish
  <1>5. /\ subs'[d].flow = f /\ subs'[d].status = "establishing"
        /\ \A c \in Chan : c # d => subs'[c] = subs[c]
    BY <1>1 DEF RecordFlow, RxSub
  <1>6. FlowsInv'
    <2>0. UNCHANGED rxFlows BY <1>2
    <2>1. ASSUME NEW i \in 1..Len(rxFlows')
          PROVE  \E j \in Task :
                    /\ task'[j].fid = rxFlows'[i].id /\ task'[j].pc \in {"record", "add", "done"}
                    /\ rxFlows'[i].handle \in {NoTask, j}
      <3>1. PICK j \in Task : /\ task[j].fid = rxFlows[i].id
                              /\ task[j].pc \in {"record", "add", "done"}
                              /\ rxFlows[i].handle \in {NoTask, j}
        BY <1>0, <2>0 DEF FlowsInv
      <3>2. task'[j].fid = task[j].fid /\ task'[j].pc \in {"record", "add", "done"}
        BY <1>3, <1>4, <3>1
      <3> QED BY <2>0, <3>1, <3>2
    <2>2. ASSUME NEW j \in Task, task'[j].pc = "record" PROVE Listed(task[j].fid, task[j].chan)'
      <3>1. j # k /\ task'[j] = task[j] BY <1>4, <2>2
      <3>2. Listed(task[j].fid, task[j].chan) BY <1>0, <2>2, <3>1 DEF FlowsInv
      <3> QED BY <2>0, <3>1, <3>2 DEF Listed
    <2>3. ASSUME NEW c \in Chan, subs'[c].flow # NoFlow
          PROVE  /\ Listed(subs[c].flow, c)'
                 /\ \E j \in Task : /\ task'[j].fid = subs'[c].flow /\ task'[j].chan = c
                                   /\ task'[j].pc \in {"add", "done"}
      <3>1. CASE c = d
        <4>1. Listed(f, d) BY <1>0, <1>1 DEF FlowsInv
        <4>2. Listed(subs[c].flow, c)' BY <1>5, <2>0, <3>1, <4>1 DEF Listed
        <4> QED BY <1>3, <1>4, <1>5, <3>1, <4>2
      <3>2. CASE c # d
        <4>1. subs'[c] = subs[c] BY <1>5, <3>2
        <4>2. PICK j \in Task : /\ task[j].fid = subs[c].flow /\ task[j].chan = c
                                /\ task[j].pc \in {"add", "done"}
          BY <1>0, <2>3, <4>1 DEF FlowsInv
        <4>3. task'[j] = task[j] BY <1>1, <1>4, <4>2
        <4>4. Listed(subs[c].flow, c) BY <1>0, <2>3, <4>1 DEF FlowsInv
        <4>5. Listed(subs[c].flow, c)' BY <2>0, <4>1, <4>4 DEF Listed
        <4> QED BY <4>1, <4>2, <4>3, <4>5
      <3> QED BY <3>1, <3>2
    <2> QED BY <2>1, <2>2, <2>3 DEF FlowsInv
  <1>7. DoomedInv'
    <2>1. ASSUME NEW g, g # NoFlow, Unwanted(g)
          PROVE  /\ \E j \in Task : task'[j].fid = g /\ task'[j].pc \in {"add", "done"}
                 /\ \A c \in Chan : subs'[c].flow # g
      <3>1. PICK j \in Task : task[j].fid = g /\ task[j].pc \in {"add", "done"}
        BY <2>1 DEF Unwanted
      <3>2. g # f BY <1>0, <1>1, <2>1, <3>1, OneTask
      <3>3. task'[j] = task[j] BY <1>1, <1>4, <3>1
      <3>4. \A c \in Chan : subs'[c].flow # g BY <1>5, <2>1, <3>2 DEF Unwanted
      <3> QED BY <3>1, <3>3, <3>4
    <2>2. arc'.pc = "stop" /\ arc'.fid # NoFlow => Unwanted(arc.fid)'
      <3> SUFFICES ASSUME arc'.pc = "stop", arc'.fid # NoFlow PROVE Unwanted(arc.fid)'
        OBVIOUS
      <3>1. arc' = arc /\ arc.fid # NoFlow /\ Unwanted(arc.fid) BY <1>0, <1>2 DEF DoomedInv
      <3> QED BY <2>1, <3>1 DEF Unwanted
    <2>3. ASSUME NEW i \in 1..Len(cmds'), cmds'[i].op = "remove"
          PROVE  cmds'[i].id # NoFlow /\ Unwanted(cmds[i].id)'
      <3>1. cmds' = cmds /\ cmds[i].id # NoFlow /\ Unwanted(cmds[i].id)
        BY <1>0, <1>2, <2>3 DEF DoomedInv
      <3> QED BY <2>1, <3>1 DEF Unwanted
    <2>4. ASSUME NEW j \in Task, wire'[j] = "stop"
          PROVE  task'[j].fid # NoFlow /\ Unwanted(task[j].fid)'
      <3>1. task[j].fid # NoFlow /\ Unwanted(task[j].fid) /\ task'[j].fid = task[j].fid
        BY <1>0, <1>2, <1>3, <2>4 DEF DoomedInv
      <3>2. /\ \E m \in Task : task'[m].fid = task[j].fid /\ task'[m].pc \in {"add", "done"}
            /\ \A c \in Chan : subs'[c].flow # task[j].fid
        BY <2>1, <3>1
      <3> QED BY <3>1, <3>2 DEF Unwanted
    <2> QED BY <2>2, <2>3, <2>4 DEF DoomedInv
  <1>8. IdsInv' BY <1>0, <1>2, <1>3, IdsFrame
  <1>9. MediaInv' BY <1>0, <1>2, <1>3, MediaFrame
  <1>10. ReceivingIsLive'
    <2>1. \A c \in Chan : subs'[c].status = "receiving" =>
             subs[c].status = "receiving" /\ subs'[c].flow = subs[c].flow
      BY <1>5
    <2> QED BY <1>0, <1>2, <2>1, ReceivingFrame
  <1> QED BY <1>6, <1>7, <1>8, <1>9, <1>10 DEF SubscribeInv, TypeInv

\* Handing the flow over: nobody has handed that flow over before, since the
\* task that does so is then done.
LEMMA AddKeepsSubscribeInv ==
    ASSUME SubscribeInv, TypeInv', NEW k \in Task, SendAddFlow(k)
    PROVE  SubscribeInv'
  <1>0. TypeInv /\ IdsInv /\ FlowsInv /\ DoomedInv /\ MediaInv /\ ReceivingIsLive
    BY DEF SubscribeInv, TypeInv
  <1> DEFINE f == task[k].fid
             e == [op |-> "add", id |-> f, chan |-> task[k].chan, port |-> task[k].port]
  <1>1. /\ task \in [Task -> Establish] /\ cmds \in Seq(Command)
        /\ task[k].chan \in Chan /\ f # NoFlow /\ task[k].port # NoPort /\ task[k].pc = "add"
    BY <1>0 DEF SendAddFlow, TypeInv, TypeOK, ProgressInv, HoldsSocket
  <1>2. /\ task' = [task EXCEPT ![k].pc = "done"]
        /\ cmds' = IF mediaUp THEN Append(cmds, e) ELSE cmds
        /\ UNCHANGED <<arc, nextFlowId, rxFlows, media, mediaUp, wire>>
    BY DEF SendAddFlow, Send
  <1>3. Forward /\ NoNewRecord /\ \A j \in Task : task'[j].fid = task[j].fid
    BY <1>0, <1>1, <1>2, MoveForward
  <1>4. task'[k].pc = "done" /\ task'[k].chan = task[k].chan
    BY <1>1, <1>2 DEF Establish
  <1>5. /\ NoNewFlow
        /\ \A c \in Chan : subs'[c].status = "receiving" =>
              subs[c].status = "receiving" /\ subs'[c].flow = subs[c].flow
    <2>1. CASE UNCHANGED subs BY <2>1 DEF NoNewFlow
    <2>2. CASE SetStatus(task[k].chan, "unresolved")
      BY <1>0, <2>2, SetStatusKeeps DEF TypeInv, Statuses
    <2> QED BY <2>1, <2>2 DEF SendAddFlow
  <1>6. e \in Command
    <2>1. task[k] \in Establish BY <1>1
    <2> QED BY <1>1, <2>1 DEF Command, Establish
  <1>7. /\ Len(cmds') \in Nat /\ Len(cmds) \in Nat
        /\ \A i \in 1..Len(cmds') :
              (i \in 1..Len(cmds) /\ cmds'[i] = cmds[i]) \/ (i = Len(cmds) + 1 /\ cmds'[i] = e)
    BY <1>1, <1>2, <1>6, AppendEntries
  <1>8. NoNewStop BY <1>2 DEF NoNewStop
  <1>9. \A i \in 1..Len(cmds') : cmds'[i].op = "remove" => \E j \in 1..Len(cmds) : cmds[j] = cmds'[i]
    BY <1>7
  <1>10. MediaInv'
    <2>1. \A c : ~Handed(f, c)
      BY <1>0, <1>1, OneTask DEF Handed
    <2>2. f \in FlowIds
      BY <1>1 DEF Establish
    <2>3. ~media[f].on
      BY <1>0, <2>1, <2>2 DEF MediaInv
    <2>4. \A i \in 1..Len(cmds) : cmds[i].op = "add" => cmds[i].id # f
      BY <1>0, <2>1 DEF MediaInv
    <2>5. ~mediaUp' => cmds' = <<>>
      BY <1>0, <1>2 DEF MediaInv
    <2>6. ASSUME NEW i \in 1..Len(cmds'), cmds'[i].op = "add"
          PROVE  /\ cmds'[i].id # NoFlow /\ Handed(cmds[i].id, cmds[i].chan)'
                 /\ ~media'[cmds'[i].id].on
                 /\ \A j \in 1..Len(cmds') : cmds'[j].op = "add" /\ cmds'[j].id = cmds'[i].id => j = i
      <3>1. CASE i \in 1..Len(cmds) /\ cmds'[i] = cmds[i]
        <4>1. /\ cmds[i].id # NoFlow /\ Handed(cmds[i].id, cmds[i].chan) /\ ~media[cmds[i].id].on
              /\ \A j \in 1..Len(cmds) : cmds[j].op = "add" /\ cmds[j].id = cmds[i].id => j = i
          BY <1>0, <2>6, <3>1 DEF MediaInv
        <4>2. cmds[i].id # f BY <2>4, <2>6, <3>1
        <4>3. Handed(cmds[i].id, cmds[i].chan)'
          BY <1>3, <3>1, <4>1, HandedFrame DEF Handed
        <4>4. ASSUME NEW j \in 1..Len(cmds'), cmds'[j].op = "add", cmds'[j].id = cmds'[i].id PROVE j = i
          <5>1. cmds'[j] # e BY <3>1, <4>2, <4>4
          <5>2. j \in 1..Len(cmds) /\ cmds'[j] = cmds[j] BY <1>7, <5>1
          <5> QED BY <3>1, <4>1, <4>4, <5>2
        <4> QED BY <1>2, <3>1, <4>1, <4>3, <4>4
      <3>2. CASE i = Len(cmds) + 1 /\ cmds'[i] = e
        <4>1. Handed(cmds[i].id, cmds[i].chan)'
          BY <1>3, <1>4, <3>2 DEF Handed
        <4>2. ASSUME NEW j \in 1..Len(cmds'), cmds'[j].op = "add", cmds'[j].id = cmds'[i].id PROVE j = i
          <5>1. ~(j \in 1..Len(cmds) /\ cmds'[j] = cmds[j]) BY <2>4, <3>2, <4>2
          <5> QED BY <1>7, <3>2, <5>1
        <4> QED BY <1>1, <1>2, <2>3, <3>2, <4>1, <4>2
      <3> QED BY <1>7, <3>1, <3>2
    <2>7. ASSUME NEW g \in FlowIds, media'[g].on PROVE Handed(g, media[g].chan)'
      <3>1. media' = media /\ g # NoFlow /\ Handed(g, media[g].chan)
        BY <1>0, <1>2, <2>7, FlowIdsAreNumbers DEF MediaInv
      <3> QED BY <1>3, <3>1, HandedFrame DEF Handed
    <2> QED BY <2>5, <2>6, <2>7 DEF MediaInv
  <1>11. IdsInv' BY <1>0, <1>2, <1>3, IdsFrame
  <1>12. FlowsInv' BY <1>0, <1>2, <1>3, <1>5, FlowsFrame
  <1>13. DoomedInv' BY <1>0, <1>2, <1>3, <1>5, <1>8, <1>9, DoomedFrame
  <1>14. ReceivingIsLive' BY <1>0, <1>2, <1>5, ReceivingFrame
  <1> QED BY <1>10, <1>11, <1>12, <1>13, <1>14 DEF SubscribeInv, TypeInv

------------------------------------------------------------------------------
(* The media thread and the network keep the invariant *)

\* What a step of the media thread does not concern.
LEMMA MediaSideFrame ==
    ASSUME SubscribeInv, TypeInv', NoNewFlow,
           UNCHANGED <<arc, task, nextFlowId, rxFlows, wire>>,
           \A i \in 1..Len(cmds') : cmds'[i].op = "remove" => \E j \in 1..Len(cmds) : cmds[j] = cmds'[i]
    PROVE  IdsInv' /\ FlowsInv' /\ DoomedInv'
  <1>0. TypeInv /\ IdsInv /\ FlowsInv /\ DoomedInv
    BY DEF SubscribeInv, TypeInv
  <1>1. Forward /\ NoNewRecord BY StillForward
  <1>2. NoNewStop BY DEF NoNewStop
  <1>3. IdsInv' BY <1>0, IdsFrame
  <1>4. FlowsInv' BY <1>0, <1>1, FlowsFrame
  <1>5. DoomedInv' BY <1>0, <1>1, <1>2, DoomedFrame
  <1> QED BY <1>3, <1>4, <1>5

\* The entries of a tail.
LEMMA TailEntries ==
    ASSUME NEW S, NEW s \in Seq(S), s # <<>>
    PROVE  /\ Len(Tail(s)) = Len(s) - 1 /\ Len(s) \in Nat /\ 1 \in 1..Len(s)
           /\ \A i \in 1..Len(Tail(s)) : Tail(s)[i] = s[i + 1] /\ i + 1 \in 1..Len(s)
           /\ Head(s) = s[1] /\ Head(s) \in S
  OBVIOUS

\* Taking a command keeps the invariant: an added flow was not there before,
\* and a removed one is nobody's.
LEMMA CommandKeepsSubscribeInv ==
    ASSUME SubscribeInv, TypeInv', MediaAdd \/ MediaRemove
    PROVE  SubscribeInv'
  <1>0. TypeInv /\ IdsInv /\ FlowsInv /\ DoomedInv /\ MediaInv /\ ReceivingIsLive
    BY DEF SubscribeInv, TypeInv
  <1> DEFINE h == cmds[1]
  <1>1. /\ cmds \in Seq(Command) /\ cmds # <<>> /\ cmds' = Tail(cmds)
        /\ media \in [FlowIds -> MediaFlow]
        /\ UNCHANGED <<subs, arc, task, nextFlowId, rxFlows, mediaUp, wire>> /\ mediaUp
    BY <1>0 DEF MediaAdd, MediaRemove, TypeInv, TypeOK
  <1>2. /\ Len(cmds') = Len(cmds) - 1 /\ Len(cmds) \in Nat /\ 1 \in 1..Len(cmds)
        /\ \A i \in 1..Len(cmds') : cmds'[i] = cmds[i + 1] /\ i + 1 \in 1..Len(cmds)
        /\ Head(cmds) = h /\ h \in Command
    BY <1>1, TailEntries
  <1>3. /\ NoNewFlow
        /\ \A i \in 1..Len(cmds') : cmds'[i].op = "remove" => \E j \in 1..Len(cmds) : cmds[j] = cmds'[i]
    BY <1>1, <1>2 DEF NoNewFlow
  <1>4. IdsInv' /\ FlowsInv' /\ DoomedInv'
    BY <1>1, <1>3, MediaSideFrame
  <1>5. h.id \in FlowIds /\ h.op \in {"add", "remove"}
    BY <1>2 DEF MediaAdd, MediaRemove, Command
  <1>6. \A g \in FlowIds : g # h.id => media'[g] = media[g]
    BY <1>1, <1>2 DEF MediaAdd, MediaRemove
  <1>7. h.op = "add" => media'[h.id].on /\ media'[h.id].chan = h.chan
    BY <1>1, <1>2, <1>5 DEF MediaAdd, MediaRemove
  <1>8. h.op = "remove" => ~media'[h.id].on
    BY <1>1, <1>2, <1>5 DEF MediaAdd, MediaRemove, NoMediaFlow
  <1>9. \A i \in 1..Len(cmds') : cmds'[i].op = "add" => cmds'[i].id \in FlowIds
    BY <1>1, <1>2 DEF Command
  <1>10. MediaInv'
    <2>1. \A g, c : Handed(g, c) <=> \E k \in Task : /\ task'[k].fid = g /\ task'[k].chan = c
                                                     /\ task'[k].pc = "done"
      BY <1>1 DEF Handed
    <2>2. ASSUME NEW i \in 1..Len(cmds'), cmds'[i].op = "add"
          PROVE  /\ cmds'[i].id # NoFlow /\ Handed(cmds[i].id, cmds[i].chan)'
                 /\ ~media'[cmds'[i].id].on
                 /\ \A j \in 1..Len(cmds') : cmds'[j].op = "add" /\ cmds'[j].id = cmds'[i].id => j = i
      <3>1. cmds'[i] = cmds[i + 1] /\ i + 1 \in 1..Len(cmds) /\ i + 1 # 1 /\ i \in Nat
        BY <1>2
      <3>2. /\ cmds'[i].id # NoFlow /\ Handed(cmds'[i].id, cmds'[i].chan)
            /\ ~media[cmds'[i].id].on
            /\ \A j \in 1..Len(cmds) : cmds[j].op = "add" /\ cmds[j].id = cmds'[i].id => j = i + 1
        BY <1>0, <2>2, <3>1 DEF MediaInv
      <3>3. Handed(cmds[i].id, cmds[i].chan)'
        <4>1. \E k \in Task : task'[k].fid = cmds'[i].id /\ task'[k].chan = cmds'[i].chan
                             /\ task'[k].pc = "done"
          BY <2>1, <3>2
        <4> QED BY <4>1 DEF Handed
      <3>4. ~media'[cmds'[i].id].on
        <4>1. CASE h.op = "remove" BY <1>6, <1>8, <1>9, <2>2, <3>2, <4>1
        <4>2. CASE h.op = "add"
          <5>1. cmds'[i].id # h.id BY <1>2, <3>1, <3>2, <4>2
          <5> QED BY <1>6, <1>9, <2>2, <3>2, <5>1
        <4> QED BY <1>5, <4>1, <4>2
      <3>5. ASSUME NEW j \in 1..Len(cmds'), cmds'[j].op = "add", cmds'[j].id = cmds'[i].id PROVE j = i
        <4>1. j + 1 = i + 1 BY <1>2, <3>2, <3>5
        <4> QED BY <4>1, <3>1
      <3> QED BY <3>2, <3>3, <3>4, <3>5
    <2>3. ASSUME NEW g \in FlowIds, media'[g].on PROVE Handed(g, media[g].chan)'
      <3>1. Handed(g, media'[g].chan)
        <4>1. CASE g = h.id
          <5>1. h.op = "add" BY <1>5, <1>8, <2>3, <4>1
          <5> QED BY <1>0, <1>2, <1>7, <4>1, <5>1 DEF MediaInv
        <4>2. CASE g # h.id BY <1>0, <1>6, <2>3, <4>2 DEF MediaInv
        <4> QED BY <4>1, <4>2
      <3> QED BY <2>1, <3>1 DEF Handed
    <2> QED BY <1>1, <2>2, <2>3 DEF MediaInv
  <1>11. ReceivingIsLive'
    <2> SUFFICES ASSUME NEW c \in Chan, subs[c].status = "receiving"
                 PROVE  subs[c].flow # NoFlow /\ media'[subs[c].flow] = media[subs[c].flow]
      BY <1>0, <1>1 DEF ReceivingIsLive
    <2>1. subs[c].flow # NoFlow /\ media[subs[c].flow].on
      BY <1>0, <1>1 DEF ReceivingIsLive
    <2>2. subs[c].flow \in FlowIds
      BY <1>0, <2>1 DEF TypeInv, TypeOK, RxSub
    <2>3. subs[c].flow # h.id
      <3>1. CASE h.op = "add" BY <1>0, <1>2, <2>1, <3>1 DEF MediaInv
      <3>2. CASE h.op = "remove" BY <1>0, <1>2, <3>2 DEF DoomedInv, Unwanted
      <3> QED BY <1>5, <3>1, <3>2
    <2> QED BY <1>6, <2>1, <2>2, <2>3
  <1> QED BY <1>4, <1>10, <1>11 DEF SubscribeInv, TypeInv

\* The first packet on a flow makes its channel receiving: the flow in the
\* media thread is that channel's, because one task made both.
LEMMA PacketKeepsSubscribeInv ==
    ASSUME SubscribeInv, TypeInv', NEW f \in FlowIds, NEW k \in Task, MediaPacket(f, k)
    PROVE  SubscribeInv'
  <1>0. TypeInv /\ IdsInv /\ FlowsInv /\ DoomedInv /\ MediaInv /\ ReceivingIsLive
    BY DEF SubscribeInv, TypeInv
  <1>1. /\ media \in [FlowIds -> MediaFlow] /\ subs \in [Chan -> RxSub]
        /\ media' = [media EXCEPT ![f].saw = TRUE] /\ media[f].on /\ mediaUp
        /\ UNCHANGED <<arc, task, nextFlowId, rxFlows, cmds, mediaUp, wire>>
        /\ (media[f].saw /\ UNCHANGED subs) \/ MarkReceiving(f)
    BY <1>0 DEF MediaPacket, TypeInv, TypeOK
  <1>2. \A g \in FlowIds : /\ media'[g].on = media[g].on /\ media'[g].chan = media[g].chan
                           /\ media[g].saw => media'[g].saw
    BY <1>1 DEF MediaFlow
  <1>3. media'[f].saw
    BY <1>1 DEF MediaFlow
  <1>4. \A c \in Chan : /\ subs'[c].flow = subs[c].flow
                        /\ subs'[c].status # subs[c].status => subs[c].flow = f
    <2>1. CASE UNCHANGED subs BY <2>1
    <2>2. CASE MarkReceiving(f)
      <3>1. \A c \in Chan : subs'[c] = IF subs[c].flow = f THEN [subs[c] EXCEPT !.status = "receiving"]
                                                             ELSE subs[c]
        BY <2>2 DEF MarkReceiving
      <3> QED BY <1>1, <3>1 DEF RxSub
    <2> QED BY <1>1, <2>1, <2>2
  <1>5. NoNewFlow BY <1>4 DEF NoNewFlow
  <1>6. IdsInv' /\ FlowsInv' /\ DoomedInv'
    BY <1>1, <1>5, MediaSideFrame
  <1>7. MediaInv'
    <2>1. ASSUME NEW i \in 1..Len(cmds), cmds[i].op = "add"
          PROVE  cmds[i].id # NoFlow /\ Handed(cmds[i].id, cmds[i].chan)' /\ ~media'[cmds[i].id].on
      <3>1. /\ cmds[i].id # NoFlow /\ Handed(cmds[i].id, cmds[i].chan)
            /\ ~media[cmds[i].id].on
        BY <1>0, <2>1 DEF MediaInv
      <3>2. cmds[i].id \in FlowIds
        BY <1>0, <2>1 DEF TypeInv, TypeOK, Command
      <3> QED BY <1>1, <1>2, <3>1, <3>2 DEF Handed
    <2>2. ASSUME NEW g \in FlowIds, media'[g].on PROVE Handed(g, media[g].chan)'
      <3>1. Handed(g, media[g].chan) BY <1>0, <1>2, <2>2 DEF MediaInv
      <3> QED BY <1>1, <1>2, <3>1 DEF Handed
    <2> QED BY <1>0, <1>1, <2>1, <2>2 DEF MediaInv
  <1>8. ReceivingIsLive'
    <2> SUFFICES ASSUME NEW c \in Chan, subs'[c].status = "receiving"
                 PROVE  /\ subs'[c].flow # NoFlow
                        /\ media'[subs'[c].flow].on /\ media'[subs'[c].flow].saw
                        /\ media'[subs'[c].flow].chan = c
      BY DEF ReceivingIsLive
    <2>1. CASE subs[c].flow = f
      <3>1. f # NoFlow BY FlowIdsAreNumbers
      <3>2. PICK j \in Task : task[j].fid = f /\ task[j].chan = c
        BY <1>0, <2>1, <3>1 DEF FlowsInv
      <3>3. PICK m \in Task : task[m].fid = f /\ task[m].chan = media[f].chan
        BY <1>0, <1>1 DEF MediaInv, Handed
      <3>4. j = m BY <1>0, <3>1, <3>2, <3>3, OneTask
      <3> QED BY <1>1, <1>2, <1>3, <1>4, <2>1, <3>1, <3>2, <3>3, <3>4
    <2>2. CASE subs[c].flow # f
      <3>1. subs[c].status = "receiving" BY <1>4, <2>2
      <3>2. /\ subs[c].flow # NoFlow /\ media[subs[c].flow].on /\ media[subs[c].flow].saw
            /\ media[subs[c].flow].chan = c
        BY <1>0, <1>1, <3>1 DEF ReceivingIsLive
      <3>3. subs[c].flow \in FlowIds BY <1>1, <3>2 DEF RxSub
      <3> QED BY <1>2, <1>4, <3>2, <3>3
    <2> QED BY <2>1, <2>2
  <1> QED BY <1>6, <1>7, <1>8 DEF SubscribeInv, TypeInv

\* The end of the media thread and the order to end it.
LEMMA EndKeepsSubscribeInv ==
    ASSUME SubscribeInv, TypeInv', MediaExit \/ SignalStop
    PROVE  SubscribeInv'
  <1>0. TypeInv /\ MediaInv /\ ReceivingIsLive
    BY DEF SubscribeInv, TypeInv
  <1>1. /\ UNCHANGED <<subs, arc, task, nextFlowId, rxFlows, wire>>
        /\ cmds \in Seq(Command)
    BY <1>0 DEF MediaExit, SignalStop, TypeInv, TypeOK
  <1>2. NoNewFlow BY <1>1 DEF NoNewFlow
  <1>3. CASE MediaExit
    <2>1. /\ cmds' = <<>> /\ ~mediaUp' /\ Len(cmds') = 0
          /\ \A g \in FlowIds : ~media'[g].on
      BY <1>3 DEF MediaExit, NoMediaFlow
    <2>2. \A i \in 1..Len(cmds') : FALSE BY <2>1
    <2>3. IdsInv' /\ FlowsInv' /\ DoomedInv' BY <1>1, <1>2, <2>2, MediaSideFrame
    <2>4. MediaInv' BY <2>1, <2>2 DEF MediaInv
    <2>5. ReceivingIsLive' BY <2>1 DEF ReceivingIsLive
    <2> QED BY <2>3, <2>4, <2>5 DEF SubscribeInv, TypeInv
  <1>4. CASE SignalStop
    <2> DEFINE s == [op |-> "shutdown", id |-> NoFlow, chan |-> 0, port |-> NoPort]
    <2>1. /\ cmds' = (IF mediaUp THEN Append(cmds, s) ELSE cmds) /\ s \in Command
          /\ UNCHANGED <<media, mediaUp>>
      BY <1>4 DEF SignalStop, Send, Command
    <2>2. /\ Len(cmds') \in Nat /\ Len(cmds) \in Nat
          /\ \A i \in 1..Len(cmds') : (i \in 1..Len(cmds) /\ cmds'[i] = cmds[i]) \/ cmds'[i] = s
      BY <1>1, <2>1, AppendEntries
    <2>3. \A i \in 1..Len(cmds') : cmds'[i].op \in {"add", "remove"} =>
             i \in 1..Len(cmds) /\ cmds'[i] = cmds[i]
      BY <2>2
    <2>4. IdsInv' /\ FlowsInv' /\ DoomedInv' BY <1>1, <1>2, <2>3, MediaSideFrame
    <2>5. MediaInv'
      <3>1. ASSUME NEW i \in 1..Len(cmds'), cmds'[i].op = "add"
            PROVE  /\ cmds'[i].id # NoFlow /\ Handed(cmds[i].id, cmds[i].chan)'
                   /\ ~media'[cmds'[i].id].on
                   /\ \A j \in 1..Len(cmds') : cmds'[j].op = "add" /\ cmds'[j].id = cmds'[i].id => j = i
        <4>1. i \in 1..Len(cmds) /\ cmds'[i] = cmds[i] BY <2>3, <3>1
        <4>2. /\ cmds[i].id # NoFlow /\ Handed(cmds[i].id, cmds[i].chan) /\ ~media[cmds[i].id].on
              /\ \A j \in 1..Len(cmds) : cmds[j].op = "add" /\ cmds[j].id = cmds[i].id => j = i
          BY <1>0, <3>1, <4>1 DEF MediaInv
        <4>3. Handed(cmds[i].id, cmds[i].chan)' BY <1>1, <4>1, <4>2 DEF Handed
        <4> QED BY <2>1, <2>3, <4>1, <4>2, <4>3
      <3>2. ASSUME NEW g \in FlowIds, media'[g].on PROVE Handed(g, media[g].chan)'
        <4>1. Handed(g, media[g].chan) BY <1>0, <2>1, <3>2 DEF MediaInv
        <4> QED BY <1>1, <2>1, <4>1 DEF Handed
      <3>3. ~mediaUp' => cmds' = <<>> BY <1>0, <2>1 DEF MediaInv
      <3> QED BY <3>1, <3>2, <3>3 DEF MediaInv
    <2>6. ReceivingIsLive' BY <1>0, <1>1, <2>1 DEF ReceivingIsLive
    <2> QED BY <2>4, <2>5, <2>6 DEF SubscribeInv, TypeInv
  <1> QED BY <1>3, <1>4

\* The network and the transmitters touch only datagrams, and make no stop.
LEMMA TxKeepsSubscribeInv ==
    ASSUME SubscribeInv, TypeInv', NEW k \in Task, TxStep(k)
    PROVE  SubscribeInv'
  <1>0. TypeInv /\ IdsInv /\ FlowsInv /\ DoomedInv /\ MediaInv /\ ReceivingIsLive
    BY DEF SubscribeInv, TypeInv
  <1>1. UNCHANGED local
    BY DEF TxStep, TxAccept, TxRefuse, TxStop, Lose, TxEnds
  <1>2. NoNewStop
    <2>1. wire \in [Task -> Datagrams] BY <1>0 DEF TypeInv, TypeOK
    <2> QED BY <2>1 DEF TxStep, TxAccept, TxRefuse, TxStop, Lose, TxEnds, NoNewStop
  <1>3. Forward /\ NoNewRecord /\ NoNewFlow
    BY <1>1, StillForward DEF local, NoNewFlow
  <1>4. IdsInv' BY <1>0, <1>1, IdsFrame DEF local
  <1>5. FlowsInv' BY <1>0, <1>1, <1>3, FlowsFrame DEF local
  <1>6. DoomedInv' BY <1>0, <1>1, <1>2, <1>3, DoomedFrame DEF local
  <1>7. MediaInv' BY <1>0, <1>1, <1>3, MediaFrame DEF local
  <1>8. ReceivingIsLive' BY <1>0, <1>1, ReceivingFrame DEF local
  <1> QED BY <1>4, <1>5, <1>6, <1>7, <1>8 DEF SubscribeInv, TypeInv

------------------------------------------------------------------------------
(* The theorems *)

\* Every step keeps the invariant while flow ids suffice.
LEMMA NextKeepsSubscribeInv == IdsSuffice /\ SubscribeInv /\ [Next]_vars => SubscribeInv'
  <1> SUFFICES ASSUME IdsSuffice, SubscribeInv, [Next]_vars PROVE SubscribeInv'
    OBVIOUS
  <1>0. TypeInv' BY NextKeepsTypeInv DEF SubscribeInv, TypeInv
  <1>1. CASE UNCHANGED vars
    BY <1>1 DEF vars, local, SubscribeInv, TypeOK, ProgressInv, HoldsSocket, IdsInv, Numbered,
                FlowsInv, Listed, DoomedInv, Unwanted, MediaInv, Handed, ReceivingIsLive
  <1>2. CASE Next
    <2>1. CASE \/ \E c \in Chan : \E t \in Targets : Subscribe(c, t)
               \/ \E c \in Chan : Unsubscribe(c)
               \/ SpawnEstablish \/ AbortArc
      BY <1>0, <2>1, RequestKeepsSubscribeInv
    <2>2. CASE FinishUnsubscribe
      BY <1>0, <2>2, StopKeepsSubscribeInv
    <2>3. ASSUME NEW k \in Task, EstablishStep(k) PROVE SubscribeInv'
      BY <1>0, <2>3, MoveKeepsSubscribeInv, BindKeepsSubscribeInv, ReplyKeepsSubscribeInv,
         RecordKeepsSubscribeInv, AddKeepsSubscribeInv DEF EstablishStep
    <2>4. CASE MediaStep \/ SignalStop
      BY <1>0, <2>4, CommandKeepsSubscribeInv, EndKeepsSubscribeInv DEF MediaStep
    <2>5. ASSUME NEW f \in FlowIds, NEW k \in Task, MediaPacket(f, k) PROVE SubscribeInv'
      BY <1>0, <2>5, PacketKeepsSubscribeInv
    <2>6. ASSUME NEW k \in Task, TxStep(k) PROVE SubscribeInv'
      BY <1>0, <2>6, TxKeepsSubscribeInv
    <2> QED BY <1>2, <2>1, <2>2, <2>3, <2>4, <2>5, <2>6 DEF Next, ArcStep
  <1> QED BY <1>1, <1>2

\* The invariant holds in every behaviour with fewer attempts than flow ids,
\* for any controller, any loss of datagrams and a shutdown at any moment.
THEOREM SubscribeInvariant == IdsSuffice /\ Spec => []SubscribeInv
  <1>1. IdsSuffice => (SubscribeInv /\ [Next]_vars => SubscribeInv')
    BY NextKeepsSubscribeInv
  <1> SUFFICES ASSUME IdsSuffice PROVE Spec => []SubscribeInv
    OBVIOUS
  <1>2. SubscribeInv /\ [Next]_vars => SubscribeInv'
    BY <1>1
  <1> QED BY <1>2, InitSubscribeInv, PTL DEF Spec

\* A subscription never names a flow that rx_flows has forgotten: apply's
\* unsubscribe always finds the transmitter's handle of the flow it stops.
THEOREM FlowsAreKnown == IdsSuffice /\ Spec => []FlowIsKnown
  <1>1. SubscribeInv => FlowIsKnown
    BY DEF SubscribeInv, FlowsInv, Listed, FlowIsKnown
  <1> QED BY <1>1, SubscribeInvariant, PTL

\* The status "receiving" is backed by a flow of that very channel on which a
\* packet has arrived, as long as the media thread runs.
THEOREM ReceivingIsTrue == IdsSuffice /\ Spec => []ReceivingIsLive
  <1>1. SubscribeInv => ReceivingIsLive
    BY DEF SubscribeInv
  <1> QED BY <1>1, SubscribeInvariant, PTL

\* stop_flow and everything it sets in motion never hit a flow that a
\* subscription names, however requests, replies and packets interleave.
THEOREM StopsHitOnlyUnwanted == IdsSuffice /\ Spec => []StopsOnlyUnwanted
  <1>1. SubscribeInv => StopsOnlyUnwanted
    <2> SUFFICES ASSUME SubscribeInv, NEW c \in Chan, subs[c].flow # NoFlow
                 PROVE  /\ \A i \in 1..Len(cmds) : cmds[i].op = "remove" => cmds[i].id # subs[c].flow
                        /\ \A k \in Task : wire[k] = "stop" => task[k].fid # subs[c].flow
                        /\ arc.pc = "stop" => arc.fid # subs[c].flow
      BY DEF StopsOnlyUnwanted
    <2> QED BY DEF SubscribeInv, DoomedInv, Unwanted
  <1> QED BY <1>1, SubscribeInvariant, PTL

------------------------------------------------------------------------------
(***************************************************************************)
(* A device whose controller lets an attempt finish and unsubscribes a     *)
(* channel before it subscribes it anew: no flow outlives its subscription *)
(* or is forgotten, and what the controller sees is a Session.             *)
(*                                                                         *)
(* The argument: such a controller leaves a channel alone while an attempt *)
(* of it is under way, so there is one attempt per channel, it alone sets  *)
(* the channel's status and flow, and its AddFlow is queued before the     *)
(* RemoveFlow of the unsubscribe that follows.                             *)
(***************************************************************************)

Polite == IdsSuffice /\ Controller = "polite"

\* The attempt that is under way for a channel is the only one, the ARC task
\* is not at that channel, and the subscription is as the attempt has left it.
AttemptInv ==
    /\ \A k \in Task : Live(k) =>
          /\ arc.pc \in {"spawn", "stop"} => arc.chan # task[k].chan
          /\ \A j \in Task : Live(j) /\ task[j].chan = task[k].chan => j = k
          /\ subs[task[k].chan].tx # NoTx
          /\ subs[task[k].chan].flow = IF task[k].pc = "add" THEN task[k].fid ELSE NoFlow
          /\ subs[task[k].chan].status = IF task[k].pc = "resolve" THEN "unresolved" ELSE "establishing"
    /\ arc.pc = "spawn" =>
          /\ subs[arc.chan].tx # NoTx /\ subs[arc.chan].flow = NoFlow
          /\ subs[arc.chan].status = "unresolved"

\* No flow without a wish, and none without hope while the media thread runs.
WishInv ==
    \A c \in Chan :
        /\ subs[c].tx = NoTx => subs[c].flow = NoFlow
        /\ mediaUp /\ subs[c].flow # NoFlow => subs[c].status \in {"establishing", "receiving"}

\* rx_flows lists a flow once, under the channel of its task.
ListInv ==
    /\ \A i, j \in 1..Len(rxFlows) : rxFlows[i].id = rxFlows[j].id => i = j
    /\ \A i \in 1..Len(rxFlows) : \A k \in Task :
          task[k].fid = rxFlows[i].id => task[k].chan = rxFlows[i].chan

\* A flow that is about to be added is wanted, or its removal comes later.
QueueInv ==
    /\ ~mediaUp => \A f \in FlowIds : ~media[f].on
    /\ \A i \in 1..Len(cmds) : cmds[i].op = "add" =>
          \/ subs[cmds[i].chan].flow = cmds[i].id
          \/ arc.pc = "stop" /\ arc.fid = cmds[i].id
          \/ \E j \in 1..Len(cmds) : i < j /\ cmds[j].op = "remove" /\ cmds[j].id = cmds[i].id

PoliteInv == AttemptInv /\ WishInv /\ ListInv /\ NoForgottenFlow /\ QueueInv /\ FlowsAreWanted

------------------------------------------------------------------------------
(* Frames *)

\* A subscription that names a flow goes on naming it.
KeepsFlows == \A d \in Chan : subs[d].flow # NoFlow => subs'[d].flow = subs[d].flow

\* The fields of what the tasks share.
LEMMA FieldTypes ==
    ASSUME TypeInv
    PROVE  /\ \A c \in Chan : subs[c] \in RxSub /\ subs[c].flow \in FlowIds \cup {NoFlow}
           /\ \A k \in Task : task[k] \in Establish
           /\ \A i \in 1..Len(rxFlows) : rxFlows[i].id \in FlowIds /\ rxFlows[i].chan \in Chan
           /\ \A i \in 1..Len(rxFlows) : rxFlows[i].id # NoFlow
           /\ Len(rxFlows) \in Nat /\ Len(cmds) \in Nat
  <1>1. /\ subs \in [Chan -> RxSub] /\ task \in [Task -> Establish]
        /\ rxFlows \in Seq(RxFlowInfo) /\ cmds \in Seq(Command)
    BY DEF TypeInv, TypeOK
  <1>2. \A c \in Chan : subs[c] \in RxSub /\ subs[c].flow \in FlowIds \cup {NoFlow}
    BY <1>1 DEF RxSub
  <1>3. \A i \in 1..Len(rxFlows) : rxFlows[i].id \in FlowIds /\ rxFlows[i].chan \in Chan
    <2>1. \A i \in 1..Len(rxFlows) : rxFlows[i] \in RxFlowInfo BY <1>1
    <2> QED BY <2>1 DEF RxFlowInfo
  <1> QED BY <1>1, <1>2, <1>3, FlowIdsAreNumbers

\* The queue and the running flows do not see a step that keeps the flows the
\* subscriptions name.
LEMMA WantedFrame ==
    ASSUME TypeInv, SubscribeInv, QueueInv, FlowsAreWanted, KeepsFlows, WishInv',
           UNCHANGED <<cmds, media, mediaUp>>,
           arc.pc = "stop" => UNCHANGED arc
    PROVE  QueueInv' /\ FlowsAreWanted'
  <1>1. QueueInv'
    <2>1. ASSUME NEW i \in 1..Len(cmds), cmds[i].op = "add", subs[cmds[i].chan].flow = cmds[i].id
          PROVE  subs'[cmds[i].chan].flow = cmds[i].id
      <3>1. cmds[i].id # NoFlow /\ cmds[i].chan \in Chan
        BY <2>1 DEF SubscribeInv, MediaInv, TypeInv, TypeOK, Command
      <3> QED BY <2>1, <3>1 DEF KeepsFlows
    <2> QED BY <2>1 DEF QueueInv
  <1>2. ASSUME NEW f \in FlowIds, media'[f].on, ~Removing(f)'
        PROVE  subs'[media'[f].chan].flow = f /\ subs'[media'[f].chan].tx # NoTx
    <2>1. media[f].on /\ ~Removing(f)
      BY <1>2 DEF Removing
    <2>2. subs[media[f].chan].flow = f /\ f # NoFlow
      BY <2>1, FlowIdsAreNumbers DEF FlowsAreWanted
    <2>3. media[f].chan \in Chan
      <3>1. PICK k \in Task : task[k].chan = media[f].chan /\ task[k].pc = "done"
        BY <2>1 DEF SubscribeInv, MediaInv, Handed
      <3> QED BY <3>1 DEF TypeInv, ProgressInv
    <2> QED BY <2>2, <2>3 DEF KeepsFlows, WishInv
  <1> QED BY <1>1, <1>2 DEF FlowsAreWanted

\* A listed flow keeps its task.
LEMMA ListFrame ==
    ASSUME TypeInv, SubscribeInv, ListInv, UNCHANGED rxFlows,
           \A k \in Task : /\ task'[k].fid \in {task[k].fid, nextFlowId, NoFlow}
                           /\ task[k].fid # NoFlow => task'[k].chan = task[k].chan
    PROVE  ListInv'
  <1> SUFFICES ASSUME NEW i \in 1..Len(rxFlows), NEW k \in Task, task'[k].fid = rxFlows[i].id
               PROVE  task'[k].chan = rxFlows[i].chan
    BY DEF ListInv
  <1>1. rxFlows[i].id # NoFlow
    BY FieldTypes
  <1>2. rxFlows[i].id # nextFlowId
    <2>1. PICK m \in Task : task[m].fid = rxFlows[i].id
      BY DEF SubscribeInv, FlowsInv
    <2>2. task[m].fid < nextFlowId /\ nextFlowId \in Int
      BY ConstantsAssumption DEF SubscribeInv, IdsInv, TypeInv, TypeOK, FlowIds
    <2> QED BY <2>1, <2>2
  <1> QED BY <1>1, <1>2 DEF ListInv

\* A listed flow is not forgotten by a step that keeps the flows the
\* subscriptions name and the tasks that are about to record theirs.
LEMMA ForgottenFrame ==
    ASSUME TypeInv, NoForgottenFlow, KeepsFlows, UNCHANGED rxFlows,
           arc.pc = "stop" => UNCHANGED arc,
           \A k \in Task : task[k].pc = "record" => task'[k].pc = "record" /\ task'[k].fid = task[k].fid
    PROVE  NoForgottenFlow'
  <1> SUFFICES ASSUME NEW i \in 1..Len(rxFlows)
               PROVE  \/ subs'[rxFlows[i].chan].flow = rxFlows[i].id
                      \/ \E k \in Task : task'[k].pc = "record" /\ task'[k].fid = rxFlows[i].id
                      \/ arc'.pc = "stop" /\ arc'.fid = rxFlows[i].id
    BY DEF NoForgottenFlow
  <1>1. rxFlows[i].id # NoFlow /\ rxFlows[i].chan \in Chan
    BY FieldTypes
  <1>2. CASE subs[rxFlows[i].chan].flow = rxFlows[i].id
    BY <1>1, <1>2 DEF KeepsFlows
  <1>3. CASE \E k \in Task : task[k].pc = "record" /\ task[k].fid = rxFlows[i].id
    BY <1>3
  <1>4. CASE arc.pc = "stop" /\ arc.fid = rxFlows[i].id
    BY <1>4
  <1> QED BY <1>2, <1>3, <1>4 DEF NoForgottenFlow

------------------------------------------------------------------------------
(* An establish step touches its own task and its own channel *)

\* What a step of task k does to the task and to the channel's subscription.
Attempt(k, c) ==
    /\ Live(k) /\ c = task[k].chan /\ c \in Chan
    /\ UNCHANGED <<arc, media, mediaUp>>
    /\ \A j \in Task : j # k => task'[j] = task[j]
    /\ task'[k].chan = c /\ task'[k].fid \in {task[k].fid, nextFlowId}
    /\ task[k].fid # NoFlow => task'[k].fid = task[k].fid
    /\ \A d \in Chan : d # c => subs'[d] = subs[d]
    /\ subs'[c].tx = subs[c].tx
    /\ task'[k].pc \in {"bind", "wait", "record", "add", "done"}
    /\ task'[k].pc # "done" =>
          /\ subs'[c].flow = IF task'[k].pc = "add" THEN task'[k].fid ELSE NoFlow
          /\ subs'[c].status = "establishing"
    /\ task'[k].pc = "done" =>
          /\ subs'[c].flow = subs[c].flow
          /\ subs'[c].status = IF subs[c].flow # NoFlow /\ mediaUp THEN "establishing" ELSE "unresolved"
    /\ KeepsFlows

\* set_status, at the channel of a task.
LEMMA SetStatusEffect ==
    ASSUME TypeInv, NEW c \in Chan, NEW s \in Statuses, SetStatus(c, s)
    PROVE  /\ \A d \in Chan : d # c => subs'[d] = subs[d]
           /\ subs'[c].tx = subs[c].tx /\ subs'[c].flow = subs[c].flow /\ subs'[c].status = s
           /\ KeepsFlows
  <1>1. subs \in [Chan -> RxSub] BY DEF TypeInv, TypeOK
  <1>2. /\ \A d \in Chan : d # c => subs'[d] = subs[d]
        /\ subs'[c] = [subs[c] EXCEPT !.status = s]
    BY <1>1 DEF SetStatus
  <1>3. subs'[c].tx = subs[c].tx /\ subs'[c].flow = subs[c].flow /\ subs'[c].status = s
    BY <1>1, <1>2 DEF RxSub
  <1> QED BY <1>2, <1>3 DEF KeepsFlows

\* A task that only moves on.
LEMMA MoveEffect ==
    ASSUME TypeInv, NEW k \in Task, NEW p, task' = [task EXCEPT ![k].pc = p]
    PROVE  /\ \A j \in Task : j # k => task'[j] = task[j]
           /\ task'[k].chan = task[k].chan /\ task'[k].fid = task[k].fid /\ task'[k].pc = p
  <1>1. task \in [Task -> Establish] BY DEF TypeInv, TypeOK
  <1>2. /\ \A j \in Task : j # k => task'[j] = task[j]
        /\ task'[k] = [task[k] EXCEPT !.pc = p]
    BY <1>1
  <1> QED BY <1>1, <1>2 DEF Establish

\* Every establish step is such a step.
LEMMA EstablishIsAttempt ==
    ASSUME TypeInv, AttemptInv, NEW k \in Task, EstablishStep(k)
    PROVE  \E c \in Chan : Attempt(k, c)
  <1> DEFINE c == task[k].chan
  <1>0. task[k].pc \in {"resolve", "bind", "wait", "record", "add"} /\ Live(k) /\ c \in Chan
    BY DEF EstablishStep, Incomplete, ResolveFails, ResolveOk, Resolving, BindFails, BindAndRequest,
           RequestFails, ReplyArrives, RecordFlow, SendAddFlow, Live, TypeInv, ProgressInv
  <1>1. /\ subs[c].flow = IF task[k].pc = "add" THEN task[k].fid ELSE NoFlow
        /\ subs[c].status = IF task[k].pc = "resolve" THEN "unresolved" ELSE "establishing"
    BY <1>0 DEF AttemptInv
  <1> HIDE DEF c
  <1>c. c = task[k].chan BY DEF c
  <1>2. CASE Incomplete(k)
    <2>1. task' = [task EXCEPT ![k].pc = "done"] /\ UNCHANGED <<arc, media, mediaUp, subs>> /\ task[k].pc = "resolve"
      BY <1>2 DEF Incomplete
    <2>9. /\ \A j \in Task : j # k => task'[j] = task[j]
          /\ task'[k].chan = c /\ task'[k].fid = task[k].fid /\ task'[k].pc = "done"
      BY <1>c, <2>1, MoveEffect
    <2> QED BY <1>0, <1>1, <1>c, <2>1, <2>9 DEF Attempt, KeepsFlows
  <1>3. CASE ResolveFails(k) \/ BindFails(k) \/ RequestFails(k)
    <2>1. /\ task' = [task EXCEPT ![k].pc = "done"] /\ UNCHANGED <<arc, media, mediaUp>>
          /\ SetStatus(c, "unresolved") /\ task[k].pc # "add"
      BY <1>3, <1>c DEF ResolveFails, BindFails, RequestFails, Resolving
    <2>2. /\ \A d \in Chan : d # c => subs'[d] = subs[d]
          /\ subs'[c].tx = subs[c].tx /\ subs'[c].flow = subs[c].flow /\ subs'[c].status = "unresolved"
          /\ KeepsFlows
      BY <1>0, <2>1, SetStatusEffect DEF Statuses
    <2>9. /\ \A j \in Task : j # k => task'[j] = task[j]
          /\ task'[k].chan = c /\ task'[k].fid = task[k].fid /\ task'[k].pc = "done"
      BY <1>c, <2>1, MoveEffect
    <2> QED BY <1>0, <1>1, <1>c, <2>1, <2>2, <2>9 DEF Attempt
  <1>4. CASE ResolveOk(k)
    <2>1. /\ task' = [task EXCEPT ![k].pc = "bind"] /\ UNCHANGED <<arc, media, mediaUp>>
          /\ SetStatus(c, "establishing") /\ task[k].pc = "resolve"
      BY <1>4, <1>c DEF ResolveOk, Resolving
    <2>2. /\ \A d \in Chan : d # c => subs'[d] = subs[d]
          /\ subs'[c].tx = subs[c].tx /\ subs'[c].flow = subs[c].flow /\ subs'[c].status = "establishing"
          /\ KeepsFlows
      BY <1>0, <2>1, SetStatusEffect DEF Statuses
    <2>9. /\ \A j \in Task : j # k => task'[j] = task[j]
          /\ task'[k].chan = c /\ task'[k].fid = task[k].fid /\ task'[k].pc = "bind"
      BY <1>c, <2>1, MoveEffect
    <2> QED BY <1>0, <1>1, <1>c, <2>1, <2>2, <2>9 DEF Attempt
  <1>5. CASE BindAndRequest(k)
    <2>1. PICK p : task' = [task EXCEPT ![k].pc = "wait", ![k].port = p, ![k].fid = nextFlowId]
      BY <1>5 DEF BindAndRequest
    <2>2. UNCHANGED <<arc, media, mediaUp, subs>> /\ task[k].pc = "bind"
      BY <1>5 DEF BindAndRequest
    <2>3. task \in [Task -> Establish] BY DEF TypeInv, TypeOK
    <2>4. /\ \A j \in Task : j # k => task'[j] = task[j]
          /\ task'[k].chan = c /\ task'[k].fid = nextFlowId /\ task'[k].pc = "wait"
      BY <1>c, <2>1, <2>3 DEF Establish
    <2>5. task[k].fid = NoFlow
      BY <2>2 DEF TypeInv, ProgressInv
    <2> QED BY <1>0, <1>1, <1>c, <2>2, <2>4, <2>5 DEF Attempt, KeepsFlows
  <1>6. CASE ReplyArrives(k)
    <2>1. /\ task' = [task EXCEPT ![k].pc = "record"] /\ UNCHANGED <<arc, media, mediaUp, subs>>
          /\ task[k].pc = "wait"
      BY <1>6 DEF ReplyArrives
    <2>9. /\ \A j \in Task : j # k => task'[j] = task[j]
          /\ task'[k].chan = c /\ task'[k].fid = task[k].fid /\ task'[k].pc = "record"
      BY <1>c, <2>1, MoveEffect
    <2> QED BY <1>0, <1>1, <1>c, <2>1, <2>9 DEF Attempt, KeepsFlows
  <1>7. CASE RecordFlow(k)
    <2>1. /\ task' = [task EXCEPT ![k].pc = "add"] /\ UNCHANGED <<arc, media, mediaUp>>
          /\ subs' = [subs EXCEPT ![c].flow = task[k].fid, ![c].status = "establishing"]
          /\ task[k].pc = "record"
      BY <1>7, <1>c DEF RecordFlow
    <2>2. subs \in [Chan -> RxSub] BY DEF TypeInv, TypeOK
    <2>3. /\ \A d \in Chan : d # c => subs'[d] = subs[d]
          /\ subs'[c].tx = subs[c].tx /\ subs'[c].flow = task[k].fid /\ subs'[c].status = "establishing"
      BY <1>0, <2>1, <2>2 DEF RxSub
    <2>4. KeepsFlows BY <1>1, <2>1, <2>3 DEF KeepsFlows
    <2>9. /\ \A j \in Task : j # k => task'[j] = task[j]
          /\ task'[k].chan = c /\ task'[k].fid = task[k].fid /\ task'[k].pc = "add"
      BY <1>c, <2>1, MoveEffect
    <2> QED BY <1>0, <1>1, <1>c, <2>1, <2>3, <2>4, <2>9 DEF Attempt
  <1>8. CASE SendAddFlow(k)
    <2>1. /\ task' = [task EXCEPT ![k].pc = "done"] /\ UNCHANGED <<arc, media, mediaUp>>
          /\ (mediaUp /\ UNCHANGED subs) \/ (~mediaUp /\ SetStatus(c, "unresolved"))
          /\ task[k].pc = "add"
      BY <1>8, <1>c DEF SendAddFlow
    <2>2. task[k].fid # NoFlow
      BY <2>1 DEF TypeInv, ProgressInv, HoldsSocket
    <2>9. /\ \A j \in Task : j # k => task'[j] = task[j]
          /\ task'[k].chan = c /\ task'[k].fid = task[k].fid /\ task'[k].pc = "done"
      BY <1>c, <2>1, MoveEffect
    <2>3. CASE mediaUp /\ UNCHANGED subs
      BY <1>0, <1>1, <1>c, <2>1, <2>2, <2>3, <2>9 DEF Attempt, KeepsFlows
    <2>4. CASE ~mediaUp /\ SetStatus(c, "unresolved")
      <3>1. /\ \A d \in Chan : d # c => subs'[d] = subs[d]
            /\ subs'[c].tx = subs[c].tx /\ subs'[c].flow = subs[c].flow /\ subs'[c].status = "unresolved"
            /\ KeepsFlows
        BY <1>0, <2>4, SetStatusEffect DEF Statuses
      <3> QED BY <1>0, <1>1, <1>c, <2>1, <2>2, <2>4, <3>1, <2>9 DEF Attempt
    <2> QED BY <2>1, <2>3, <2>4
  <1> QED BY <1>0, <1>2, <1>3, <1>4, <1>5, <1>6, <1>7, <1>8 DEF EstablishStep

\* Such a step keeps what is known of attempts and wishes.
LEMMA AttemptKeepsInv ==
    ASSUME TypeInv, SubscribeInv, PoliteInv, NEW k \in Task, NEW c \in Chan, Attempt(k, c)
    PROVE  AttemptInv' /\ WishInv'
  <1>0. AttemptInv /\ WishInv /\ c = task[k].chan /\ Live(k)
    BY DEF PoliteInv, Attempt
  <1>1. \A j \in Task : Live(j)' => Live(j)
    BY DEF Attempt, Live
  <1>2. \A j \in Task : j # k /\ Live(j) => task[j].chan # c
    BY <1>0 DEF AttemptInv
  <1>3. \A j \in Task : task'[j].chan = task[j].chan
    BY DEF Attempt
  <1>4. arc' = arc /\ subs[c].tx # NoTx /\ (arc.pc \in {"spawn", "stop"} => arc.chan # c)
    BY <1>0 DEF Attempt, AttemptInv
  <1>5. ASSUME NEW j \in Task, Live(j)'
        PROVE  /\ arc'.pc \in {"spawn", "stop"} => arc'.chan # task'[j].chan
               /\ \A m \in Task : Live(m)' /\ task'[m].chan = task'[j].chan => m = j
               /\ subs'[task'[j].chan].tx # NoTx
               /\ subs'[task'[j].chan].flow = IF task'[j].pc = "add" THEN task'[j].fid ELSE NoFlow
               /\ subs'[task'[j].chan].status = IF task'[j].pc = "resolve" THEN "unresolved" ELSE "establishing"
    <2>1. /\ arc'.pc \in {"spawn", "stop"} => arc'.chan # task'[j].chan
          /\ \A m \in Task : Live(m)' /\ task'[m].chan = task'[j].chan => m = j
      BY <1>0, <1>1, <1>3, <1>4, <1>5 DEF AttemptInv
    <2>2. CASE j = k
      BY <1>0, <1>3, <1>4, <1>5, <2>1, <2>2 DEF Attempt, Live
    <2>3. CASE j # k
      <3>1. Live(j) /\ task'[j] = task[j] /\ task[j].chan # c /\ task[j].chan \in Chan
        BY <1>1, <1>2, <1>5, <2>3 DEF Attempt, TypeInv, ProgressInv, Live
      <3>2. subs'[task[j].chan] = subs[task[j].chan]
        BY <3>1 DEF Attempt
      <3> QED BY <1>0, <2>1, <3>1, <3>2 DEF AttemptInv
    <2> QED BY <2>2, <2>3
  <1>6. arc.pc = "spawn" => subs'[arc.chan] = subs[arc.chan]
    BY <1>4 DEF Attempt, TypeInv, ProgressInv
  <1>7. AttemptInv'
    BY <1>0, <1>4, <1>5, <1>6 DEF AttemptInv
  <1>8. WishInv'
    <2> SUFFICES ASSUME NEW d \in Chan
                 PROVE  /\ subs'[d].tx = NoTx => subs'[d].flow = NoFlow
                        /\ mediaUp' /\ subs'[d].flow # NoFlow => subs'[d].status \in {"establishing", "receiving"}
      BY DEF WishInv
    <2>1. CASE d = c
      BY <1>4, <2>1 DEF Attempt
    <2>2. CASE d # c
      BY <1>0, <2>2 DEF Attempt, WishInv
    <2> QED BY <2>1, <2>2
  <1> QED BY <1>7, <1>8

\* What an attempt does to its task keeps ListInv, if it lists nothing.
LEMMA AttemptKeepsList ==
    ASSUME TypeInv, SubscribeInv, ListInv, NEW k \in Task, NEW c \in Chan, Attempt(k, c), UNCHANGED rxFlows
    PROVE  ListInv'
  <1>1. \A j \in Task : /\ task'[j].fid \in {task[j].fid, nextFlowId, NoFlow}
                        /\ task[j].fid # NoFlow => task'[j].chan = task[j].chan
    BY DEF Attempt
  <1> QED BY <1>1, ListFrame

\* The steps that neither list, record nor hand over a flow.
LEMMA MoveKeepsPoliteInv ==
    ASSUME TypeInv, SubscribeInv, PoliteInv, NEW k \in Task,
           \/ Incomplete(k) \/ ResolveFails(k) \/ ResolveOk(k) \/ BindFails(k) \/ BindAndRequest(k) \/ RequestFails(k)
    PROVE  PoliteInv'
  <1>0. ListInv /\ NoForgottenFlow /\ QueueInv /\ FlowsAreWanted /\ AttemptInv
    BY DEF PoliteInv
  <1>1. PICK c \in Chan : Attempt(k, c)
    BY <1>0, EstablishIsAttempt DEF EstablishStep
  <1>2. UNCHANGED <<rxFlows, cmds>> /\ task[k].pc # "record"
    BY DEF Incomplete, ResolveFails, ResolveOk, Resolving, BindFails, BindAndRequest, RequestFails
  <1>3. AttemptInv' /\ WishInv'
    BY <1>1, AttemptKeepsInv
  <1>4. ListInv'
    BY <1>0, <1>1, <1>2, AttemptKeepsList
  <1>5. KeepsFlows /\ UNCHANGED <<arc, media, mediaUp>>
    BY <1>1 DEF Attempt
  <1>6. \A j \in Task : task[j].pc = "record" => task'[j].pc = "record" /\ task'[j].fid = task[j].fid
    BY <1>1, <1>2 DEF Attempt
  <1>7. NoForgottenFlow'
    BY <1>0, <1>2, <1>5, <1>6, ForgottenFrame
  <1>8. QueueInv' /\ FlowsAreWanted'
    BY <1>0, <1>2, <1>3, <1>5, WantedFrame
  <1> QED BY <1>3, <1>4, <1>7, <1>8 DEF PoliteInv

\* The reply lists the flow; the task is about to record it.
LEMMA ReplyKeepsPoliteInv ==
    ASSUME TypeInv, SubscribeInv, PoliteInv, NEW k \in Task, ReplyArrives(k)
    PROVE  PoliteInv'
  <1>0. ListInv /\ NoForgottenFlow /\ QueueInv /\ FlowsAreWanted /\ AttemptInv
    BY DEF PoliteInv
  <1>1. PICK c \in Chan : Attempt(k, c)
    BY <1>0, EstablishIsAttempt DEF EstablishStep
  <1>2. AttemptInv' /\ WishInv'
    BY <1>1, AttemptKeepsInv
  <1>3. KeepsFlows /\ UNCHANGED <<arc, media, mediaUp, cmds, subs>>
    BY <1>1 DEF Attempt, ReplyArrives
  <1>4. QueueInv' /\ FlowsAreWanted'
    BY <1>0, <1>2, <1>3, WantedFrame
  <1>5. PICK e : /\ rxFlows' = Append(rxFlows, e)
                 /\ e = [id |-> task[k].fid, chan |-> task[k].chan, port |-> task[k].port,
                         handle |-> IF wire[k] = "ok" THEN k ELSE NoTask]
    BY DEF ReplyArrives
  <1>6. /\ task[k].fid # NoFlow /\ task[k].fid \in FlowIds /\ task[k].chan \in Chan /\ task[k].port \in Ports
        /\ task[k].pc = "wait" /\ task[k] \in Establish
    BY DEF ReplyArrives, TypeInv, TypeOK, ProgressInv, HoldsSocket, Establish
  <1>7. e \in RxFlowInfo /\ e.id = task[k].fid /\ e.chan = task[k].chan
    BY <1>5, <1>6 DEF RxFlowInfo
  <1>8. rxFlows \in Seq(RxFlowInfo) /\ Len(rxFlows) \in Nat
    BY DEF TypeInv, TypeOK
  <1> DEFINE n == Len(rxFlows)
  <1>9. /\ Len(rxFlows') = n + 1 /\ rxFlows'[n + 1] = e
        /\ \A i \in 1..n : rxFlows'[i] = rxFlows[i]
    BY <1>5, <1>7, <1>8, AppendEntries
  <1>10. \A i \in 1..n : rxFlows[i].id # task[k].fid
    <2> SUFFICES ASSUME NEW i \in 1..n, rxFlows[i].id = task[k].fid PROVE FALSE
      OBVIOUS
    <2>1. PICK m \in Task : task[m].fid = rxFlows[i].id /\ task[m].pc \in {"record", "add", "done"}
      BY DEF SubscribeInv, FlowsInv
    <2>2. m = k BY <1>6, <2>1, OneTask DEF SubscribeInv
    <2> QED BY <1>6, <2>1, <2>2
  <1>11. \A i \in 1..n + 1 : i \in 1..n \/ i = n + 1
    BY <1>8
  <1>12. \A j \in Task : task'[j].fid = task[j].fid /\ task'[j].chan = task[j].chan
    BY <1>1, <1>6 DEF Attempt
  <1> HIDE DEF n
  <1>13. ListInv'
    <2>1. ASSUME NEW i \in 1..n + 1, NEW j \in 1..n + 1, rxFlows'[i].id = rxFlows'[j].id PROVE i = j
      BY <1>0, <1>7, <1>9, <1>10, <1>11, <2>1 DEF ListInv, n
    <2>2. ASSUME NEW i \in 1..n + 1, NEW j \in Task, task'[j].fid = rxFlows'[i].id
          PROVE  task'[j].chan = rxFlows'[i].chan
      <3>1. CASE i \in 1..n
        BY <1>0, <1>9, <1>12, <2>2, <3>1 DEF ListInv, n
      <3>2. CASE i = n + 1
        <4>1. task[j].fid = task[k].fid BY <1>7, <1>9, <1>12, <2>2, <3>2
        <4>2. j = k BY <1>6, <4>1, OneTask DEF SubscribeInv
        <4> QED BY <1>7, <1>9, <1>12, <3>2, <4>2
      <3> QED BY <1>11, <3>1, <3>2
    <2> QED BY <1>9, <2>1, <2>2 DEF ListInv
  <1>14. task'[k].pc = "record"
    BY <1>6, MoveEffect DEF ReplyArrives
  <1>15. NoForgottenFlow'
    <2> SUFFICES ASSUME NEW i \in 1..n + 1
                 PROVE  \/ subs'[rxFlows'[i].chan].flow = rxFlows'[i].id
                        \/ \E j \in Task : task'[j].pc = "record" /\ task'[j].fid = rxFlows'[i].id
                        \/ arc'.pc = "stop" /\ arc'.fid = rxFlows'[i].id
      BY <1>9 DEF NoForgottenFlow
    <2>1. CASE i = n + 1
      BY <1>7, <1>9, <1>12, <1>14, <2>1
    <2>2. CASE i \in 1..n
      <3>1. \A j \in Task : task[j].pc = "record" => task'[j].pc = "record"
        BY <1>1, <1>14 DEF Attempt
      <3>2. \/ subs[rxFlows[i].chan].flow = rxFlows[i].id
            \/ \E j \in Task : task[j].pc = "record" /\ task[j].fid = rxFlows[i].id
            \/ arc.pc = "stop" /\ arc.fid = rxFlows[i].id
        BY <1>0, <2>2 DEF NoForgottenFlow, n
      <3> QED BY <1>3, <1>9, <1>12, <2>2, <3>1, <3>2
    <2> QED BY <1>11, <2>1, <2>2
  <1> QED BY <1>2, <1>4, <1>13, <1>15 DEF PoliteInv

\* The subscription names the flow.
LEMMA RecordKeepsPoliteInv ==
    ASSUME TypeInv, SubscribeInv, PoliteInv, NEW k \in Task, RecordFlow(k)
    PROVE  PoliteInv'
  <1>0. ListInv /\ NoForgottenFlow /\ QueueInv /\ FlowsAreWanted /\ AttemptInv
    BY DEF PoliteInv
  <1>1. PICK c \in Chan : Attempt(k, c)
    BY <1>0, EstablishIsAttempt DEF EstablishStep
  <1>2. AttemptInv' /\ WishInv'
    BY <1>1, AttemptKeepsInv
  <1>3. KeepsFlows /\ UNCHANGED <<arc, media, mediaUp, cmds, rxFlows>>
    BY <1>1 DEF Attempt, RecordFlow
  <1>4. QueueInv' /\ FlowsAreWanted'
    BY <1>0, <1>2, <1>3, WantedFrame
  <1>5. ListInv'
    BY <1>0, <1>1, <1>3, AttemptKeepsList
  <1>6. /\ task'[k].pc = "add" /\ task'[k].fid = task[k].fid /\ c = task[k].chan
        /\ subs'[c].flow = task[k].fid
    <2>1. task'[k].pc = "add" /\ task'[k].fid = task[k].fid
      BY MoveEffect DEF RecordFlow
    <2> QED BY <1>1, <2>1 DEF Attempt
  <1>7. NoForgottenFlow'
    <2> SUFFICES ASSUME NEW i \in 1..Len(rxFlows)
                 PROVE  \/ subs'[rxFlows[i].chan].flow = rxFlows[i].id
                        \/ \E j \in Task : task'[j].pc = "record" /\ task'[j].fid = rxFlows[i].id
                        \/ arc'.pc = "stop" /\ arc'.fid = rxFlows[i].id
      BY <1>3 DEF NoForgottenFlow
    <2>1. rxFlows[i].id # NoFlow /\ rxFlows[i].chan \in Chan
      BY FieldTypes
    <2>2. CASE subs[rxFlows[i].chan].flow = rxFlows[i].id
      BY <1>3, <2>1, <2>2 DEF KeepsFlows
    <2>3. CASE arc.pc = "stop" /\ arc.fid = rxFlows[i].id
      BY <1>3, <2>3
    <2>4. ASSUME NEW j \in Task, task[j].pc = "record", task[j].fid = rxFlows[i].id
          PROVE  \/ subs'[rxFlows[i].chan].flow = rxFlows[i].id
                 \/ \E m \in Task : task'[m].pc = "record" /\ task'[m].fid = rxFlows[i].id
      <3>1. CASE j # k
        BY <1>1, <2>4, <3>1 DEF Attempt
      <3>2. CASE j = k
        <4>1. rxFlows[i].chan = c
          BY <1>0, <1>6, <2>4, <3>2 DEF ListInv
        <4> QED BY <1>6, <2>4, <3>2, <4>1
      <3> QED BY <3>1, <3>2
    <2> QED BY <1>0, <2>2, <2>3, <2>4 DEF NoForgottenFlow
  <1> QED BY <1>2, <1>4, <1>5, <1>7 DEF PoliteInv

\* A removal that was under way still is when something is queued behind it.
LEMMA RemovingFrame ==
    ASSUME UNCHANGED arc, NEW f, Removing(f), Len(cmds) \in Nat, Len(cmds') \in Nat, Len(cmds) <= Len(cmds'),
           \A i \in 1..Len(cmds) : cmds'[i] = cmds[i]
    PROVE  Removing(f)'
  BY DEF Removing

\* The flow is handed to the media thread.
LEMMA AddKeepsPoliteInv ==
    ASSUME TypeInv, SubscribeInv, PoliteInv, NEW k \in Task, SendAddFlow(k)
    PROVE  PoliteInv'
  <1>0. ListInv /\ NoForgottenFlow /\ QueueInv /\ FlowsAreWanted /\ AttemptInv
    BY DEF PoliteInv
  <1>1. PICK c \in Chan : Attempt(k, c)
    BY <1>0, EstablishIsAttempt DEF EstablishStep
  <1>2. AttemptInv' /\ WishInv'
    BY <1>1, AttemptKeepsInv
  <1>3. KeepsFlows /\ UNCHANGED <<arc, media, mediaUp, rxFlows>> /\ task[k].pc = "add"
    BY <1>1 DEF Attempt, SendAddFlow
  <1>4. ListInv'
    BY <1>0, <1>1, <1>3, AttemptKeepsList
  <1>5. \A j \in Task : task[j].pc = "record" => task'[j].pc = "record" /\ task'[j].fid = task[j].fid
    BY <1>1, <1>3 DEF Attempt
  <1>6. NoForgottenFlow'
    BY <1>0, <1>3, <1>5, ForgottenFrame
  <1>7. CASE ~mediaUp
    <2>1. UNCHANGED cmds BY <1>7 DEF SendAddFlow, Send
    <2>2. QueueInv' /\ FlowsAreWanted'
      BY <1>0, <1>2, <1>3, <2>1, WantedFrame
    <2> QED BY <1>2, <1>4, <1>6, <2>2 DEF PoliteInv
  <1>8. CASE mediaUp
    <2>1. PICK e : /\ e = [op |-> "add", id |-> task[k].fid, chan |-> task[k].chan, port |-> task[k].port]
                   /\ cmds' = Append(cmds, e)
      BY <1>8 DEF SendAddFlow, Send
    <2>2. /\ task[k].fid # NoFlow /\ task[k].fid \in FlowIds /\ task[k].chan \in Chan /\ task[k].port \in Ports
      BY <1>3 DEF TypeInv, TypeOK, ProgressInv, HoldsSocket, Establish
    <2>3. e \in Command /\ e.op = "add" /\ e.id = task[k].fid /\ e.chan = task[k].chan
      BY <2>1, <2>2 DEF Command
    <2>4. cmds \in Seq(Command) /\ Len(cmds) \in Nat
      BY DEF TypeInv, TypeOK
    <2>5. /\ Len(cmds') = Len(cmds) + 1 /\ cmds'[Len(cmds) + 1] = e
          /\ \A i \in 1..Len(cmds) : cmds'[i] = cmds[i]
      BY <2>1, <2>3, <2>4, AppendEntries
    <2>6. subs[c].flow = task[k].fid /\ c = task[k].chan /\ subs'[c].flow = task[k].fid
      BY <1>0, <1>1, <1>3, <2>2 DEF AttemptInv, Attempt, KeepsFlows
    <2>7. QueueInv'
      <3> SUFFICES ASSUME NEW i \in 1..Len(cmds'), cmds'[i].op = "add"
                   PROVE  \/ subs'[cmds'[i].chan].flow = cmds'[i].id
                          \/ arc'.pc = "stop" /\ arc'.fid = cmds'[i].id
                          \/ \E j \in 1..Len(cmds') : i < j /\ cmds'[j].op = "remove" /\ cmds'[j].id = cmds'[i].id
        BY <1>3, <1>8 DEF QueueInv
      <3>1. CASE i = Len(cmds) + 1
        BY <2>3, <2>5, <2>6, <3>1
      <3>2. CASE i \in 1..Len(cmds)
        <4>1. cmds'[i] = cmds[i] /\ cmds[i].op = "add" /\ cmds[i].id # NoFlow /\ cmds[i].chan \in Chan
          BY <2>4, <2>5, <3>2 DEF SubscribeInv, MediaInv, Command
        <4>2. \/ subs[cmds[i].chan].flow = cmds[i].id
              \/ arc.pc = "stop" /\ arc.fid = cmds[i].id
              \/ \E j \in 1..Len(cmds) : i < j /\ cmds[j].op = "remove" /\ cmds[j].id = cmds[i].id
          BY <1>0, <3>2, <4>1 DEF QueueInv
        <4>3. \A j \in 1..Len(cmds) : j \in 1..Len(cmds') /\ cmds'[j] = cmds[j]
          BY <2>4, <2>5
        <4> QED BY <1>3, <4>1, <4>2, <4>3 DEF KeepsFlows
      <3> QED BY <2>4, <2>5, <3>1, <3>2
    <2>8. FlowsAreWanted'
      <3> SUFFICES ASSUME NEW f \in FlowIds, media[f].on, ~Removing(f)'
                   PROVE  subs'[media[f].chan].flow = f /\ subs'[media[f].chan].tx # NoTx
        BY <1>3 DEF FlowsAreWanted
      <3>1. ~Removing(f)
        BY <1>3, <2>4, <2>5, RemovingFrame
      <3>2. subs[media[f].chan].flow = f /\ f # NoFlow
        BY <1>0, <3>1, FlowIdsAreNumbers DEF FlowsAreWanted
      <3>3. media[f].chan \in Chan
        <4>1. PICK j \in Task : task[j].chan = media[f].chan /\ task[j].pc = "done"
          BY DEF SubscribeInv, MediaInv, Handed
        <4> QED BY <4>1 DEF TypeInv, ProgressInv
      <3> QED BY <1>2, <1>3, <3>2, <3>3 DEF KeepsFlows, WishInv
    <2> QED BY <1>2, <1>4, <1>6, <2>7, <2>8 DEF PoliteInv
  <1> QED BY <1>7, <1>8

------------------------------------------------------------------------------
(* The ARC task *)

\* A channel that nobody wants anything of gets a wish.
LEMMA SubscribeKeepsPoliteInv ==
    ASSUME Polite, TypeInv, SubscribeInv, PoliteInv, NEW c \in Chan, NEW t \in Targets, Subscribe(c, t)
    PROVE  PoliteInv'
  <1>0. ListInv /\ NoForgottenFlow /\ QueueInv /\ FlowsAreWanted /\ AttemptInv /\ WishInv
    BY DEF PoliteInv
  <1>1. /\ arc.pc = "idle" /\ arc'.pc = "spawn" /\ arc'.chan = c
        /\ UNCHANGED <<task, rxFlows, cmds, media, mediaUp>>
        /\ subs[c].tx = NoTx /\ \A k \in Task : Live(k) => task[k].chan # c
    BY DEF Polite, Subscribe, MayPatch, MayAsk, IdleArc
  <1>2. /\ \A d \in Chan : d # c => subs'[d] = subs[d]
        /\ subs'[c].tx = t /\ subs'[c].status = "unresolved" /\ subs'[c].flow = subs[c].flow
    <2>1. subs \in [Chan -> RxSub] BY DEF TypeInv, TypeOK
    <2> QED BY <2>1 DEF Subscribe, RxSub
  <1>3. t # NoTx /\ subs[c].flow = NoFlow
    BY <1>0, <1>1, ConstantsAssumption DEF Targets, WishInv
  <1>4. AttemptInv'
    <2>1. ASSUME NEW k \in Task, Live(k)'
          PROVE  Live(k) /\ task[k].chan # c /\ subs'[task[k].chan] = subs[task[k].chan]
      <3>1. Live(k) BY <1>1, <2>1 DEF Live
      <3> QED BY <1>1, <1>2, <3>1 DEF TypeInv, ProgressInv, Live
    <2> QED BY <1>0, <1>1, <1>2, <1>3, <2>1 DEF AttemptInv
  <1>5. WishInv'
    BY <1>0, <1>1, <1>2, <1>3 DEF WishInv
  <1>6. KeepsFlows
    BY <1>2 DEF KeepsFlows
  <1>7. QueueInv' /\ FlowsAreWanted'
    BY <1>0, <1>1, <1>5, <1>6, WantedFrame
  <1>8. NoForgottenFlow'
    BY <1>0, <1>1, <1>6, ForgottenFrame
  <1>9. ListInv'
    BY <1>0, <1>1, ListFrame
  <1> QED BY <1>4, <1>5, <1>7, <1>8, <1>9 DEF PoliteInv

\* The attempt is spawned.
LEMMA SpawnKeepsPoliteInv ==
    ASSUME TypeInv, SubscribeInv, PoliteInv, SpawnEstablish
    PROVE  PoliteInv'
  <1>0. ListInv /\ NoForgottenFlow /\ QueueInv /\ FlowsAreWanted /\ AttemptInv /\ WishInv
    BY DEF PoliteInv
  <1>1. PICK k \in Task : /\ Fresh(k)
                          /\ task' = [task EXCEPT ![k] =
                                [IdleTask EXCEPT !.pc = "resolve", !.chan = arc.chan, !.tx = arc.tx]]
    BY DEF SpawnEstablish
  <1>2. /\ arc.pc = "spawn" /\ arc'.pc = "idle" /\ UNCHANGED <<subs, rxFlows, cmds, media, mediaUp>>
        /\ arc.chan \in Chan
    BY DEF SpawnEstablish, IdleArc, TypeInv, ProgressInv
  <1>3. /\ \A j \in Task : j # k => task'[j] = task[j]
        /\ task'[k].pc = "resolve" /\ task'[k].chan = arc.chan /\ task'[k].fid = NoFlow
    <2>1. task \in [Task -> Establish] BY DEF TypeInv, TypeOK
    <2> QED BY <1>1, <2>1 DEF IdleTask
  <1>4. task[k].pc = "idle" /\ task[k].fid = NoFlow
    BY <1>1 DEF Fresh, TypeInv, ProgressInv
  <1>5. \A j \in Task : /\ Live(j)' => j = k \/ Live(j)
                        /\ j # k /\ Live(j) => task[j].chan # arc.chan
    BY <1>0, <1>2, <1>3 DEF Live, AttemptInv
  <1>6. AttemptInv'
    <2>1. ASSUME NEW j \in Task, Live(j)'
          PROVE  /\ \A m \in Task : Live(m)' /\ task'[m].chan = task'[j].chan => m = j
                 /\ subs'[task'[j].chan].tx # NoTx
                 /\ subs'[task'[j].chan].flow = IF task'[j].pc = "add" THEN task'[j].fid ELSE NoFlow
                 /\ subs'[task'[j].chan].status = IF task'[j].pc = "resolve" THEN "unresolved" ELSE "establishing"
      <3>1. CASE j = k
        BY <1>0, <1>2, <1>3, <1>5, <3>1 DEF AttemptInv
      <3>2. CASE j # k
        BY <1>0, <1>2, <1>3, <1>5, <2>1, <3>2 DEF AttemptInv
      <3> QED BY <3>1, <3>2
    <2> QED BY <1>2, <2>1 DEF AttemptInv
  <1>7. WishInv' /\ KeepsFlows
    BY <1>0, <1>2 DEF WishInv, KeepsFlows
  <1>8. QueueInv' /\ FlowsAreWanted'
    BY <1>0, <1>2, <1>7, WantedFrame
  <1>9. \A j \in Task : /\ task[j].pc = "record" => task'[j].pc = "record" /\ task'[j].fid = task[j].fid
                        /\ task'[j].fid \in {task[j].fid, nextFlowId, NoFlow}
                        /\ task[j].fid # NoFlow => task'[j].chan = task[j].chan
    BY <1>3, <1>4
  <1>10. NoForgottenFlow'
    BY <1>0, <1>2, <1>7, <1>9, ForgottenFrame
  <1>11. ListInv'
    BY <1>0, <1>2, <1>9, ListFrame
  <1> QED BY <1>6, <1>7, <1>8, <1>10, <1>11 DEF PoliteInv

\* The wish is withdrawn; what it named is about to be removed.
LEMMA UnsubscribeKeepsPoliteInv ==
    ASSUME Polite, TypeInv, SubscribeInv, PoliteInv, NEW c \in Chan, Unsubscribe(c)
    PROVE  PoliteInv'
  <1>0. ListInv /\ NoForgottenFlow /\ QueueInv /\ FlowsAreWanted /\ AttemptInv /\ WishInv
    BY DEF PoliteInv
  <1>1. /\ arc.pc = "idle" /\ arc'.pc = "stop" /\ arc'.chan = c /\ arc'.fid = subs[c].flow
        /\ UNCHANGED <<task, rxFlows, cmds, media, mediaUp>>
        /\ \A k \in Task : Live(k) => task[k].chan # c
    BY DEF Polite, Unsubscribe, MayAsk, IdleArc
  <1>2. /\ \A d \in Chan : d # c => subs'[d] = subs[d]
        /\ subs'[c].tx = NoTx /\ subs'[c].status = "none" /\ subs'[c].flow = NoFlow
    <2>1. subs \in [Chan -> RxSub] BY DEF TypeInv, TypeOK
    <2> QED BY <2>1 DEF Unsubscribe, DefaultSub
  <1>3. AttemptInv'
    <2>1. ASSUME NEW k \in Task, Live(k)'
          PROVE  Live(k) /\ task[k].chan # c /\ subs'[task[k].chan] = subs[task[k].chan]
      <3>1. Live(k) BY <1>1, <2>1 DEF Live
      <3> QED BY <1>1, <1>2, <3>1 DEF TypeInv, ProgressInv, Live
    <2> QED BY <1>0, <1>1, <1>2, <2>1 DEF AttemptInv
  <1>4. WishInv'
    BY <1>0, <1>1, <1>2 DEF WishInv
  <1>5. ListInv'
    BY <1>0, <1>1, ListFrame
  <1>6. \A d \in Chan : subs[d].flow # NoFlow => subs'[d].flow = subs[d].flow \/ arc'.fid = subs[d].flow
    BY <1>1, <1>2
  <1>7. NoForgottenFlow'
    <2> SUFFICES ASSUME NEW i \in 1..Len(rxFlows)
                 PROVE  \/ subs'[rxFlows[i].chan].flow = rxFlows[i].id
                        \/ \E k \in Task : task'[k].pc = "record" /\ task'[k].fid = rxFlows[i].id
                        \/ arc'.pc = "stop" /\ arc'.fid = rxFlows[i].id
      BY <1>1 DEF NoForgottenFlow
    <2>1. rxFlows[i].id # NoFlow /\ rxFlows[i].chan \in Chan
      BY FieldTypes
    <2> QED BY <1>0, <1>1, <1>6, <2>1 DEF NoForgottenFlow
  <1>8. QueueInv'
    <2> SUFFICES ASSUME NEW i \in 1..Len(cmds), cmds[i].op = "add", subs[cmds[i].chan].flow = cmds[i].id
                 PROVE  subs'[cmds[i].chan].flow = cmds[i].id \/ arc'.fid = cmds[i].id
      BY <1>0, <1>1 DEF QueueInv
    <2>1. cmds[i].id # NoFlow /\ cmds[i].chan \in Chan
      BY DEF SubscribeInv, MediaInv, TypeInv, TypeOK, Command
    <2> QED BY <1>6, <2>1
  <1>9. FlowsAreWanted'
    <2> SUFFICES ASSUME NEW f \in FlowIds, media[f].on, ~Removing(f)'
                 PROVE  subs'[media[f].chan].flow = f /\ subs'[media[f].chan].tx # NoTx
      BY <1>1 DEF FlowsAreWanted
    <2>1. ~Removing(f) /\ f # arc'.fid
      BY <1>1 DEF Removing
    <2>2. subs[media[f].chan].flow = f /\ f # NoFlow
      BY <1>0, <2>1, FlowIdsAreNumbers DEF FlowsAreWanted
    <2>3. media[f].chan \in Chan
      <3>1. PICK k \in Task : task[k].chan = media[f].chan /\ task[k].pc = "done"
        BY DEF SubscribeInv, MediaInv, Handed
      <3> QED BY <3>1 DEF TypeInv, ProgressInv
    <2> QED BY <1>4, <1>6, <2>1, <2>2, <2>3 DEF WishInv
  <1> QED BY <1>3, <1>4, <1>5, <1>7, <1>8, <1>9 DEF PoliteInv

\* Removing an entry moves the later ones up by one.
LEMMA RemoveAtIndex ==
    ASSUME NEW S, NEW s \in Seq(S), NEW i \in 1..Len(s)
    PROVE  /\ Len(RemoveAt(s, i)) = Len(s) - 1
           /\ \A j \in 1..Len(s) - 1 : RemoveAt(s, i)[j] = IF j < i THEN s[j] ELSE s[j + 1]
  <1> DEFINE a == SubSeq(s, 1, i - 1)
             b == SubSeq(s, i + 1, Len(s))
  <1>1. /\ a \in Seq(S) /\ Len(a) = i - 1 /\ \A j \in 1..i - 1 : a[j] = s[j]
    OBVIOUS
  <1>2. /\ b \in Seq(S) /\ Len(b) = Len(s) - i /\ \A j \in 1..Len(s) - i : b[j] = s[i + j]
    OBVIOUS
  <1>3. RemoveAt(s, i) = a \o b
    BY DEF RemoveAt
  <1> HIDE DEF a, b
  <1>4. Len(a \o b) = Len(s) - 1
    BY <1>1, <1>2
  <1>5. \A j \in 1..Len(s) - 1 : (a \o b)[j] = IF j < i THEN s[j] ELSE s[j + 1]
    BY <1>1, <1>2
  <1> QED BY <1>3, <1>4, <1>5

\* stop_flow takes the one entry of the flow out of rx_flows.
LEMMA StopFlowRemoves ==
    ASSUME TypeInv, ListInv, NEW f \in FlowIds, StopFlow(f)
    PROVE  /\ \A i, j \in 1..Len(rxFlows') : rxFlows'[i].id = rxFlows'[j].id => i = j
           /\ \A i \in 1..Len(rxFlows') : /\ rxFlows'[i].id # f
                                          /\ \E m \in 1..Len(rxFlows) : rxFlows'[i] = rxFlows[m]
  <1>0. rxFlows \in Seq(RxFlowInfo) /\ Len(rxFlows) \in Nat
    BY DEF TypeInv, TypeOK
  <1>1. CASE ~Known(f) /\ UNCHANGED rxFlows
    BY <1>1 DEF Known, ListInv
  <1>2. ASSUME NEW p \in 1..Len(rxFlows), IsPosition(p, f), rxFlows' = RemoveAt(rxFlows, p)
        PROVE  /\ \A i, j \in 1..Len(rxFlows') : rxFlows'[i].id = rxFlows'[j].id => i = j
               /\ \A i \in 1..Len(rxFlows') : /\ rxFlows'[i].id # f
                                              /\ \E m \in 1..Len(rxFlows) : rxFlows'[i] = rxFlows[m]
    <2> DEFINE from(i) == IF i < p THEN i ELSE i + 1
    <2>1. /\ Len(rxFlows') = Len(rxFlows) - 1
          /\ \A j \in 1..Len(rxFlows) - 1 : rxFlows'[j] = IF j < p THEN rxFlows[j] ELSE rxFlows[j + 1]
      BY <1>0, <1>2, RemoveAtIndex
    <2>2. \A i \in 1..Len(rxFlows') : from(i) \in 1..Len(rxFlows) /\ from(i) # p
      BY <1>0, <2>1
    <2>3. \A i \in 1..Len(rxFlows') : rxFlows'[i] = rxFlows[from(i)]
      BY <2>1
    <2>4. \A i, j \in 1..Len(rxFlows') : from(i) = from(j) => i = j
      BY <1>0, <2>1
    <2> HIDE DEF from
    <2>5. \A i, j \in 1..Len(rxFlows') : rxFlows'[i].id = rxFlows'[j].id => i = j
      BY <2>2, <2>3, <2>4 DEF ListInv
    <2>6. \A i \in 1..Len(rxFlows') : rxFlows'[i].id # f
      BY <1>2, <2>2, <2>3 DEF ListInv, IsPosition
    <2> QED BY <2>2, <2>3, <2>5, <2>6
  <1> QED BY <1>1, <1>2 DEF StopFlow

\* The flow of the subscription that was withdrawn is removed.
LEMMA FinishKeepsPoliteInv ==
    ASSUME TypeInv, SubscribeInv, PoliteInv, FinishUnsubscribe
    PROVE  PoliteInv'
  <1>0. ListInv /\ NoForgottenFlow /\ QueueInv /\ FlowsAreWanted /\ AttemptInv /\ WishInv
    BY DEF PoliteInv
  <1>1. /\ arc.pc = "stop" /\ arc'.pc = "idle" /\ UNCHANGED <<subs, task, media, mediaUp>>
        /\ arc.fid \in FlowIds \cup {NoFlow}
    BY DEF FinishUnsubscribe, IdleArc, TypeInv, TypeOK, ArcTask
  <1>2. AttemptInv' /\ WishInv' /\ KeepsFlows
    BY <1>0, <1>1 DEF AttemptInv, WishInv, KeepsFlows, Live
  <1>3. /\ \A i, j \in 1..Len(rxFlows') : rxFlows'[i].id = rxFlows'[j].id => i = j
        /\ \A i \in 1..Len(rxFlows') : /\ rxFlows'[i].id # arc.fid
                                       /\ \E m \in 1..Len(rxFlows) : rxFlows'[i] = rxFlows[m]
    <2>1. CASE arc.fid = NoFlow
      <3>1. UNCHANGED rxFlows BY <2>1, FlowIdsAreNumbers DEF FinishUnsubscribe
      <3> QED BY <1>0, <2>1, <3>1, FieldTypes DEF ListInv
    <2>2. CASE arc.fid # NoFlow
      <3>1. arc.fid \in FlowIds /\ StopFlow(arc.fid) BY <1>1, <2>2 DEF FinishUnsubscribe
      <3> QED BY <1>0, <3>1, StopFlowRemoves
    <2> QED BY <2>1, <2>2
  <1>4. ListInv'
    BY <1>0, <1>1, <1>3 DEF ListInv
  <1>5. NoForgottenFlow'
    BY <1>0, <1>1, <1>3 DEF NoForgottenFlow
  <1>6. CASE arc.fid = NoFlow \/ ~mediaUp
    <2>1. UNCHANGED cmds
      BY <1>6 DEF FinishUnsubscribe, StopFlow, Send
    <2>2. QueueInv'
      <3>1. \A i \in 1..Len(cmds) : cmds[i].op = "add" => cmds[i].id # arc.fid
        <4>1. CASE arc.fid = NoFlow BY <4>1 DEF SubscribeInv, MediaInv
        <4>2. CASE ~mediaUp
          <5>1. Len(cmds) = 0 BY <4>2 DEF SubscribeInv, MediaInv
          <5> QED BY <5>1
        <4> QED BY <1>6, <4>1, <4>2
      <3> QED BY <1>0, <1>1, <2>1, <3>1 DEF QueueInv
    <2>3. FlowsAreWanted'
      <3> SUFFICES ASSUME NEW f \in FlowIds, media[f].on, ~Removing(f)'
                   PROVE  subs[media[f].chan].flow = f /\ subs[media[f].chan].tx # NoTx
        BY <1>1 DEF FlowsAreWanted
      <3>1. f # NoFlow /\ mediaUp BY <1>0, FlowIdsAreNumbers DEF QueueInv
      <3>2. ~Removing(f) BY <1>1, <1>6, <2>1, <3>1 DEF Removing
      <3> QED BY <1>0, <3>2 DEF FlowsAreWanted
    <2> QED BY <1>2, <1>4, <1>5, <2>2, <2>3 DEF PoliteInv
  <1>7. CASE arc.fid # NoFlow /\ mediaUp
    <2>1. PICK e : /\ e = [op |-> "remove", id |-> arc.fid, chan |-> 0, port |-> NoPort]
                   /\ cmds' = Append(cmds, e)
      BY <1>7 DEF FinishUnsubscribe, StopFlow, Send
    <2>2. e \in Command /\ e.op = "remove" /\ e.id = arc.fid
      BY <1>1, <1>7, <2>1 DEF Command
    <2>3. cmds \in Seq(Command) /\ Len(cmds) \in Nat
      BY DEF TypeInv, TypeOK
    <2>4. /\ Len(cmds') = Len(cmds) + 1 /\ cmds'[Len(cmds) + 1] = e
          /\ \A i \in 1..Len(cmds) : cmds'[i] = cmds[i]
      BY <2>1, <2>2, <2>3, AppendEntries
    <2>5. /\ Len(cmds) + 1 \in 1..Len(cmds')
          /\ \A i \in 1..Len(cmds) : i \in 1..Len(cmds') /\ i < Len(cmds) + 1
          /\ \A i \in 1..Len(cmds') : i \in 1..Len(cmds) \/ i = Len(cmds) + 1
      BY <2>3, <2>4
    <2>6. QueueInv'
      <3> SUFFICES ASSUME NEW i \in 1..Len(cmds'), cmds'[i].op = "add"
                   PROVE  \/ subs'[cmds'[i].chan].flow = cmds'[i].id
                          \/ \E j \in 1..Len(cmds') : i < j /\ cmds'[j].op = "remove" /\ cmds'[j].id = cmds'[i].id
        BY <1>0, <1>1 DEF QueueInv
      <3>1. i \in 1..Len(cmds) /\ cmds'[i] = cmds[i]
        BY <2>2, <2>4, <2>5
      <3> QED BY <1>0, <1>1, <2>2, <2>4, <2>5, <3>1 DEF QueueInv
    <2>7. FlowsAreWanted'
      <3> SUFFICES ASSUME NEW f \in FlowIds, media[f].on, ~Removing(f)'
                   PROVE  subs[media[f].chan].flow = f /\ subs[media[f].chan].tx # NoTx
        BY <1>1 DEF FlowsAreWanted
      <3>1. f # arc.fid
        BY <2>2, <2>4, <2>5 DEF Removing
      <3>2. ~Removing(f)
        BY <2>4, <2>5, <3>1 DEF Removing
      <3> QED BY <1>0, <3>2 DEF FlowsAreWanted
    <2> QED BY <1>2, <1>4, <1>5, <2>6, <2>7 DEF PoliteInv
  <1> QED BY <1>6, <1>7

------------------------------------------------------------------------------
(* The media thread, the stop signal and the network *)

\* The first command is taken from the queue and done.
LEMMA CommandKeepsPoliteInv ==
    ASSUME TypeInv, SubscribeInv, PoliteInv, MediaAdd \/ MediaRemove
    PROVE  PoliteInv'
  <1>0. ListInv /\ NoForgottenFlow /\ QueueInv /\ FlowsAreWanted /\ AttemptInv /\ WishInv
    BY DEF PoliteInv
  <1>1. /\ UNCHANGED <<subs, arc, task, rxFlows, mediaUp>> /\ mediaUp
        /\ cmds # <<>> /\ cmds' = Tail(cmds) /\ cmds \in Seq(Command)
        /\ media \in [FlowIds -> MediaFlow]
    BY DEF MediaAdd, MediaRemove, TypeInv, TypeOK
  <1>2. AttemptInv' /\ WishInv' /\ ListInv' /\ NoForgottenFlow'
    BY <1>0, <1>1 DEF AttemptInv, WishInv, ListInv, NoForgottenFlow, Live
  <1>3. PICK h \in Command : h = cmds[1] /\ h = Head(cmds)
    BY <1>1, TailEntries
  <1>4. /\ Len(cmds') = Len(cmds) - 1 /\ Len(cmds) \in Nat /\ 1 \in 1..Len(cmds)
        /\ \A i \in 1..Len(cmds') : cmds'[i] = cmds[i + 1] /\ i + 1 \in 1..Len(cmds)
    BY <1>1, TailEntries
  <1>5. \A j \in 1..Len(cmds) : j # 1 => j - 1 \in 1..Len(cmds') /\ cmds'[j - 1] = cmds[j]
    BY <1>4
  <1>6. h.op \in {"add", "remove"} /\ h.id \in FlowIds
    BY <1>3 DEF MediaAdd, MediaRemove, Command
  <1>7. QueueInv'
    <2> SUFFICES ASSUME NEW i \in 1..Len(cmds'), cmds'[i].op = "add"
                 PROVE  \/ subs[cmds'[i].chan].flow = cmds'[i].id
                        \/ arc.pc = "stop" /\ arc.fid = cmds'[i].id
                        \/ \E j \in 1..Len(cmds') : i < j /\ cmds'[j].op = "remove" /\ cmds'[j].id = cmds'[i].id
      BY <1>1 DEF QueueInv
    <2>1. cmds'[i] = cmds[i + 1] /\ i + 1 \in 1..Len(cmds)
      BY <1>4
    <2>2. ASSUME NEW j \in 1..Len(cmds), i + 1 < j, cmds[j].op = "remove", cmds[j].id = cmds'[i].id
          PROVE  \E m \in 1..Len(cmds') : i < m /\ cmds'[m].op = "remove" /\ cmds'[m].id = cmds'[i].id
      <3>1. j # 1 /\ i < j - 1 BY <1>4, <2>2
      <3>2. j - 1 \in 1..Len(cmds') /\ cmds'[j - 1] = cmds[j] BY <1>5, <3>1
      <3> QED BY <2>2, <3>1, <3>2
    <2> QED BY <1>0, <2>1, <2>2 DEF QueueInv
  <1>8. FlowsAreWanted'
    <2> SUFFICES ASSUME NEW f \in FlowIds, media'[f].on, ~Removing(f)'
                 PROVE  subs[media'[f].chan].flow = f /\ subs[media'[f].chan].tx # NoTx
      BY <1>1 DEF FlowsAreWanted
    <2>1. CASE h.op = "add"
      <3>1. media' = [media EXCEPT ![h.id] = [on |-> TRUE, chan |-> h.chan, port |-> h.port, saw |-> FALSE]]
        BY <1>3, <2>1 DEF MediaAdd, MediaRemove
      <3>2. CASE f = h.id
        <4>1. media'[f].chan = h.chan BY <1>1, <3>1, <3>2
        <4>2. ASSUME NEW j \in 1..Len(cmds), 1 < j, cmds[j].op = "remove", cmds[j].id = f PROVE FALSE
          BY <1>4, <1>5, <4>2 DEF Removing
        <4>3. subs[h.chan].flow = h.id
          BY <1>0, <1>1, <1>3, <1>4, <2>1, <3>2, <4>2 DEF QueueInv, Removing
        <4>4. h.chan \in Chan BY <2>1 DEF Command
        <4> QED BY <1>0, <1>6, <3>2, <4>1, <4>3, <4>4, FlowIdsAreNumbers DEF WishInv
      <3>3. CASE f # h.id
        <4>1. media'[f] = media[f] BY <1>1, <3>1, <3>3
        <4>2. ~Removing(f) BY <1>1, <1>3, <1>5, <2>1 DEF Removing
        <4> QED BY <1>0, <4>1, <4>2 DEF FlowsAreWanted
      <3> QED BY <3>2, <3>3
    <2>2. CASE h.op = "remove"
      <3>1. media' = [media EXCEPT ![h.id] = NoMediaFlow]
        BY <1>3, <2>2 DEF MediaAdd, MediaRemove
      <3>2. f # h.id /\ media'[f] = media[f]
        BY <1>1, <3>1 DEF NoMediaFlow
      <3>3. ~Removing(f) BY <1>1, <1>3, <1>5, <3>2 DEF Removing
      <3> QED BY <1>0, <3>2, <3>3 DEF FlowsAreWanted
    <2> QED BY <1>6, <2>1, <2>2
  <1> QED BY <1>2, <1>7, <1>8 DEF PoliteInv

\* The channels whose status a packet on flow f sets: they name f, and are
\* the one channel the flow was made for; no attempt of it is under way.
LEMMA PacketEffect ==
    ASSUME TypeInv, SubscribeInv, AttemptInv, NEW f \in FlowIds, NEW k \in Task, MediaPacket(f, k)
    PROVE  /\ UNCHANGED <<arc, task, rxFlows, cmds, mediaUp>> /\ mediaUp
           /\ \A d \in Chan : subs'[d].flow = subs[d].flow /\ subs'[d].tx = subs[d].tx
           /\ \A d \in Chan : subs[d].flow # f => subs'[d] = subs[d]
           /\ \A d \in Chan : subs'[d].status \in {subs[d].status, "receiving"}
           /\ \A g \in FlowIds : media'[g].on = media[g].on /\ media'[g].chan = media[g].chan
           /\ \A d \in Chan : subs[d].flow = f => d = media[f].chan /\ \A j \in Task : Live(j) => task[j].chan # d
  <1>1. /\ media \in [FlowIds -> MediaFlow] /\ subs \in [Chan -> RxSub]
        /\ media' = [media EXCEPT ![f].saw = TRUE] /\ media[f].on /\ mediaUp
        /\ UNCHANGED <<arc, task, rxFlows, cmds, mediaUp>>
        /\ UNCHANGED subs \/ MarkReceiving(f)
    BY DEF MediaPacket, TypeInv, TypeOK
  <1>2. \A g \in FlowIds : media'[g].on = media[g].on /\ media'[g].chan = media[g].chan
    BY <1>1 DEF MediaFlow
  <1>3. \A d \in Chan : subs'[d] = subs[d] \/ (subs[d].flow = f /\ subs'[d] = [subs[d] EXCEPT !.status = "receiving"])
    BY <1>1 DEF MarkReceiving
  <1>4. \A d \in Chan : /\ subs'[d].flow = subs[d].flow /\ subs'[d].tx = subs[d].tx
                        /\ subs'[d].status \in {subs[d].status, "receiving"}
    BY <1>1, <1>3 DEF RxSub
  <1>5. ASSUME NEW d \in Chan, subs[d].flow = f
        PROVE  d = media[f].chan /\ \A j \in Task : Live(j) => task[j].chan # d
    <2>1. f # NoFlow BY FlowIdsAreNumbers
    <2>2. PICK m \in Task : task[m].fid = f /\ task[m].chan = media[f].chan /\ task[m].pc = "done"
      BY <1>1 DEF SubscribeInv, MediaInv, Handed
    <2>3. PICK n \in Task : task[n].fid = f /\ task[n].chan = d
      BY <1>5, <2>1 DEF SubscribeInv, FlowsInv
    <2>4. m = n BY <2>1, <2>2, <2>3, OneTask DEF SubscribeInv
    <2>5. ASSUME NEW j \in Task, Live(j), task[j].chan = d PROVE FALSE
      <3>1. task[j].pc = "add" /\ task[j].fid = f
        BY <1>5, <2>1, <2>5 DEF AttemptInv
      <3>2. j = m BY <2>1, <2>2, <3>1, OneTask DEF SubscribeInv
      <3> QED BY <2>2, <3>1, <3>2
    <2> QED BY <2>2, <2>3, <2>4, <2>5
  <1> QED BY <1>1, <1>2, <1>3, <1>4, <1>5

\* A packet arrives.
LEMMA PacketKeepsPoliteInv ==
    ASSUME TypeInv, SubscribeInv, PoliteInv, NEW f \in FlowIds, NEW k \in Task, MediaPacket(f, k)
    PROVE  PoliteInv'
  <1>0. ListInv /\ NoForgottenFlow /\ QueueInv /\ FlowsAreWanted /\ AttemptInv /\ WishInv
    BY DEF PoliteInv
  <1>1. /\ UNCHANGED <<arc, task, rxFlows, cmds, mediaUp>> /\ mediaUp
        /\ \A d \in Chan : subs'[d].flow = subs[d].flow /\ subs'[d].tx = subs[d].tx
        /\ \A d \in Chan : subs[d].flow # f => subs'[d] = subs[d]
        /\ \A d \in Chan : subs'[d].status \in {subs[d].status, "receiving"}
        /\ \A g \in FlowIds : media'[g].on = media[g].on /\ media'[g].chan = media[g].chan
        /\ \A d \in Chan : subs[d].flow = f => \A j \in Task : Live(j) => task[j].chan # d
    BY <1>0, PacketEffect
  <1>2. AttemptInv'
    <2>1. ASSUME NEW j \in Task, Live(j) PROVE subs'[task[j].chan] = subs[task[j].chan]
      <3>1. task[j].chan \in Chan BY <2>1 DEF Live, TypeInv, ProgressInv
      <3> QED BY <1>1, <2>1, <3>1
    <2>2. arc.pc = "spawn" => subs'[arc.chan] = subs[arc.chan]
      <3>1. f # NoFlow BY FlowIdsAreNumbers
      <3> QED BY <1>0, <1>1, <3>1 DEF AttemptInv, TypeInv, ProgressInv
    <2>3. \A j \in Task : Live(j)' <=> Live(j) BY <1>1 DEF Live
    <2> QED BY <1>0, <1>1, <2>1, <2>2, <2>3 DEF AttemptInv
  <1>3. WishInv' /\ KeepsFlows
    BY <1>0, <1>1 DEF WishInv, KeepsFlows
  <1>4. ListInv' /\ NoForgottenFlow'
    BY <1>0, <1>1, <1>3, ForgottenFrame DEF ListInv
  <1>5. QueueInv'
    <2>1. \A i \in 1..Len(cmds) : cmds[i].op = "add" => cmds[i].chan \in Chan
      BY DEF TypeInv, TypeOK, Command
    <2> QED BY <1>0, <1>1, <2>1 DEF QueueInv
  <1>6. FlowsAreWanted'
    <2> SUFFICES ASSUME NEW g \in FlowIds, media[g].on, ~Removing(g)
                 PROVE  subs'[media[g].chan].flow = g /\ subs'[media[g].chan].tx # NoTx
      BY <1>1 DEF FlowsAreWanted, Removing
    <2>1. PICK j \in Task : task[j].chan = media[g].chan /\ task[j].pc = "done"
      BY DEF SubscribeInv, MediaInv, Handed
    <2>2. media[g].chan \in Chan
      BY <2>1 DEF TypeInv, ProgressInv
    <2> QED BY <1>0, <1>1, <2>2 DEF FlowsAreWanted
  <1> QED BY <1>2, <1>3, <1>4, <1>5, <1>6 DEF PoliteInv

\* The media thread ends, or is told to; the ARC task ends; datagrams come and go.
LEMMA OtherKeepsPoliteInv ==
    ASSUME TypeInv, SubscribeInv, PoliteInv,
           MediaExit \/ SignalStop \/ AbortArc \/ (\E k \in Task : TxStep(k)) \/ UNCHANGED vars
    PROVE  PoliteInv'
  <1>0. ListInv /\ NoForgottenFlow /\ QueueInv /\ FlowsAreWanted /\ AttemptInv /\ WishInv
    BY DEF PoliteInv
  <1>1. /\ UNCHANGED <<subs, task, rxFlows>> /\ (mediaUp' => mediaUp)
        /\ arc' = arc \/ (arc.pc = "idle" /\ arc'.pc = "down")
    BY DEF MediaExit, SignalStop, AbortArc, IdleArc, TxStep, TxAccept, TxRefuse, TxStop, Lose, TxEnds, vars, local
  <1>2. AttemptInv' /\ WishInv' /\ ListInv' /\ NoForgottenFlow'
    <2>1. AttemptInv' BY <1>0, <1>1 DEF AttemptInv, Live
    <2>2. WishInv' BY <1>0, <1>1 DEF WishInv
    <2>3. ListInv' BY <1>0, <1>1 DEF ListInv
    <2>4. NoForgottenFlow' BY <1>0, <1>1 DEF NoForgottenFlow
    <2> QED BY <2>1, <2>2, <2>3, <2>4
  <1>3. CASE MediaExit
    <2>1. cmds' = <<>> /\ Len(cmds') = 0 /\ \A f \in FlowIds : ~media'[f].on
      BY <1>3 DEF MediaExit, NoMediaFlow
    <2>2. QueueInv' /\ FlowsAreWanted'
      BY <2>1 DEF QueueInv, FlowsAreWanted
    <2> QED BY <1>2, <2>2 DEF PoliteInv
  <1>4. CASE SignalStop
    <2>1. cmds \in Seq(Command) /\ Len(cmds) \in Nat /\ UNCHANGED <<arc, media, mediaUp>>
      BY <1>4 DEF TypeInv, TypeOK, SignalStop
    <2>2. PICK e \in Command : e.op = "shutdown" /\ cmds' = IF mediaUp THEN Append(cmds, e) ELSE cmds
      <3>1. [op |-> "shutdown", id |-> NoFlow, chan |-> 0, port |-> NoPort] \in Command
        BY DEF Command
      <3> QED BY <1>4, <3>1 DEF SignalStop, Send
    <2>3. /\ Len(cmds') \in Nat /\ Len(cmds) <= Len(cmds')
          /\ \A i \in 1..Len(cmds) : i \in 1..Len(cmds') /\ cmds'[i] = cmds[i]
          /\ \A i \in 1..Len(cmds') : cmds'[i].op = "add" => i \in 1..Len(cmds)
      <3>1. CASE ~mediaUp BY <2>1, <2>2, <3>1
      <3>2. CASE mediaUp
        <4>1. /\ Len(cmds') = Len(cmds) + 1 /\ cmds'[Len(cmds) + 1] = e
              /\ \A i \in 1..Len(cmds) : cmds'[i] = cmds[i]
          BY <2>1, <2>2, <3>2, AppendEntries
        <4>2. \A i \in 1..Len(cmds') : i \in 1..Len(cmds) \/ i = Len(cmds) + 1
          BY <2>1, <4>1
        <4> QED BY <2>1, <2>2, <4>1, <4>2
      <3> QED BY <3>1, <3>2
    <2>4. QueueInv' BY <1>0, <1>1, <2>1, <2>3 DEF QueueInv
    <2>5. FlowsAreWanted'
      <3>1. \A f : Removing(f) => Removing(f)' BY <2>1, <2>3, RemovingFrame
      <3> QED BY <1>0, <1>1, <2>1, <3>1 DEF FlowsAreWanted
    <2> QED BY <1>2, <2>4, <2>5 DEF PoliteInv
  <1>5. CASE AbortArc \/ (\E k \in Task : TxStep(k)) \/ UNCHANGED vars
    <2>1. UNCHANGED <<cmds, media, mediaUp>>
      BY <1>5 DEF AbortArc, TxStep, TxAccept, TxRefuse, TxStop, Lose, TxEnds, vars, local
    <2>2. QueueInv' /\ FlowsAreWanted'
      BY <1>0, <1>1, <2>1 DEF QueueInv, FlowsAreWanted, Removing
    <2> QED BY <1>2, <2>2 DEF PoliteInv
  <1> QED BY <1>3, <1>4, <1>5

------------------------------------------------------------------------------
(* The invariant *)

\* Nothing is subscribed, listed or running.
LEMMA InitPoliteInv == Init => PoliteInv
  <1> SUFFICES ASSUME Init PROVE PoliteInv
    OBVIOUS
  <1>1. AttemptInv /\ WishInv
    BY DEF Init, AttemptInv, WishInv, Live, IdleTask, IdleArc, DefaultSub
  <1>2. Len(rxFlows) = 0 /\ Len(cmds) = 0 /\ \A f \in FlowIds : ~media[f].on
    BY DEF Init, NoMediaFlow
  <1>3. ListInv /\ NoForgottenFlow /\ QueueInv /\ FlowsAreWanted
    BY <1>2 DEF ListInv, NoForgottenFlow, QueueInv, FlowsAreWanted
  <1> QED BY <1>1, <1>3 DEF PoliteInv

\* Every step keeps the invariant.
LEMMA NextKeepsPoliteInv ==
    ASSUME Polite, SubscribeInv, PoliteInv, [Next]_vars
    PROVE  PoliteInv'
  <1>0. TypeInv BY DEF SubscribeInv, TypeInv
  <1>1. ASSUME NEW c \in Chan, NEW t \in Targets, Subscribe(c, t) PROVE PoliteInv'
    BY <1>0, <1>1, SubscribeKeepsPoliteInv
  <1>2. ASSUME NEW c \in Chan, Unsubscribe(c) PROVE PoliteInv'
    BY <1>0, <1>2, UnsubscribeKeepsPoliteInv
  <1>3. CASE ArcStep
    BY <1>0, <1>3, SpawnKeepsPoliteInv, FinishKeepsPoliteInv DEF ArcStep
  <1>4. ASSUME NEW k \in Task, EstablishStep(k) PROVE PoliteInv'
    BY <1>0, <1>4, MoveKeepsPoliteInv, ReplyKeepsPoliteInv, RecordKeepsPoliteInv, AddKeepsPoliteInv
       DEF EstablishStep
  <1>5. CASE MediaStep
    BY <1>0, <1>5, CommandKeepsPoliteInv, OtherKeepsPoliteInv DEF MediaStep
  <1>6. ASSUME NEW f \in FlowIds, NEW k \in Task, MediaPacket(f, k) PROVE PoliteInv'
    BY <1>0, <1>6, PacketKeepsPoliteInv
  <1>7. CASE SignalStop \/ AbortArc \/ (\E k \in Task : TxStep(k)) \/ UNCHANGED vars
    BY <1>0, <1>7, OtherKeepsPoliteInv
  <1> QED BY <1>1, <1>2, <1>3, <1>4, <1>5, <1>6, <1>7 DEF Next

\* With a polite controller and fewer attempts than flow ids, one attempt at
\* a time works on a channel and nothing of an earlier one interferes.
THEOREM PoliteInvariant == Polite /\ Spec => [](SubscribeInv /\ PoliteInv)
  <1> SUFFICES ASSUME Polite PROVE Spec => [](SubscribeInv /\ PoliteInv)
    OBVIOUS
  <1>1. Spec => []SubscribeInv
    BY SubscribeInvariant DEF Polite
  <1>2. SubscribeInv /\ PoliteInv /\ [Next]_vars => PoliteInv'
    BY NextKeepsPoliteInv
  <1> QED BY <1>1, <1>2, InitPoliteInv, PTL DEF Spec

\* No flow in the media thread outlives its subscription.
THEOREM RunningFlowsAreWanted == Polite /\ Spec => []FlowsAreWanted
  <1>1. PoliteInv => FlowsAreWanted BY DEF PoliteInv
  <1> QED BY <1>1, PoliteInvariant, PTL

\* No flow stays in rx_flows that no subscription names.
THEOREM ListedFlowsAreNamed == Polite /\ Spec => []NoForgottenFlow
  <1>1. PoliteInv => NoForgottenFlow BY DEF PoliteInv
  <1> QED BY <1>1, PoliteInvariant, PTL

------------------------------------------------------------------------------
(* What such a controller sees is a Session *)

\* A step of a Session concerns one channel.
LEMMA OneChannelStep ==
    ASSUME NEW c \in Chan,
           \A d \in Chan : d # c => subs'[d].tx = subs[d].tx /\ Phase(d)' = Phase(d),
           \/ subs'[c].tx = subs[c].tx /\ Phase(c)' = Phase(c)
           \/ Phase(c) = "none" /\ Phase(c)' = "trying" /\ subs'[c].tx \in Targets
           \/ Phase(c) = "trying" /\ Phase(c)' \in {"failed", "waiting"} /\ subs'[c].tx = subs[c].tx
           \/ Phase(c) = "waiting" /\ Phase(c)' = "receiving" /\ subs'[c].tx = subs[c].tx
           \/ /\ Phase(c) \in {"failed", "waiting", "receiving"} /\ Phase(c)' = "none"
              /\ subs'[c].tx = NoTx
    PROVE  [Promise!Next]_Promise!vars
  <1> DEFINE w == [d \in Chan |-> subs[d].tx]
             p == [d \in Chan |-> Phase(d)]
  <1>1. /\ w' = [w EXCEPT ![c] = subs'[c].tx] /\ w[c] = subs[c].tx
        /\ subs'[c].tx = subs[c].tx => w' = w
    OBVIOUS
  <1>2. /\ p' = [p EXCEPT ![c] = Phase(c)'] /\ p[c] = Phase(c)
        /\ Phase(c)' = Phase(c) => p' = p
    OBVIOUS
  <1> HIDE DEF w, p
  <1>3. CASE subs'[c].tx = subs[c].tx /\ Phase(c)' = Phase(c)
    BY <1>1, <1>2, <1>3 DEF Promise!vars, w, p
  <1>4. CASE Phase(c) = "none" /\ Phase(c)' = "trying" /\ subs'[c].tx \in Targets
    BY <1>1, <1>2, <1>4 DEF Promise!Next, Promise!Patch, w, p
  <1>5. CASE Phase(c) = "trying" /\ Phase(c)' = "failed" /\ subs'[c].tx = subs[c].tx
    BY <1>1, <1>2, <1>5 DEF Promise!Next, Promise!Fail, w, p
  <1>6. CASE Phase(c) = "trying" /\ Phase(c)' = "waiting" /\ subs'[c].tx = subs[c].tx
    BY <1>1, <1>2, <1>6 DEF Promise!Next, Promise!Establish, w, p
  <1>7. CASE Phase(c) = "waiting" /\ Phase(c)' = "receiving" /\ subs'[c].tx = subs[c].tx
    BY <1>1, <1>2, <1>7 DEF Promise!Next, Promise!Receive, w, p
  <1>8. CASE /\ Phase(c) \in {"failed", "waiting", "receiving"} /\ Phase(c)' = "none"
             /\ subs'[c].tx = NoTx
    BY <1>1, <1>2, <1>8 DEF Promise!Next, Promise!Unpatch, w, p
  <1> QED BY <1>3, <1>4, <1>5, <1>6, <1>7, <1>8

\* A channel whose subscription and attempts stay as they are keeps its phase.
LEMMA PhaseFrame ==
    ASSUME NEW d \in Chan, subs'[d].tx = subs[d].tx, subs'[d].status = subs[d].status,
           Trying(d)' <=> Trying(d)
    PROVE  Phase(d)' = Phase(d)
  BY DEF Phase

\* A step that leaves subscriptions and attempts alone does not show.
LEMMA NothingShows ==
    ASSUME \A d \in Chan : subs'[d] = subs[d] /\ (Trying(d)' <=> Trying(d))
    PROVE  UNCHANGED Promise!vars
  <1>1. \A d \in Chan : subs'[d].tx = subs[d].tx /\ Phase(d)' = Phase(d)
    BY PhaseFrame
  <1> QED BY <1>1 DEF Promise!vars

\* apply starts a subscription or ends one.
LEMMA RequestIsSessionStep ==
    ASSUME Polite, TypeInv, PoliteInv, NEW c \in Chan,
           (\E t \in Targets : Subscribe(c, t)) \/ Unsubscribe(c)
    PROVE  [Promise!Next]_Promise!vars
  <1>0. arc.pc = "idle" /\ UNCHANGED task /\ \A k \in Task : Live(k) => task[k].chan # c
    BY DEF Polite, Subscribe, Unsubscribe, MayPatch, MayAsk
  <1>1. subs \in [Chan -> RxSub] BY DEF TypeInv, TypeOK
  <1>2. ~Trying(c) /\ \A k \in Task : Live(k)' <=> Live(k)
    BY <1>0 DEF Trying, Live
  <1>3. ASSUME NEW t \in Targets, Subscribe(c, t) PROVE [Promise!Next]_Promise!vars
    <2>1. subs[c].tx = NoTx /\ arc'.pc = "spawn" /\ arc'.chan = c
      BY <1>3 DEF Polite, Subscribe, MayPatch, IdleArc
    <2>2. /\ \A d \in Chan : d # c => subs'[d] = subs[d]
          /\ subs'[c].tx = t /\ subs'[c].status = "unresolved"
      BY <1>1, <1>3 DEF Subscribe, RxSub
    <2>3. t # NoTx BY ConstantsAssumption DEF Targets
    <2>4. Trying(c)' /\ \A d \in Chan : d # c => (Trying(d)' <=> Trying(d))
      BY <1>0, <1>2, <2>1 DEF Trying
    <2>5. Phase(c) = "none" /\ Phase(c)' = "trying"
      BY <2>1, <2>2, <2>3, <2>4 DEF Phase
    <2>6. \A d \in Chan : d # c => subs'[d].tx = subs[d].tx /\ Phase(d)' = Phase(d)
      BY <2>2, <2>4, PhaseFrame
    <2> QED BY <2>2, <2>5, <2>6, OneChannelStep
  <1>4. CASE Unsubscribe(c)
    <2>1. arc'.pc = "stop" BY <1>4 DEF Unsubscribe, IdleArc
    <2>2. /\ \A d \in Chan : d # c => subs'[d] = subs[d]
          /\ subs'[c].tx = NoTx
      BY <1>1, <1>4 DEF Unsubscribe, DefaultSub
    <2>3. \A d \in Chan : Trying(d)' <=> Trying(d)
      BY <1>0, <1>2, <2>1 DEF Trying
    <2>4. Phase(c) \in {"none", "failed", "waiting", "receiving"} /\ Phase(c)' = "none"
      BY <1>2, <2>2 DEF Phase
    <2>5. Phase(c) = "none" => subs[c].tx = NoTx
      BY <1>2 DEF Phase
    <2>6. \A d \in Chan : d # c => subs'[d].tx = subs[d].tx /\ Phase(d)' = Phase(d)
      BY <2>2, <2>3, PhaseFrame
    <2> QED BY <2>2, <2>4, <2>5, <2>6, OneChannelStep
  <1> QED BY <1>3, <1>4

\* The halves of apply that follow do not show.
LEMMA ArcStepShowsNothing ==
    ASSUME TypeInv, ArcStep
    PROVE  UNCHANGED Promise!vars
  <1>1. CASE SpawnEstablish
    <2>1. PICK k \in Task : /\ task[k].pc = "idle"
                            /\ task' = [task EXCEPT ![k] =
                                 [IdleTask EXCEPT !.pc = "resolve", !.chan = arc.chan, !.tx = arc.tx]]
      BY <1>1 DEF SpawnEstablish, Fresh
    <2>2. arc.pc = "spawn" /\ arc'.pc = "idle" /\ UNCHANGED subs
      BY <1>1 DEF SpawnEstablish, IdleArc
    <2>3. task \in [Task -> Establish] BY DEF TypeInv, TypeOK
    <2>4. /\ \A j \in Task : j # k => task'[j] = task[j]
          /\ task'[k].pc = "resolve" /\ task'[k].chan = arc.chan
      BY <2>1, <2>3 DEF IdleTask
    <2>5. \A d \in Chan : Trying(d)' <=> Trying(d)
      BY <2>1, <2>2, <2>4 DEF Trying, Live
    <2> QED BY <2>2, <2>5, NothingShows
  <1>2. CASE FinishUnsubscribe
    <2>1. arc.pc = "stop" /\ arc'.pc = "idle" /\ UNCHANGED <<subs, task>>
      BY <1>2 DEF FinishUnsubscribe, IdleArc
    <2>2. \A d \in Chan : Trying(d)' <=> Trying(d)
      BY <2>1 DEF Trying, Live
    <2> QED BY <2>1, <2>2, NothingShows
  <1> QED BY <1>1, <1>2 DEF ArcStep

\* The attempt goes on, fails or is done.
LEMMA EstablishIsSessionStep ==
    ASSUME TypeInv, PoliteInv, NEW k \in Task, EstablishStep(k)
    PROVE  [Promise!Next]_Promise!vars
  <1>0. AttemptInv BY DEF PoliteInv
  <1>1. PICK c \in Chan : Attempt(k, c)
    BY <1>0, EstablishIsAttempt
  <1>2. /\ Live(k) /\ c = task[k].chan /\ task'[k].chan = c /\ arc' = arc
        /\ arc.pc = "spawn" => arc.chan # c
        /\ \A j \in Task : j # k => task'[j] = task[j] /\ (Live(j) => task[j].chan # c)
        /\ Live(k)' <=> task'[k].pc # "done"
    BY <1>0, <1>1 DEF Attempt, AttemptInv, Live
  <1>3. /\ Trying(c) /\ (Trying(c)' <=> task'[k].pc # "done")
        /\ \A d \in Chan : d # c => (Trying(d)' <=> Trying(d))
    BY <1>2 DEF Trying, Live
  <1>4. subs[c].tx # NoTx /\ subs[c].status # "receiving"
    BY <1>0, <1>2 DEF AttemptInv
  <1>5. subs'[c].tx = subs[c].tx /\ subs'[c].status \in {"unresolved", "establishing"}
    BY <1>1 DEF Attempt
  <1>6. Phase(c) = "trying" /\ Phase(c)' \in {"trying", "failed", "waiting"}
    BY <1>3, <1>4, <1>5 DEF Phase
  <1>7. \A d \in Chan : d # c => subs'[d].tx = subs[d].tx /\ Phase(d)' = Phase(d)
    BY <1>1, <1>3, PhaseFrame DEF Attempt
  <1> QED BY <1>5, <1>6, <1>7, OneChannelStep

\* The first packet of a flow is the first of its subscription.
LEMMA PacketIsSessionStep ==
    ASSUME TypeInv, SubscribeInv, PoliteInv, NEW f \in FlowIds, NEW k \in Task, MediaPacket(f, k)
    PROVE  [Promise!Next]_Promise!vars
  <1>0. AttemptInv /\ WishInv BY DEF PoliteInv
  <1>1. /\ UNCHANGED <<arc, task>> /\ mediaUp
        /\ \A d \in Chan : subs'[d].tx = subs[d].tx
        /\ \A d \in Chan : subs[d].flow # f => subs'[d] = subs[d]
        /\ \A d \in Chan : subs'[d].status \in {subs[d].status, "receiving"}
        /\ \A d \in Chan : subs[d].flow = f => d = media[f].chan /\ \A j \in Task : Live(j) => task[j].chan # d
    BY <1>0, PacketEffect
  <1>2. \A d \in Chan : Trying(d)' <=> Trying(d)
    BY <1>1 DEF Trying, Live
  <1>3. CASE \A d \in Chan : subs[d].flow # f
    BY <1>1, <1>2, <1>3, NothingShows
  <1>4. ASSUME NEW c \in Chan, subs[c].flow = f PROVE [Promise!Next]_Promise!vars
    <2>1. f # NoFlow BY FlowIdsAreNumbers
    <2>2. subs[c].tx # NoTx /\ subs[c].status \in {"establishing", "receiving"}
      BY <1>0, <1>1, <1>4, <2>1 DEF WishInv
    <2>3. ~Trying(c)
      BY <1>0, <1>1, <1>4, <2>1 DEF Trying, AttemptInv
    <2>4. \A d \in Chan : d # c => subs[d].flow # f
      BY <1>1, <1>4
    <2>5. \A d \in Chan : d # c => subs'[d].tx = subs[d].tx /\ Phase(d)' = Phase(d)
      BY <1>1, <1>2, <2>4, PhaseFrame
    <2>6. CASE subs'[c].status = subs[c].status
      <3>1. Phase(c)' = Phase(c) BY <1>1, <1>2, <2>6, PhaseFrame
      <3> QED BY <1>1, <2>5, <3>1, OneChannelStep
    <2>7. CASE subs[c].status = "establishing" /\ subs'[c].status = "receiving"
      <3>1. Phase(c) = "waiting" /\ Phase(c)' = "receiving"
        BY <1>1, <2>2, <2>3, <2>7 DEF Phase
      <3> QED BY <1>1, <2>5, <3>1, OneChannelStep
    <2> QED BY <1>1, <2>2, <2>6, <2>7
  <1> QED BY <1>3, <1>4

\* The commands of the media thread, shutdown and the network do not show.
LEMMA OtherShowsNothing ==
    ASSUME MediaStep \/ SignalStop \/ AbortArc \/ (\E k \in Task : TxStep(k)) \/ UNCHANGED vars
    PROVE  UNCHANGED Promise!vars
  <1>1. /\ UNCHANGED <<subs, task>>
        /\ arc' = arc \/ (arc.pc = "idle" /\ arc'.pc = "down")
    BY DEF MediaStep, MediaAdd, MediaRemove, MediaExit, SignalStop, AbortArc, IdleArc,
           TxStep, TxAccept, TxRefuse, TxStop, Lose, TxEnds, vars, local
  <1>2. \A d \in Chan : Trying(d)' <=> Trying(d)
    BY <1>1 DEF Trying, Live
  <1> QED BY <1>1, <1>2, NothingShows

\* The subscription machinery implements Session for a polite controller.
THEOREM ImplementsSession == Polite /\ Spec => IsSession
  <1> SUFFICES ASSUME Polite PROVE Spec => IsSession
    OBVIOUS
  <1>1. Spec => [](SubscribeInv /\ PoliteInv)
    BY PoliteInvariant
  <1>2. Init => Promise!Init
    BY DEF Init, Promise!Init, DefaultSub, Phase
  <1>3. SubscribeInv /\ PoliteInv /\ [Next]_vars => [Promise!Next]_Promise!vars
    <2> SUFFICES ASSUME SubscribeInv, PoliteInv, [Next]_vars PROVE [Promise!Next]_Promise!vars
      OBVIOUS
    <2>0. TypeInv BY DEF SubscribeInv, TypeInv
    <2>1. ASSUME NEW c \in Chan, (\E t \in Targets : Subscribe(c, t)) \/ Unsubscribe(c)
          PROVE  [Promise!Next]_Promise!vars
      BY <2>0, <2>1, RequestIsSessionStep
    <2>2. CASE ArcStep
      BY <2>0, <2>2, ArcStepShowsNothing
    <2>3. ASSUME NEW k \in Task, EstablishStep(k) PROVE [Promise!Next]_Promise!vars
      BY <2>0, <2>3, EstablishIsSessionStep
    <2>4. ASSUME NEW f \in FlowIds, NEW k \in Task, MediaPacket(f, k) PROVE [Promise!Next]_Promise!vars
      BY <2>0, <2>4, PacketIsSessionStep
    <2>5. CASE MediaStep \/ SignalStop \/ AbortArc \/ (\E k \in Task : TxStep(k)) \/ UNCHANGED vars
      BY <2>5, OtherShowsNothing
    <2> QED BY <2>1, <2>2, <2>3, <2>4, <2>5 DEF Next
  <1> QED BY <1>1, <1>2, <1>3, PTL DEF Spec, IsSession, Promise!Spec

------------------------------------------------------------------------------
(* The status "establishing", for any controller                            *)

\* An attempt for the channel that has written the status and not ended.
AtWork(c) == \E k \in Task : task[k].chan = c /\ task[k].pc \in {"bind", "wait", "record"}

\* The flow is about to be handed to the media thread, or was.
Carried(f, c) ==
    \/ \E k \in Task : task[k].fid = f /\ task[k].chan = c /\ task[k].pc = "add"
    \/ Underway(f, c)

\* Inductive together with SubscribeInv. The second half does not mention the
\* status: a flow that a subscription names is on its way whatever became of
\* the status since.
BackedInv ==
    \A c \in Chan :
        /\ subs[c].status = "establishing" /\ subs[c].flow = NoFlow => AtWork(c)
        /\ mediaUp /\ subs[c].flow # NoFlow => Carried(subs[c].flow, c)

\* What a step has to leave alone for BackedInv to stay.
WorkStays ==
    \A c \in Chan : subs'[c].status = "establishing" /\ subs'[c].flow = NoFlow =>
        \/ \E k \in Task : task'[k].chan = c /\ task'[k].pc \in {"bind", "wait", "record"}
        \/ /\ subs[c].status = "establishing" /\ subs[c].flow = NoFlow
           /\ \A k \in Task : task[k].chan = c /\ task[k].pc \in {"bind", "wait", "record"} =>
                 task'[k].chan = c /\ task'[k].pc \in {"bind", "wait", "record"}
FlowsStay ==
    \A c \in Chan :
        \/ subs'[c].flow \in {subs[c].flow, NoFlow}
        \/ \E k \in Task : task'[k].fid = subs'[c].flow /\ task'[k].chan = c /\ task'[k].pc = "add"
AddsStay ==
    \A k \in Task : task[k].pc = "add" =>
        \/ task'[k].fid = task[k].fid /\ task'[k].chan = task[k].chan /\ task'[k].pc = "add"
        \/ mediaUp => \E i \in 1..Len(cmds') : /\ cmds'[i].op = "add" /\ cmds'[i].id = task[k].fid
                                               /\ cmds'[i].chan = task[k].chan
QueueStays ==
    \A i \in 1..Len(cmds) : cmds[i].op = "add" => \E j \in 1..Len(cmds') : cmds'[j] = cmds[i]
MediaStays ==
    \A f \in FlowIds : media[f].on => media'[f].on /\ media'[f].chan = media[f].chan

\* BackedInv survives a step in which attempts go on or leave the status
\* behind, and in which no command and no flow of the media thread is lost.
LEMMA BackedFrame ==
    ASSUME TypeInv, BackedInv, mediaUp' => mediaUp, WorkStays, FlowsStay, AddsStay, QueueStays, MediaStays
    PROVE  BackedInv'
  <1> SUFFICES ASSUME NEW c \in Chan
               PROVE  /\ subs'[c].status = "establishing" /\ subs'[c].flow = NoFlow => AtWork(c)'
                      /\ mediaUp' /\ subs'[c].flow # NoFlow => Carried(subs[c].flow, c)'
    BY DEF BackedInv
  <1>1. subs'[c].status = "establishing" /\ subs'[c].flow = NoFlow => AtWork(c)'
    BY DEF BackedInv, WorkStays, AtWork
  <1>2. ASSUME mediaUp', subs'[c].flow # NoFlow PROVE Carried(subs[c].flow, c)'
    <2>1. CASE \E k \in Task : task'[k].fid = subs'[c].flow /\ task'[k].chan = c /\ task'[k].pc = "add"
      BY <2>1 DEF Carried
    <2>2. CASE subs'[c].flow = subs[c].flow
      <3>1. Carried(subs[c].flow, c) /\ subs[c].flow \in FlowIds
        BY <1>2, <2>2, FieldTypes DEF BackedInv
      <3>2. CASE \E k \in Task : task[k].fid = subs[c].flow /\ task[k].chan = c /\ task[k].pc = "add"
        <4>1. PICK k \in Task : task[k].fid = subs[c].flow /\ task[k].chan = c /\ task[k].pc = "add"
          BY <3>2
        <4>2. \/ task'[k].fid = subs'[c].flow /\ task'[k].chan = c /\ task'[k].pc = "add"
              \/ \E i \in 1..Len(cmds') : /\ cmds'[i].op = "add" /\ cmds'[i].id = subs'[c].flow
                                          /\ cmds'[i].chan = c
          BY <1>2, <2>2, <4>1 DEF AddsStay
        <4> QED BY <4>2 DEF Carried, Underway
      <3>3. CASE media[subs[c].flow].on /\ media[subs[c].flow].chan = c
        <4>1. media'[subs'[c].flow].on /\ media'[subs'[c].flow].chan = c
          BY <2>2, <3>1, <3>3 DEF MediaStays
        <4> QED BY <4>1 DEF Carried, Underway
      <3>4. CASE \E i \in 1..Len(cmds) : cmds[i].op = "add" /\ cmds[i].id = subs[c].flow /\ cmds[i].chan = c
        <4>1. \E i \in 1..Len(cmds') : cmds'[i].op = "add" /\ cmds'[i].id = subs'[c].flow /\ cmds'[i].chan = c
          BY <2>2, <3>4 DEF QueueStays
        <4> QED BY <4>1 DEF Carried, Underway
      <3> QED BY <3>1, <3>2, <3>3, <3>4 DEF Carried, Underway
    <2> QED BY <1>2, <2>1, <2>2 DEF FlowsStay
  <1> QED BY <1>1, <1>2

\* A command that is sent goes behind those that are there.
LEMMA SendStays ==
    ASSUME TypeInv, NEW e \in Command, Send(e)
    PROVE  /\ QueueStays
           /\ mediaUp => \E i \in 1..Len(cmds') : cmds'[i] = e
  <1>1. cmds \in Seq(Command) BY DEF TypeInv, TypeOK
  <1>2. CASE mediaUp
    <2>1. /\ cmds' = Append(cmds, e) /\ Len(cmds') = Len(cmds) + 1 /\ Len(cmds) \in Nat
          /\ \A i \in 1..Len(cmds) : cmds'[i] = cmds[i]
          /\ cmds'[Len(cmds) + 1] = e
      BY <1>1, <1>2, AppendEntries DEF Send
    <2>2. \A i \in 1..Len(cmds) : i \in 1..Len(cmds')
      BY <2>1
    <2>3. Len(cmds) + 1 \in 1..Len(cmds')
      BY <2>1
    <2> QED BY <2>1, <2>2, <2>3 DEF QueueStays
  <1>3. CASE ~mediaUp
    BY <1>3 DEF Send, QueueStays
  <1> QED BY <1>2, <1>3

\* Whatever the ARC task does: requests write other statuses, and no command
\* is lost.
LEMMA ArcKeepsBackedInv ==
    ASSUME TypeInv, BackedInv,
           \/ \E c \in Chan : \E t \in Targets : Subscribe(c, t)
           \/ \E c \in Chan : Unsubscribe(c)
           \/ ArcStep \/ AbortArc
    PROVE  BackedInv'
  <1>0. subs \in [Chan -> RxSub] /\ task \in [Task -> Establish] /\ arc \in ArcTask
    BY DEF TypeInv, TypeOK
  <1>1. ASSUME NEW c \in Chan, NEW t \in Targets, Subscribe(c, t) PROVE BackedInv'
    <2>1. UNCHANGED <<task, cmds, media, mediaUp>>
      BY <1>1 DEF Subscribe
    <2>2. /\ \A d \in Chan : d # c => subs'[d] = subs[d]
          /\ subs'[c] = [subs[c] EXCEPT !.tx = t, !.status = "unresolved"]
      BY <1>0, <1>1 DEF Subscribe
    <2>3. subs'[c].flow = subs[c].flow /\ subs'[c].status = "unresolved"
      BY <1>0, <2>2 DEF RxSub
    <2>4. WorkStays /\ FlowsStay
      BY <2>1, <2>2, <2>3 DEF WorkStays, FlowsStay
    <2>5. AddsStay /\ QueueStays /\ MediaStays
      BY <2>1 DEF AddsStay, QueueStays, MediaStays
    <2> QED BY <2>1, <2>4, <2>5, BackedFrame
  <1>2. ASSUME NEW c \in Chan, Unsubscribe(c) PROVE BackedInv'
    <2>1. UNCHANGED <<task, cmds, media, mediaUp>>
      BY <1>2 DEF Unsubscribe
    <2>2. /\ \A d \in Chan : d # c => subs'[d] = subs[d]
          /\ subs'[c].flow = NoFlow /\ subs'[c].status = "none"
      BY <1>0, <1>2 DEF Unsubscribe, DefaultSub
    <2>4. WorkStays /\ FlowsStay
      BY <2>1, <2>2 DEF WorkStays, FlowsStay
    <2>5. AddsStay /\ QueueStays /\ MediaStays
      BY <2>1 DEF AddsStay, QueueStays, MediaStays
    <2> QED BY <2>1, <2>4, <2>5, BackedFrame
  <1>3. CASE SpawnEstablish
    <2>1. UNCHANGED <<subs, cmds, media, mediaUp>>
      BY <1>3 DEF SpawnEstablish
    <2>2. PICK k \in Task : Fresh(k) /\ task' = [task EXCEPT ![k] =
                 [IdleTask EXCEPT !.pc = "resolve", !.chan = arc.chan, !.tx = arc.tx]]
      BY <1>3 DEF SpawnEstablish
    <2>3. \A j \in Task : task[j].pc # "idle" => task'[j] = task[j]
      BY <1>0, <2>2 DEF Fresh
    <2>4. WorkStays /\ FlowsStay
      BY <2>1, <2>3 DEF WorkStays, FlowsStay
    <2>5. AddsStay /\ QueueStays /\ MediaStays
      BY <2>1, <2>3 DEF AddsStay, QueueStays, MediaStays
    <2> QED BY <2>1, <2>4, <2>5, BackedFrame
  <1>4. CASE FinishUnsubscribe
    <2>1. UNCHANGED <<subs, task, media, mediaUp>>
      BY <1>4 DEF FinishUnsubscribe
    <2>2. QueueStays
      <3>1. CASE arc.fid = NoFlow
        BY <1>4, <3>1 DEF FinishUnsubscribe, QueueStays
      <3>2. CASE arc.fid # NoFlow
        <4>1. [op |-> "remove", id |-> arc.fid, chan |-> 0, port |-> NoPort] \in Command
          BY <1>0, <3>2 DEF ArcTask, Command
        <4>2. Send([op |-> "remove", id |-> arc.fid, chan |-> 0, port |-> NoPort])
          BY <1>4, <3>2 DEF FinishUnsubscribe, StopFlow
        <4> QED BY <4>1, <4>2, SendStays
      <3> QED BY <3>1, <3>2
    <2>4. WorkStays /\ FlowsStay
      BY <2>1 DEF WorkStays, FlowsStay
    <2>5. AddsStay /\ MediaStays
      BY <2>1 DEF AddsStay, MediaStays
    <2> QED BY <2>1, <2>2, <2>4, <2>5, BackedFrame
  <1>5. CASE AbortArc
    <2>1. UNCHANGED <<subs, task, cmds, media, mediaUp>>
      BY <1>5 DEF AbortArc
    <2> QED BY <2>1, BackedFrame DEF WorkStays, FlowsStay, AddsStay, QueueStays, MediaStays
  <1> QED BY <1>1, <1>2, <1>3, <1>4, <1>5 DEF ArcStep

\* Steps of an establish task: one that ends without a flow takes the status
\* back, one that records goes on to hand its flow over.
LEMMA EstablishKeepsBackedInv ==
    ASSUME TypeInv, BackedInv, NEW k \in Task, EstablishStep(k)
    PROVE  BackedInv'
  <1> DEFINE c == task[k].chan
  <1>0. /\ task[k].pc # "idle" /\ c \in Chan
        /\ subs \in [Chan -> RxSub] /\ task \in [Task -> Establish]
    BY DEF EstablishStep, Incomplete, ResolveFails, ResolveOk, Resolving, BindFails, BindAndRequest,
           RequestFails, ReplyArrives, RecordFlow, SendAddFlow, TypeInv, TypeOK, ProgressInv
  <1> HIDE DEF c
  <1>c. c = task[k].chan BY DEF c
  <1>1. CASE Incomplete(k)
    <2>1. /\ task' = [task EXCEPT ![k].pc = "done"] /\ task[k].pc = "resolve"
          /\ UNCHANGED <<subs, cmds, media, mediaUp>>
      BY <1>1 DEF Incomplete
    <2>2. \A j \in Task : j # k => task'[j] = task[j]
      BY <2>1, MoveEffect
    <2> QED BY <2>1, <2>2, BackedFrame DEF WorkStays, FlowsStay, AddsStay, QueueStays, MediaStays
  <1>2. CASE ResolveFails(k) \/ BindFails(k) \/ RequestFails(k)
    <2>1. /\ task' = [task EXCEPT ![k].pc = "done"] /\ UNCHANGED <<cmds, media, mediaUp>>
          /\ SetStatus(c, "unresolved") /\ task[k].pc # "add"
      BY <1>2, <1>c DEF ResolveFails, BindFails, RequestFails, Resolving
    <2>2. /\ \A d \in Chan : d # c => subs'[d] = subs[d]
          /\ subs'[c].flow = subs[c].flow /\ subs'[c].status = "unresolved"
      BY <1>0, <2>1, SetStatusEffect DEF Statuses
    <2>3. \A j \in Task : j # k => task'[j] = task[j]
      BY <2>1, MoveEffect
    <2>4. WorkStays
      BY <1>c, <2>2, <2>3 DEF WorkStays
    <2> QED BY <2>1, <2>2, <2>3, <2>4, BackedFrame DEF FlowsStay, AddsStay, QueueStays, MediaStays
  <1>3. CASE ResolveOk(k)
    <2>1. /\ task' = [task EXCEPT ![k].pc = "bind"] /\ UNCHANGED <<cmds, media, mediaUp>>
          /\ SetStatus(c, "establishing") /\ task[k].pc = "resolve"
      BY <1>3, <1>c DEF ResolveOk, Resolving
    <2>2. /\ \A d \in Chan : d # c => subs'[d] = subs[d]
          /\ subs'[c].flow = subs[c].flow
      BY <1>0, <2>1, SetStatusEffect DEF Statuses
    <2>3. /\ \A j \in Task : j # k => task'[j] = task[j]
          /\ task'[k].chan = c /\ task'[k].pc = "bind"
      BY <1>c, <2>1, MoveEffect
    <2>4. WorkStays
      BY <2>1, <2>2, <2>3 DEF WorkStays
    <2> QED BY <2>1, <2>2, <2>3, <2>4, BackedFrame DEF FlowsStay, AddsStay, QueueStays, MediaStays
  <1>4. CASE BindAndRequest(k) \/ ReplyArrives(k)
    <2>1. UNCHANGED <<subs, cmds, media, mediaUp>> /\ task[k].pc # "add"
      BY <1>4 DEF BindAndRequest, ReplyArrives
    <2>2. /\ \A j \in Task : j # k => task'[j] = task[j]
          /\ task'[k].chan = c /\ task'[k].pc \in {"wait", "record"}
      <3>1. CASE BindAndRequest(k)
        <4>1. PICK p \in Ports : task' = [task EXCEPT ![k].pc = "wait", ![k].port = p, ![k].fid = nextFlowId]
          BY <3>1 DEF BindAndRequest, Bindable, Ports
        <4>2. /\ \A j \in Task : j # k => task'[j] = task[j]
              /\ task'[k] = [task[k] EXCEPT !.pc = "wait", !.port = p, !.fid = nextFlowId]
          BY <1>0, <4>1
        <4> QED BY <1>0, <1>c, <4>2 DEF Establish
      <3>2. CASE ReplyArrives(k)
        <4>1. task' = [task EXCEPT ![k].pc = "record"] BY <3>2 DEF ReplyArrives
        <4> QED BY <1>c, <4>1, MoveEffect
      <3> QED BY <1>4, <3>1, <3>2
    <2>3. WorkStays
      BY <1>c, <2>1, <2>2 DEF WorkStays
    <2> QED BY <2>1, <2>2, <2>3, BackedFrame DEF FlowsStay, AddsStay, QueueStays, MediaStays
  <1>5. CASE RecordFlow(k)
    <2>1. /\ task' = [task EXCEPT ![k].pc = "add"] /\ UNCHANGED <<cmds, media, mediaUp>>
          /\ task[k].pc = "record"
          /\ subs' = [subs EXCEPT ![c].flow = task[k].fid, ![c].status = "establishing"]
      BY <1>5, <1>c DEF RecordFlow
    <2>2. /\ \A d \in Chan : d # c => subs'[d] = subs[d]
          /\ subs'[c] = [subs[c] EXCEPT !.flow = task[k].fid, !.status = "establishing"]
      BY <1>0, <2>1
    <2>3. subs'[c].flow = task[k].fid
      BY <1>0, <2>2 DEF RxSub
    <2>4. /\ \A j \in Task : j # k => task'[j] = task[j]
          /\ task'[k].chan = c /\ task'[k].fid = task[k].fid /\ task'[k].pc = "add"
      BY <1>c, <2>1, MoveEffect
    <2>5. task[k].fid # NoFlow
      BY <2>1 DEF TypeInv, ProgressInv, HoldsSocket
    <2>6. WorkStays
      <3> SUFFICES ASSUME NEW d \in Chan, subs'[d].status = "establishing", subs'[d].flow = NoFlow
                   PROVE  /\ subs[d].status = "establishing" /\ subs[d].flow = NoFlow
                          /\ \A j \in Task : task[j].chan = d /\ task[j].pc \in {"bind", "wait", "record"} =>
                                task'[j].chan = d /\ task'[j].pc \in {"bind", "wait", "record"}
        BY DEF WorkStays
      <3>1. d # c /\ subs'[d] = subs[d]
        BY <2>2, <2>3, <2>5
      <3>2. \A j \in Task : task[j].chan = d => task'[j] = task[j]
        BY <1>c, <2>4, <3>1
      <3> QED BY <3>1, <3>2
    <2>7. FlowsStay
      BY <2>2, <2>3, <2>4 DEF FlowsStay
    <2> QED BY <2>1, <2>4, <2>6, <2>7, BackedFrame DEF AddsStay, QueueStays, MediaStays
  <1>6. CASE SendAddFlow(k)
    <2> DEFINE e == [op |-> "add", id |-> task[k].fid, chan |-> task[k].chan, port |-> task[k].port]
    <2>1. /\ task' = [task EXCEPT ![k].pc = "done"] /\ UNCHANGED <<media, mediaUp>>
          /\ task[k].pc = "add" /\ Send(e)
          /\ UNCHANGED subs \/ SetStatus(c, "unresolved")
      BY <1>6, <1>c DEF SendAddFlow
    <2>2. e \in Command /\ e.op = "add" /\ e.id = task[k].fid /\ e.chan = task[k].chan
      <3>1. /\ task[k].fid \in FlowIds /\ task[k].port \in Ports /\ task[k].chan \in Chan
        BY <1>0, <1>c, <2>1 DEF TypeInv, ProgressInv, HoldsSocket, Establish
      <3> QED BY <3>1 DEF Command
    <2>3. /\ \A d \in Chan : d # c => subs'[d] = subs[d]
          /\ subs'[c].flow = subs[c].flow /\ subs'[c].status \in {subs[c].status, "unresolved"}
      <3>1. CASE UNCHANGED subs BY <3>1
      <3>2. CASE SetStatus(c, "unresolved")
        BY <1>0, <3>2, SetStatusEffect DEF Statuses
      <3> QED BY <2>1, <3>1, <3>2
    <2>4. \A j \in Task : j # k => task'[j] = task[j]
      BY <2>1, MoveEffect
    <2> HIDE DEF e
    <2>5. QueueStays /\ (mediaUp => \E i \in 1..Len(cmds') : cmds'[i] = e)
      BY <2>1, <2>2, SendStays
    <2>6. AddsStay
      BY <2>2, <2>4, <2>5 DEF AddsStay
    <2>7. WorkStays
      <3> SUFFICES ASSUME NEW d \in Chan, subs'[d].status = "establishing", subs'[d].flow = NoFlow
                   PROVE  /\ subs[d].status = "establishing" /\ subs[d].flow = NoFlow
                          /\ \A j \in Task : task[j].chan = d /\ task[j].pc \in {"bind", "wait", "record"} =>
                                task'[j].chan = d /\ task'[j].pc \in {"bind", "wait", "record"}
        BY DEF WorkStays
      <3>1. subs[d].status = "establishing" /\ subs[d].flow = NoFlow
        BY <2>3
      <3> QED BY <2>1, <2>4, <3>1
    <2>8. FlowsStay
      BY <2>3 DEF FlowsStay
    <2> QED BY <2>1, <2>5, <2>6, <2>7, <2>8, BackedFrame DEF MediaStays
  <1> QED BY <1>1, <1>2, <1>3, <1>4, <1>5, <1>6 DEF EstablishStep

\* Taking a command: an added flow comes to be where its command was, and a
\* removed one is nobody's.
LEMMA CommandKeepsBackedInv ==
    ASSUME SubscribeInv, BackedInv, MediaAdd \/ MediaRemove
    PROVE  BackedInv'
  <1>0. TypeInv /\ DoomedInv /\ MediaInv
    BY DEF SubscribeInv, TypeInv
  <1> DEFINE h == cmds[1]
  <1>1. /\ cmds \in Seq(Command) /\ cmds # <<>> /\ cmds' = Tail(cmds)
        /\ media \in [FlowIds -> MediaFlow]
        /\ UNCHANGED <<subs, task, mediaUp>> /\ mediaUp
    BY <1>0 DEF MediaAdd, MediaRemove, TypeInv, TypeOK
  <1>2. /\ Len(cmds') = Len(cmds) - 1 /\ Len(cmds) \in Nat /\ 1 \in 1..Len(cmds)
        /\ \A i \in 1..Len(cmds') : cmds'[i] = cmds[i + 1] /\ i + 1 \in 1..Len(cmds)
        /\ Head(cmds) = h /\ h \in Command
    BY <1>1, TailEntries
  <1>3. h.id \in FlowIds /\ h.op \in {"add", "remove"}
    BY <1>2 DEF MediaAdd, MediaRemove, Command
  <1>4. \A g \in FlowIds : g # h.id => media'[g] = media[g]
    BY <1>1, <1>2 DEF MediaAdd, MediaRemove
  <1>5. h.op = "add" => media'[h.id].on /\ media'[h.id].chan = h.chan
    BY <1>1, <1>2, <1>3 DEF MediaAdd, MediaRemove
  <1> SUFFICES ASSUME NEW c \in Chan
               PROVE  /\ subs'[c].status = "establishing" /\ subs'[c].flow = NoFlow => AtWork(c)'
                      /\ mediaUp' /\ subs'[c].flow # NoFlow => Carried(subs[c].flow, c)'
    BY DEF BackedInv
  <1>6. subs'[c].status = "establishing" /\ subs'[c].flow = NoFlow => AtWork(c)'
    BY <1>1 DEF BackedInv, AtWork
  <1>7. ASSUME subs[c].flow # NoFlow PROVE Carried(subs[c].flow, c)'
    <2>0. subs'[c].flow = subs[c].flow /\ subs[c].flow \in FlowIds /\ Carried(subs[c].flow, c)
      BY <1>0, <1>1, <1>7, FieldTypes DEF BackedInv
    <2>1. h.op = "remove" => h.id # subs[c].flow
      BY <1>0, <1>2 DEF DoomedInv, Unwanted
    <2>2. CASE \E k \in Task : task[k].fid = subs[c].flow /\ task[k].chan = c /\ task[k].pc = "add"
      BY <1>1, <2>0, <2>2 DEF Carried
    <2>3. CASE media[subs[c].flow].on /\ media[subs[c].flow].chan = c
      <3>1. h.id # subs[c].flow
        BY <1>0, <1>2, <1>3, <2>1, <2>3 DEF MediaInv
      <3>2. media'[subs'[c].flow].on /\ media'[subs'[c].flow].chan = c
        BY <1>4, <2>0, <2>3, <3>1
      <3> QED BY <3>2 DEF Carried, Underway
    <2>4. CASE \E i \in 1..Len(cmds) : cmds[i].op = "add" /\ cmds[i].id = subs[c].flow /\ cmds[i].chan = c
      <3>1. PICK i \in 1..Len(cmds) : cmds[i].op = "add" /\ cmds[i].id = subs[c].flow /\ cmds[i].chan = c
        BY <2>4
      <3>2. CASE i = 1
        <4>1. media'[subs'[c].flow].on /\ media'[subs'[c].flow].chan = c
          BY <1>5, <2>0, <3>1, <3>2
        <4> QED BY <4>1 DEF Carried, Underway
      <3>3. CASE i # 1
        <4>1. i - 1 \in 1..Len(cmds') /\ i - 1 + 1 = i
          BY <1>2, <3>3
        <4>2. cmds'[i - 1] = cmds[i]
          BY <1>2, <4>1
        <4> QED BY <2>0, <3>1, <4>1, <4>2 DEF Carried, Underway
      <3> QED BY <3>2, <3>3
    <2> QED BY <2>0, <2>2, <2>3, <2>4 DEF Carried, Underway
  <1> QED BY <1>1, <1>6, <1>7

\* Packets, the end of the media thread, a shutdown and the network.
LEMMA OtherKeepsBackedInv ==
    ASSUME TypeInv, BackedInv,
           \/ \E f \in FlowIds : \E k \in Task : MediaPacket(f, k)
           \/ MediaExit \/ SignalStop \/ (\E k \in Task : TxStep(k)) \/ UNCHANGED vars
    PROVE  BackedInv'
  <1>1. ASSUME NEW f \in FlowIds, NEW k \in Task, MediaPacket(f, k) PROVE BackedInv'
    <2>1. /\ media \in [FlowIds -> MediaFlow] /\ subs \in [Chan -> RxSub]
          /\ media' = [media EXCEPT ![f].saw = TRUE] /\ UNCHANGED <<task, cmds, mediaUp>>
          /\ UNCHANGED subs \/ MarkReceiving(f)
      BY <1>1 DEF MediaPacket, TypeInv, TypeOK
    <2>2. \A g \in FlowIds : media'[g].on = media[g].on /\ media'[g].chan = media[g].chan
      BY <2>1 DEF MediaFlow
    <2>3. \A d \in Chan : subs'[d] = subs[d] \/ subs'[d] = [subs[d] EXCEPT !.status = "receiving"]
      BY <2>1 DEF MarkReceiving
    <2>4. \A d \in Chan : subs'[d].flow = subs[d].flow /\ subs'[d].status \in {subs[d].status, "receiving"}
      BY <2>1, <2>3 DEF RxSub
    <2>5. WorkStays /\ FlowsStay
      BY <2>1, <2>4 DEF WorkStays, FlowsStay
    <2>6. AddsStay /\ QueueStays /\ MediaStays
      BY <2>1, <2>2 DEF AddsStay, QueueStays, MediaStays
    <2> QED BY <2>1, <2>5, <2>6, BackedFrame
  <1>2. CASE MediaExit
    <2>1. UNCHANGED <<subs, task>> /\ ~mediaUp'
      BY <1>2 DEF MediaExit
    <2> QED BY <2>1 DEF BackedInv, AtWork
  <1>3. CASE SignalStop
    <2>1. /\ UNCHANGED <<subs, task, media, mediaUp>>
          /\ Send([op |-> "shutdown", id |-> NoFlow, chan |-> 0, port |-> NoPort])
      BY <1>3 DEF SignalStop
    <2>2. [op |-> "shutdown", id |-> NoFlow, chan |-> 0, port |-> NoPort] \in Command
      BY DEF Command
    <2>3. QueueStays BY <2>1, <2>2, SendStays
    <2> QED BY <2>1, <2>3, BackedFrame DEF WorkStays, FlowsStay, AddsStay, MediaStays
  <1>4. CASE (\E k \in Task : TxStep(k)) \/ UNCHANGED vars
    <2>1. UNCHANGED <<subs, task, cmds, media, mediaUp>>
      BY <1>4 DEF TxStep, TxAccept, TxRefuse, TxStop, Lose, TxEnds, vars, local
    <2> QED BY <2>1, BackedFrame DEF WorkStays, FlowsStay, AddsStay, QueueStays, MediaStays
  <1> QED BY <1>1, <1>2, <1>3, <1>4

\* The invariant behind EstablishingIsBacked: each flow that a subscription
\* names is with its attempt, in the command channel or in the media thread,
\* and each attempt that wrote the status without a flow is at work.
THEOREM BackedInvariant == IdsSuffice /\ Spec => []BackedInv
  <1> SUFFICES ASSUME IdsSuffice PROVE Spec => []BackedInv
    OBVIOUS
  <1>1. Spec => []SubscribeInv
    BY SubscribeInvariant
  <1>2. Init => BackedInv
    BY DEF Init, BackedInv, DefaultSub
  <1>3. SubscribeInv /\ BackedInv /\ [Next]_vars => BackedInv'
    <2> SUFFICES ASSUME SubscribeInv, BackedInv, [Next]_vars PROVE BackedInv'
      OBVIOUS
    <2>0. TypeInv BY DEF SubscribeInv, TypeInv
    <2>1. CASE \/ \E c \in Chan : \E t \in Targets : Subscribe(c, t)
               \/ \E c \in Chan : Unsubscribe(c)
               \/ ArcStep \/ AbortArc
      BY <2>0, <2>1, ArcKeepsBackedInv
    <2>2. ASSUME NEW k \in Task, EstablishStep(k) PROVE BackedInv'
      BY <2>0, <2>2, EstablishKeepsBackedInv
    <2>3. CASE MediaAdd \/ MediaRemove
      BY <2>3, CommandKeepsBackedInv
    <2>4. CASE \/ \E f \in FlowIds : \E k \in Task : MediaPacket(f, k)
               \/ MediaExit \/ SignalStop \/ (\E k \in Task : TxStep(k)) \/ UNCHANGED vars
      BY <2>0, <2>4, OtherKeepsBackedInv
    <2> QED BY <2>1, <2>2, <2>3, <2>4 DEF Next, MediaStep
  <1> QED BY <1>1, <1>2, <1>3, PTL DEF Spec

\* While the media thread runs, a channel that ARC reports as "establishing"
\* has an attempt at work or a flow that waits for packets: set_status of
\* attempts that fail, are overtaken or come after an unsubscribe leaves no
\* status behind that nothing will change.
THEOREM EstablishingIsNoLeftover == IdsSuffice /\ Spec => []EstablishingIsBacked
  <1> SUFFICES ASSUME IdsSuffice PROVE Spec => []EstablishingIsBacked
    OBVIOUS
  <1>1. Spec => []BackedInv
    BY BackedInvariant
  <1>2. BackedInv => EstablishingIsBacked
    BY DEF BackedInv, EstablishingIsBacked, AtWork, Carried, Live
  <1> QED BY <1>1, <1>2, PTL

=============================================================================
