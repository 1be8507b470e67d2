------------------------------- MODULE Control -------------------------------
(***************************************************************************)
(* The tables of the device as a controller sees them: the ARC server      *)
(* (src/device/arc.rs, src/protocol/arc.rs) answers for its RX channels    *)
(* and RX flows page by page, rename_rx (src/device/subscribe.rs) changes  *)
(* a name and queues an event, and the info task (src/device/              *)
(* info_mcast.rs) multicasts the event as a mask of channels.              *)
(*                                                                         *)
(* The controller is external: it asks for a page, asks again until it has *)
(* an answer with the number of its question, and goes on behind the last  *)
(* item as long as the code says that more remain. It reads its channels   *)
(* again when a mask names them. Datagrams are lost, duplicated, delayed   *)
(* and overtake each other; a channel's entry and the list of flows change *)
(* between two pages.                                                      *)
(***************************************************************************)
EXTENDS Integers, Sequences, SequencesExt, FiniteSets

CONSTANTS
    NChan,       \* number of RX channels
    Names,       \* names a controller gives
    NameSize,    \* bytes of a name in a page
    TxSize,      \* bytes of the transmitter's two names in a page
    PageSlots,   \* items of a page: 16 in the code
    PageRoom,    \* bytes for strings after which no item is added to a page
    RenameIds,   \* the ids a 0x3001 request can name together
    ByteBits,    \* channels in one byte of a mask: 8 in the code
    NumMod,      \* numbers of a controller's questions
    Tables,      \* the table a controller reads, and the names and flows it may
                 \* find when it comes; the other table does not change
    MaxFlows,    \* bound: flows in rx_flows
    MaxChanges   \* bound: changes of names, subscriptions and flows

ASSUME ControlAssumption ==
    /\ NChan \in Nat /\ PageSlots \in Nat \ {0} /\ PageRoom \in Nat \ {0}
    /\ NameSize \in [Names -> Nat] /\ TxSize \in Nat
    /\ RenameIds \subseteq SUBSET Nat
    /\ ByteBits \in Nat \ {0} /\ NumMod \in Nat \ {0}
    /\ MaxFlows \in Nat /\ MaxChanges \in Nat
    /\ \A t \in Tables : /\ t.reads \in {"channels", "flows"}
                         /\ t.names \in [1..NChan -> Names]
                         /\ t.flows \in Seq(Int) /\ IsInjective(t.flows)
                         /\ \A i \in 1..Len(t.flows) : t.flows[i] < 0

Chan == 1..NChan

VARIABLES
    names,    \* Shared.rx_names
    tx,       \* Shared.subs: whether a transmitter is named, per channel
    flows,    \* Shared.rx_flows: the flow ids in order
    events,   \* the channel of InfoEvent
    changes,  \* changes made (bound; gives flows their ids)
    wire,     \* ARC datagrams in flight
    notices,  \* masks in flight
    scan,     \* the controller: the table it reads, its question, what it has
    dirty,    \* channels the controller has to read
    reading,  \* channels the present scan reads for the controller
    view,     \* the names the controller shows
    flowView, \* the flows the controller shows
    reads,    \* the table this behaviour is about (ghost)
    missed,   \* channels of masks that were lost (ghost)
    held,     \* names each channel has had since the scan began (ghost)
    had,      \* flows there were when the scan began (ghost)
    removed   \* whether a flow was removed since then (ghost)

device == <<names, tx, flows, events, changes>>
reader == <<scan, dirty, reading, view, flowView>>
ghosts == <<reads, missed, held, had, removed>>
vars   == <<device, wire, notices, reader, ghosts>>

NoName == "none"
NoScan == [op |-> "none", seq |-> 0, idx |-> 1, got |-> <<>>]

Init ==
    /\ \E t \in Tables : reads = t.reads /\ names = t.names /\ flows = t.flows
    /\ tx = [c \in Chan |-> FALSE]
    /\ events = <<>> /\ changes = 0
    /\ wire = {} /\ notices = {}
    /\ scan = NoScan /\ dirty = Chan /\ reading = {}
    /\ view = [c \in Chan |-> NoName] /\ flowView = <<>>
    /\ missed = {} /\ held = [c \in Chan |-> {}] /\ had = <<>> /\ removed = FALSE

------------------------------------------------------------------------------
(* Pages *)

\* Mutant of PaginationStart: the index is taken as 0-based.
PaginationStartZeroBased(idx) == idx

\* pagination_start: a 1-based index; 0 counts as absent.
PaginationStart(idx) == IF idx = 0 THEN 0 ELSE idx - 1

\* What of a table is left from a position on.
From(s, start) == IF start >= Len(s) THEN <<>> ELSE SubSeq(s, start + 1, Len(s))

\* The entries of 0x3000 with the bytes of their strings; without both names
\* of the transmitter neither is written.
RxChannels ==
    [c \in Chan |-> [id |-> c, name |-> names[c],
                     size |-> NameSize[names[c]] + IF tx[c] THEN TxSize ELSE 0]]

Bytes(s) == FoldLeft(LAMBDA n, e : n + e.size, 0, s)

\* Mutant of EncodeRxChannels: an item is added only if it fits entirely.
EncodeRxChannelsThatFit(start) ==
    LET rest  == From(RxChannels, start)
        space == IF Len(rest) < PageSlots THEN Len(rest) ELSE PageSlots
        n     == CHOOSE k \in 0..space :
                    /\ \A j \in 1..k : Bytes(SubSeq(rest, 1, j)) < PageRoom
                    /\ k < space => Bytes(SubSeq(rest, 1, k + 1)) >= PageRoom
    IN  [items |-> SubSeq(rest, 1, n), code |-> IF n < Len(rest) THEN "more" ELSE "ok"]

\* encode_rx_channels: items are added while there is a slot and the strings
\* so far leave room; the code says whether any are left.
EncodeRxChannels(start) ==
    LET rest  == From(RxChannels, start)
        space == IF Len(rest) < PageSlots THEN Len(rest) ELSE PageSlots
        n     == CHOOSE k \in 0..space :
                    /\ \A j \in 0..k - 1 : Bytes(SubSeq(rest, 1, j)) < PageRoom
                    /\ k < space => ~(Bytes(SubSeq(rest, 1, k)) < PageRoom)
    IN  [items |-> SubSeq(rest, 1, n), code |-> IF n < Len(rest) THEN "more" ELSE "ok"]

\* Mutant of EncodeRxFlows: a full page is always said to be the last.
EncodeRxFlowsOnePage(start) ==
    LET rest == From(flows, start)
        n    == IF Len(rest) < PageSlots THEN Len(rest) ELSE PageSlots
    IN  [items |-> SubSeq(rest, 1, n), code |-> "ok"]

\* encode_rx_flows; an empty table is an empty last page too.
EncodeRxFlows(start) ==
    LET rest == From(flows, start)
        n    == IF Len(rest) < PageSlots THEN Len(rest) ELSE PageSlots
    IN  [items |-> SubSeq(rest, 1, n), code |-> IF n < Len(rest) THEN "more" ELSE "ok"]

Question(op, seq, idx) == [to |-> "device", op |-> op, seq |-> seq, idx |-> idx]

\* A page is the answer to a question and carries its number and opcode.
Answer(q, page) == [to |-> "controller", op |-> q.op, seq |-> q.seq,
                    items |-> page.items, code |-> page.code]

\* The datagram is answered; Retry makes the duplicates there can be.
Reply(q, page) == wire' = (wire \ {q}) \cup {Answer(q, page)}

------------------------------------------------------------------------------
(* The ARC server: one request after the other *)

\* encode_rx_page
HandleRxChannels(q) ==
    /\ q.to = "device" /\ q.op = "channels"
    /\ Reply(q, EncodeRxChannels(PaginationStart(q.idx)))
    /\ UNCHANGED <<device, notices, reader, ghosts>>

\* encode_rx_flows_page
HandleRxFlows(q) ==
    /\ q.to = "device" /\ q.op = "flows"
    /\ Reply(q, EncodeRxFlows(PaginationStart(q.idx)))
    /\ UNCHANGED <<device, notices, reader, ghosts>>

\* rename_rx for records that give the channels of ids new names; an id that
\* is no channel is passed over, and without a change there is no event.
RenameRx(new) ==
    LET changed == DOMAIN new \cap Chan
    IN  /\ reads = "channels" /\ changes < MaxChanges /\ changes' = changes + 1
        /\ names' = [c \in Chan |-> IF c \in changed THEN new[c] ELSE names[c]]
        /\ events' = IF changed = {} THEN events ELSE Append(events, changed)
        /\ held' = [c \in Chan |-> IF scan.op = "channels" THEN held[c] \cup {names'[c]} ELSE {}]
        /\ UNCHANGED <<tx, flows, wire, notices, reader, reads, missed, had, removed>>

\* apply gives a channel a transmitter, or takes it away: no event.
SetTx(c) ==
    /\ reads = "channels" /\ changes < MaxChanges /\ changes' = changes + 1
    /\ tx' = [tx EXCEPT ![c] = ~@]
    /\ UNCHANGED <<names, flows, events, wire, notices, reader, ghosts>>

\* establish pushes a flow with an id of its own.
PushFlow ==
    /\ reads = "flows" /\ changes < MaxChanges /\ changes' = changes + 1
    /\ Len(flows) < MaxFlows
    /\ flows' = Append(flows, changes)
    /\ UNCHANGED <<names, tx, events, wire, notices, reader, ghosts>>

\* stop_flow takes one out, wherever it is.
RemoveFlow(i) ==
    /\ reads = "flows" /\ changes < MaxChanges /\ changes' = changes + 1
    /\ flows' = RemoveAt(flows, i)
    /\ removed' = (scan.op = "flows")
    /\ UNCHANGED <<names, tx, events, wire, notices, reader, reads, missed, held, had>>

------------------------------------------------------------------------------
(* The info task *)

\* Mutant of ChannelChange: one byte of mask only.
ChannelChangeOneByte(changed) ==
    [b \in {0} |-> {(c - 1) % ByteBits : c \in {d \in changed : (d - 1) \div ByteBits = b}}]

\* channel_change: the bits of 0-based indices, in as many bytes as needed.
ChannelChange(changed) ==
    [b \in 0..(Max(changed) - 1) \div ByteBits |->
        {(c - 1) % ByteBits : c \in {d \in changed : (d - 1) \div ByteBits = b}}]

SendChannelChange ==
    /\ events # <<>>
    /\ notices' = notices \cup {ChannelChange(Head(events))}
    /\ events' = Tail(events)
    /\ UNCHANGED <<names, tx, flows, changes, wire, reader, ghosts>>

------------------------------------------------------------------------------
(* The controller and the network (external) *)

\* The channels a mask names.
Marked(mask) == UNION {{b * ByteBits + i + 1 : i \in mask[b]} : b \in DOMAIN mask}

\* Ask with a new number. Nothing of the last lap of numbers is in flight, and
\* answers to earlier questions are passed over.
Ask(op, idx, got) ==
    LET seq == (scan.seq + 1) % NumMod
    IN  /\ scan' = [op |-> op, seq |-> seq, idx |-> idx, got |-> got]
        /\ wire' = {d \in wire : d.to = "device" /\ d.seq # seq} \cup {Question(op, seq, idx)}

StartScan(op) ==
    /\ scan.op = "none" /\ op = reads
    /\ \/ op = "channels" /\ dirty # {} /\ reading' = dirty /\ dirty' = {}
       \/ op = "flows" /\ UNCHANGED <<reading, dirty>>
    /\ Ask(op, 1, <<>>)
    /\ held' = [c \in Chan |-> IF op = "channels" THEN {names[c]} ELSE {}]
    /\ had' = IF op = "flows" THEN flows ELSE <<>>
    /\ removed' = FALSE
    /\ UNCHANGED <<device, notices, view, flowView, reads, missed>>

Retry ==
    /\ scan.op # "none"
    /\ wire' = wire \cup {Question(scan.op, scan.seq, scan.idx)}
    /\ UNCHANGED <<device, notices, reader, ghosts>>

\* The answer to the question: ask for more, or show what was read.
TakePage(d) ==
    /\ d.to = "controller" /\ scan.op = d.op /\ scan.seq = d.seq
    /\ LET got == scan.got \o d.items
       IN  \/ /\ d.code = "more"
              /\ Ask(scan.op, scan.idx + Len(d.items), got)
              /\ UNCHANGED <<reading, view, flowView, held, had, removed>>
           \/ /\ d.code = "ok"
              /\ scan' = [scan EXCEPT !.op = "none", !.idx = 1, !.got = <<>>]
              /\ wire' = wire \ {d}
              /\ reading' = {}
              /\ view' = [c \in Chan |-> IF c \in reading /\ c \in 1..Len(got)
                                         THEN got[c].name ELSE view[c]]
              /\ flowView' = IF scan.op = "flows" THEN got ELSE flowView
              /\ held' = [c \in Chan |-> {}] /\ had' = <<>> /\ removed' = FALSE
    /\ UNCHANGED <<device, notices, dirty, reads, missed>>

TakeNotice(mask) ==
    /\ dirty' = dirty \cup Marked(mask)
    /\ notices' = notices \ {mask}
    /\ UNCHANGED <<device, wire, scan, reading, view, flowView, ghosts>>

Lose(d) ==
    /\ wire' = wire \ {d}
    /\ UNCHANGED <<device, notices, reader, ghosts>>

LoseNotice(mask) ==
    /\ notices' = notices \ {mask}
    /\ missed' = missed \cup Marked(mask)
    /\ UNCHANGED <<device, wire, reader, reads, held, had, removed>>

------------------------------------------------------------------------------
Handle(q) == HandleRxChannels(q) \/ HandleRxFlows(q)

\* The 0x3001 requests of controllers; an id may be none of the device's.
Renames == UNION {[ids -> Names] : ids \in RenameIds}

Next ==
    \/ \E d \in wire : Handle(d) \/ TakePage(d) \/ Lose(d)
    \/ \E new \in Renames : RenameRx(new)
    \/ \E c \in Chan : SetTx(c)
    \/ PushFlow
    \/ \E i \in 1..Len(flows) : RemoveFlow(i)
    \/ SendChannelChange
    \/ \E mask \in notices : TakeNotice(mask) \/ LoseNotice(mask)
    \/ \E op \in {"channels", "flows"} : StartScan(op)
    \/ Retry

Spec == Init /\ [][Next]_vars

\* The server and the info task run. The controller repeats its question, and
\* of endlessly many questions and answers the network lets one through.
Fairness ==
    /\ WF_vars(SendChannelChange) /\ WF_vars(Retry)
    /\ SF_vars(\E d \in wire : d.seq = scan.seq /\ Handle(d))
    /\ SF_vars(\E d \in wire : TakePage(d))

FairSpec == Spec /\ Fairness

------------------------------------------------------------------------------
(* Properties *)

\* However the pages were cut when they were answered, and whatever was lost
\* or came twice: a controller has read the first channels in order, each
\* once, with a name the channel has had since the scan began.
ScanIsExact ==
    scan.op = "channels" =>
        /\ Len(scan.got) = scan.idx - 1
        /\ \A i \in 1..Len(scan.got) :
              scan.got[i].id = i /\ scan.got[i].name \in held[i]

\* What a controller shows for a channel is the channel's name, unless it is
\* about to read it again, an event or a mask that names it is under way, or
\* the mask was lost: 0x3001 does not leave a controller with a stale name.
ViewIsCurrent ==
    \A c \in Chan :
        \/ view[c] = names[c]
        \/ c \in dirty \cup reading \cup missed
        \/ \E i \in 1..Len(events) : c \in events[i]
        \/ \E mask \in notices : c \in Marked(mask)

\* Flows are read by index while the list changes: none is read twice, and
\* one that was there when the scan began and is still there is missing only
\* if another was removed meanwhile.
FlowScanIsSound ==
    [][scan.op = "flows" /\ scan'.op = "none" =>
          /\ IsInjective(flowView')
          /\ ~removed => \A i \in 1..Len(had) : had[i] \in Range(flowView')]_vars

\* A controller whose answer says that more remain goes on with a later item,
\* and with one of the device's channels: reading them takes no more questions
\* than there are channels, however their strings fill the pages.
ScanAdvances ==
    [][scan.op # "none" /\ scan'.op # "none" /\ scan' # scan =>
          /\ scan'.idx > scan.idx
          /\ scan.op = "channels" => scan'.idx <= NChan]_vars

\* Every scan comes to an end: a page that says that more remain has at least
\* one item.
ScanEnds == scan.op # "none" ~> scan.op = "none"

=============================================================================
