------------------------------ MODULE Discovery ------------------------------
(***************************************************************************)
(* Finding a transmitter by mDNS: what resolve_tx (src/device/subscribe.rs)*)
(* makes of the answers to its two queries, one for the channel's instance *)
(* and one for the host's ARC instance, and which queries the announcer of *)
(* this code (src/net/mdns.rs) answers and with what (src/protocol/mdns.rs)*)
(*                                                                         *)
(* A device on the link is a record: its address ip, its name host, its    *)
(* kind ("rx": this code, which announces no channels; "tx": a transmitter,*)
(* external), the flows-control port, the sample rate and the numbers of   *)
(* its channels by name, and whether its answers contain only record types *)
(* that this code can decode (plain).                                      *)
(***************************************************************************)
EXTENDS Integers, Sequences

CONSTANTS
    OwnRate,      \* sample rate of this device
    DefaultPort,  \* ports::FLOWS_CONTROL
    ArcPort       \* port of a device's ARC server

NoIp == "none"

\* names_match compares without case and final dots: names are equal or not.
ChanInstance(c, host)  == <<"chan", c, host>>
ServiceInstance(host, service) == <<service, host>>
HostLocal(host) == <<"local", host>>

Record(type, name, val) == [type |-> type, name |-> name, val |-> val]

\* build_announcement: the records in the order of answers and additionals.
\* The id of a TXT record is the device's, in hex, and is taken not to parse as
\* a channel number. (A device_id set to digits that make a number below 65536
\* would parse. The record answers no query for a channel, so it would only
\* matter where a transmitter and a receiver carry one name.)
BuildAnnouncement(d) ==
    LET arc == ServiceInstance(d.host, "arc")
        cmc == ServiceInstance(d.host, "cmc")
    IN  << Record("PTR", <<"arc">>, arc), Record("PTR", <<"cmc">>, cmc),
           Record("SRV", arc, ArcPort), Record("TXT", arc, [mf |-> "this"]),
           Record("SRV", cmc, ArcPort + 1), Record("TXT", cmc, [process |-> 1]),
           Record("A", HostLocal(d.host), d.ip) >>

\* Mutant of ShouldAnswer: any instance of its services will do.
ShouldAnswerAny(d, q) == q[1] \in {"arc", "cmc"}

\* should_answer, for a query: the services and the device's own names.
ShouldAnswer(d, q) ==
    q \in {<<"arc">>, <<"cmc">>, ServiceInstance(d.host, "arc"),
           ServiceInstance(d.host, "cmc"), HostLocal(d.host)}

\* A transmitter answers for its channels and for its host (external).
TxRecords(d, q) ==
    IF q[1] = "chan"
    THEN << Record("SRV", q, d.port), Record("TXT", q, [rate |-> d.rate, id |-> d.chans[q[2]]]),
            Record("A", HostLocal(d.host), d.ip) >>
    ELSE << Record("SRV", q, ArcPort), Record("TXT", q, [mf |-> "other"]),
            Record("A", HostLocal(d.host), d.ip) >>

TxAnswers(d, q) ==
    \/ \E c \in DOMAIN d.chans : q = ChanInstance(c, d.host)
    \/ q = ServiceInstance(d.host, "arc")

\* Message::decode fails on a record of a type it does not know: what such an
\* answer says is as good as lost.
Decode(d, msg) == IF d.plain THEN msg ELSE <<>>

\* query: the first datagram ends it, none within the timeout is none.
Answers(link, q) ==
    {<<>>} \cup {Decode(d, BuildAnnouncement(d)) : d \in {e \in link : e.kind = "rx" /\ ShouldAnswer(e, q)}}
           \cup {Decode(d, TxRecords(d, q)) : d \in {e \in link : e.kind = "tx" /\ TxAnswers(e, q)}}

\* What resolve_tx assumes before it has an answer.
Unresolved == [ip |-> NoIp, port |-> DefaultPort, rate |-> OwnRate, id |-> 1]

\* Mutant of Consider: the name of an SRV record is not looked at.
ConsiderAnySrv(res, r, chan) ==
    [ip   |-> IF r.type = "A" THEN r.val ELSE res.ip,
     port |-> IF r.type = "SRV" THEN r.val ELSE res.port,
     rate |-> IF r.type = "TXT" /\ "rate" \in DOMAIN r.val THEN r.val.rate ELSE res.rate,
     id   |-> IF r.type = "TXT" /\ "id" \in DOMAIN r.val THEN r.val.id ELSE res.id]

\* consider, for one record: the last one of a kind counts, and only an SRV
\* record is looked at for its name.
Consider(res, r, chan) ==
    [ip   |-> IF r.type = "A" THEN r.val ELSE res.ip,
     port |-> IF r.type = "SRV" /\ r.name = chan THEN r.val ELSE res.port,
     rate |-> IF r.type = "TXT" /\ "rate" \in DOMAIN r.val THEN r.val.rate ELSE res.rate,
     id   |-> IF r.type = "TXT" /\ "id" \in DOMAIN r.val THEN r.val.id ELSE res.id]

\* The records of a message in order; what is known after each.
Considered(res, msg, chan) ==
    LET after[n \in 0..Len(msg)] == IF n = 0 THEN res ELSE Consider(after[n - 1], msg[n], chan)
    IN  after

ConsiderAll(res, msg, chan) == Considered(res, msg, chan)[Len(msg)]

=============================================================================
