------------------------------ MODULE MCStream ------------------------------
(* Instance of Stream for TLC. *)
EXTENDS Stream

Transmitter(ip, rate, plain) ==
    [ip |-> ip, host |-> "h", kind |-> "tx", port |-> 7, rate |-> rate,
     chans |-> [c \in {"a", "b"} |-> IF c = "a" THEN 1 ELSE 2], plain |-> plain]
Receiver(ip, host) ==
    [ip |-> ip, host |-> host, kind |-> "rx", port |-> 7, rate |-> 48, chans |-> <<>>, plain |-> TRUE]

\* The transmitter with another receiver; a name used twice; a transmitter of
\* another rate; and one whose answers cannot be decoded.
MCLinks == {{Transmitter("x", 48, TRUE), Receiver("y", "g")},
            {Transmitter("x", 48, TRUE), Receiver("y", "h")},
            {Transmitter("x", 96, TRUE)},
            {Transmitter("x", 48, FALSE)}}

MCAttempts == {1, 2}
MCPorts == {1, 2}

=============================================================================
