------------------------------- MODULE Session -------------------------------
(***************************************************************************)
(* What the device promises a controller that waits for the answer to a    *)
(* patch and unsubscribes before it patches anew: the life of the          *)
(* subscription of each channel, without tasks, threads, flows or a        *)
(* network. Subscribe implements it (IsSession).                           *)
(***************************************************************************)
CONSTANTS
    Channels,  \* the channels
    Wishes,    \* what a channel can be subscribed to
    Nothing    \* no subscription

VARIABLES
    wanted,  \* what each channel is subscribed to
    phase    \* "none", "trying", "failed", "waiting" for packets, "receiving"

vars == <<wanted, phase>>

Init ==
    /\ wanted = [c \in Channels |-> Nothing]
    /\ phase = [c \in Channels |-> "none"]

\* The controller patches a channel.
Patch(c) ==
    /\ phase[c] = "none"
    /\ \E t \in Wishes : wanted' = [wanted EXCEPT ![c] = t]
    /\ phase' = [phase EXCEPT ![c] = "trying"]

\* The attempt fails; there is no second one.
Fail(c) == phase[c] = "trying" /\ phase' = [phase EXCEPT ![c] = "failed"] /\ UNCHANGED wanted

\* The transmitter has accepted the flow.
Establish(c) == phase[c] = "trying" /\ phase' = [phase EXCEPT ![c] = "waiting"] /\ UNCHANGED wanted

\* The first packet of the flow.
Receive(c) == phase[c] = "waiting" /\ phase' = [phase EXCEPT ![c] = "receiving"] /\ UNCHANGED wanted

\* The controller unsubscribes, when no attempt is under way.
Unpatch(c) ==
    /\ phase[c] \in {"failed", "waiting", "receiving"}
    /\ wanted' = [wanted EXCEPT ![c] = Nothing]
    /\ phase' = [phase EXCEPT ![c] = "none"]

Next == \E c \in Channels : Patch(c) \/ Fail(c) \/ Establish(c) \/ Receive(c) \/ Unpatch(c)

Spec == Init /\ [][Next]_vars

=============================================================================
