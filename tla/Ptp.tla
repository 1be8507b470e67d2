--------------------------------- MODULE Ptp ---------------------------------
(***************************************************************************)
(* The listen-only PTPv1 thread (src/clock/ptp.rs): one thread reads the   *)
(* event socket (Sync) and the general socket (Follow_Up) in turn, each    *)
(* read waiting at most 200 ms, and pairs the time it saw a Sync with the  *)
(* time the matching Follow_Up carries.                                    *)
(*                                                                         *)
(* A Sync is its true number n; on the wire it carries its master's uuid   *)
(* and the number of Syncs since that master's last restart modulo SeqMod  *)
(* (a u16). Datagrams can be lost on either socket; each socket is a queue.*)
(***************************************************************************)
EXTENDS Integers, Sequences

CONSTANTS
    Masters,    \* clock masters of the subdomain, by source uuid
    NoMaster,
    SeqMod,     \* width of sequenceId: 2^16
    MaxSync,    \* bound: Syncs in one behaviour
    MaxOther,   \* bound: datagrams on each socket that are not for the thread
    MaxRestarts \* bound: restarts of masters in one behaviour

ASSUME PtpAssumption ==
    /\ NoMaster \notin Masters
    /\ SeqMod \in Nat \ {0} /\ MaxSync \in Nat /\ MaxOther \in Nat /\ MaxRestarts \in Nat

VARIABLES
    sent,     \* Syncs sent
    next,     \* the sequence id of each master's next Sync
    restarts, \* restarts of masters
    others,   \* other datagrams sent to each socket
    event,    \* queue of the event socket
    general,  \* queue of the general socket
    turn,     \* which socket the thread reads next, "stopped" after the loop
    pending,  \* PendingSync: uuid, sequence id and number of t2; or none
    obs       \* the last pair given to observe: numbers t1 and t2 belong to

env  == <<sent, next, restarts, others>>
vars == <<env, event, general, turn, pending, obs>>

\* A datagram that cannot be decoded, or is of another subdomain or kind.
Other == [src |-> NoMaster, n |-> 0, seq |-> 0, oneStep |-> FALSE]
Message == [src: Masters, n: 1..MaxSync, seq: 0..SeqMod - 1, oneStep: BOOLEAN] \cup {Other}

None == [src |-> NoMaster, n |-> 0, seq |-> 0]

\* The type invariant; a sequence id stays a u16 on its way from the wire to
\* PendingSync.
TypeOK ==
    /\ sent \in 0..MaxSync /\ next \in [Masters -> 0..SeqMod - 1]
    /\ restarts \in 0..MaxRestarts
    /\ others \in [{"event", "general"} -> 0..MaxOther]
    /\ event \in Seq(Message) /\ general \in Seq(Message)
    /\ turn \in {"event", "general", "stopped"}
    /\ pending \in [src: Masters \cup {NoMaster}, n: 0..MaxSync, seq: 0..SeqMod - 1]
    /\ obs \in [t1: 0..MaxSync, t2: 0..MaxSync]

Init ==
    /\ sent = 0 /\ next = [m \in Masters |-> 0] /\ restarts = 0
    /\ others = [q \in {"event", "general"} |-> 0]
    /\ event = <<>> /\ general = <<>>
    /\ turn = "event" /\ pending = None
    /\ obs = [t1 |-> 0, t2 |-> 0]

------------------------------------------------------------------------------
(* The masters, and the network (external) *)

\* A Sync of master m, followed at once by its Follow_Up unless it is
\* one-step; each of the two datagrams arrives or is lost.
MasterSync(m, oneStep, s, f) ==
    /\ sent < MaxSync
    /\ LET msg == [src |-> m, n |-> sent + 1, seq |-> next[m], oneStep |-> oneStep]
       IN  /\ event' = IF s THEN Append(event, msg) ELSE event
           /\ general' = IF f /\ ~oneStep THEN Append(general, msg) ELSE general
    /\ sent' = sent + 1 /\ next' = [next EXCEPT ![m] = (@ + 1) % SeqMod]
    /\ UNCHANGED <<restarts, others, turn, pending, obs>>

MasterRestart(m) ==
    /\ restarts < MaxRestarts /\ next[m] # 0
    /\ restarts' = restarts + 1
    /\ next' = [next EXCEPT ![m] = 0]
    /\ UNCHANGED <<sent, others, event, general, turn, pending, obs>>

OtherDatagram(q) ==
    /\ others[q] < MaxOther
    /\ others' = [others EXCEPT ![q] = @ + 1]
    /\ event' = IF q = "event" THEN Append(event, Other) ELSE event
    /\ general' = IF q = "general" THEN Append(general, Other) ELSE general
    /\ UNCHANGED <<sent, next, restarts, turn, pending, obs>>

------------------------------------------------------------------------------
(* The thread *)

\* handle_event: a one-step Sync is observed at once, any other is kept, in
\* place of the one kept before.
HandleEvent ==
    /\ turn = "event" /\ event # <<>>
    /\ LET m == Head(event)
       IN  \/ m = Other /\ UNCHANGED <<pending, obs>>
           \/ /\ m # Other /\ m.oneStep
              /\ obs' = [t1 |-> m.n, t2 |-> m.n] /\ pending' = None
           \/ /\ m # Other /\ ~m.oneStep
              /\ pending' = [src |-> m.src, n |-> m.n, seq |-> m.seq] /\ UNCHANGED obs
    /\ event' = Tail(event) /\ turn' = "general"
    /\ UNCHANGED <<env, general>>

Observed(m) == [t1 |-> m.n, t2 |-> pending.n]

\* Mutants of HandleGeneral: the uuid is not compared; a pending Sync stays
\* after it was used and later Follow_Ups are taken for it.
HandleGeneralAnyMaster ==
    /\ turn = "general" /\ general # <<>>
    /\ LET m == Head(general)
       IN  IF m # Other /\ pending # None /\ pending.seq = m.seq
           THEN obs' = Observed(m) /\ pending' = None
           ELSE UNCHANGED <<obs, pending>>
    /\ general' = Tail(general) /\ turn' = "event"
    /\ UNCHANGED <<env, event>>

HandleGeneralKeeps ==
    /\ turn = "general" /\ general # <<>>
    /\ LET m == Head(general)
       IN  IF m # Other /\ pending # None /\ pending.src = m.src
           THEN obs' = Observed(m) /\ UNCHANGED pending
           ELSE UNCHANGED <<obs, pending>>
    /\ general' = Tail(general) /\ turn' = "event"
    /\ UNCHANGED <<env, event>>

\* handle_general: a Follow_Up that does not match leaves the pending Sync.
HandleGeneral ==
    /\ turn = "general" /\ general # <<>>
    /\ LET m == Head(general)
       IN  IF m # Other /\ pending # None /\ pending.src = m.src /\ pending.seq = m.seq
           THEN obs' = Observed(m) /\ pending' = None
           ELSE UNCHANGED <<obs, pending>>
    /\ general' = Tail(general) /\ turn' = "event"
    /\ UNCHANGED <<env, event>>

\* Nothing came within 200 ms; a pending Sync is kept, however old it is.
Timeout ==
    /\ \/ turn = "event" /\ event = <<>> /\ turn' = "general"
       \/ turn = "general" /\ general = <<>> /\ turn' = "event"
    /\ UNCHANGED <<env, event, general, pending, obs>>

\* The loop ends before it reads the event socket, once stopped is set.
Stop ==
    /\ turn = "event" /\ turn' = "stopped"
    /\ UNCHANGED <<env, event, general, pending, obs>>

------------------------------------------------------------------------------
Next ==
    \/ \E m \in Masters : \E o, s, f \in BOOLEAN : MasterSync(m, o, s, f)
    \/ \E m \in Masters : MasterRestart(m)
    \/ \E q \in {"event", "general"} : OtherDatagram(q)
    \/ HandleEvent \/ HandleGeneral \/ Timeout \/ Stop

Spec == Init /\ [][Next]_vars

------------------------------------------------------------------------------
(* Properties *)

\* Between Syncs a and b is a lap of sequence ids, or more.
LapApart(a, b) == SeqMod <= a - b \/ SeqMod <= b - a

\* An observation combines the times of one and the same Sync, whatever is
\* lost on either socket, however far one socket lags behind the other and
\* although two masters count alike, as long as no master has restarted, but
\* for halves a whole lap of ids apart. Those the code does combine: a pending
\* Sync waits without a limit (handle_general, ptp.rs:100-107, puts it back), so
\* that the Follow_Up can be of a lap later. docs/IMPLEMENTATION-PLAN.md:955 has
\* "Expire unmatched Sync after 2 s.", which would leave only a Follow_Up of a
\* lap earlier, on a general socket that lags behind by a lap.
\* (After a restart a Follow_Up of before it can match, too.)
PairsMatch == restarts = 0 => obs.t1 = obs.t2 \/ LapApart(obs.t1, obs.t2)

\* Observations are given to the servo in the order of their Syncs, each once,
\* whether masters restart or not.
ObservedInOrder == [][obs' # obs => obs'.t2 > obs.t2]_vars

=============================================================================
