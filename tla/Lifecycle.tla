------------------------------ MODULE Lifecycle ------------------------------
(***************************************************************************)
(* The life of a device (src/device/mod.rs): `start_inner` brings up the   *)
(* mDNS announcer, the media thread, the PTP thread and the control plane  *)
(* one after the other, `shutdown` waits for them in a fixed order, `drop` *)
(* waits only for the announcer. A program may start a device again after  *)
(* the last one failed or was stopped, on the same ports, while threads of *)
(* the earlier one are still there.                                        *)
(*                                                                         *)
(* The control plane is a tokio task that binds three sockets and spawns a *)
(* server for each; the others are OS threads. A caller can drop the       *)
(* future of start or of shutdown at an await.                             *)
(***************************************************************************)
EXTENDS Integers

CONSTANTS
    MaxStarts,      \* bound: devices started in one behaviour
    Contended,      \* ports that other programs may hold when one is bound
    Runtimes        \* kinds of runtime a program may have: on a
                    \* "current_thread" one no task runs while the caller
                    \* blocks in a join

Devices == 1..MaxStarts
Servers == {"arc", "cmc", "info"}
Workers == Servers \cup {"mdns", "media", "ptp", "control"}
\* The two PTP ports count as one; mDNS shares its port with other devices.
Ports   == Servers \cup {"mdns", "ptp"}

ASSUME LifecycleAssumption ==
    MaxStarts \in Nat /\ Contended \subseteq Ports /\ Runtimes \subseteq {"current_thread", "multi_thread"}

VARIABLES
    owner,     \* where the caller is in start, shutdown or drop of each device
    work,      \* the threads and tasks of each device
    ready,     \* the oneshot from the control plane to start
    stopped,   \* Shared.stopped
    watch,     \* the watch channel: "open", "sent", or "closed" with its sender
    mdnsStop,  \* MdnsAnnouncer.stop
    aborted,   \* drop has aborted the control task
    runtime    \* the program's runtime (environment)

flags == <<ready, stopped, watch, mdnsStop, aborted>>
vars  == <<owner, work, flags, runtime>>

Owner == {"new", "mdns", "media", "ptp", "control", "wait", "up", "failed",
          "joinControl", "joinMedia", "joinMdns", "joinPtp", "closed",
          "dropMdns", "dropped"}

\* "spawned" is a control task before its binds, "probing" an announcer that
\* looks only at its own stop flag.
WorkState == {"off", "spawned", "probing", "up", "ended"}

TypeOK ==
    /\ owner \in [Devices -> Owner]
    /\ work \in [Devices -> [Workers -> WorkState]]
    /\ ready \in [Devices -> {"none", "ok", "err"}]
    /\ stopped \in [Devices -> BOOLEAN]
    /\ watch \in [Devices -> {"open", "sent", "closed"}]
    /\ mdnsStop \in [Devices -> BOOLEAN] /\ aborted \in [Devices -> BOOLEAN]
    /\ runtime \in Runtimes

Init ==
    /\ owner = [n \in Devices |-> "new"]
    /\ work = [n \in Devices |-> [x \in Workers |-> "off"]]
    /\ ready = [n \in Devices |-> "none"]
    /\ stopped = [n \in Devices |-> FALSE]
    /\ watch = [n \in Devices |-> "open"]
    /\ mdnsStop = [n \in Devices |-> FALSE] /\ aborted = [n \in Devices |-> FALSE]
    /\ runtime \in Runtimes

------------------------------------------------------------------------------
Over(n) == owner[n] \in {"failed", "closed", "dropped"}
Running(n, x) == work[n][x] \in {"spawned", "probing", "up"}

\* A device of this program has the port; all but the mDNS port are exclusive.
InUse(p) == \E m \in Devices : p # "mdns" /\ work[m][p] = "up"
MayBeInUse(p) == p \in Contended \/ InUse(p)

\* The caller's thread is in a blocking join and the runtime has no other.
Blocked == runtime = "current_thread" /\ \E n \in Devices :
               owner[n] \in {"joinMedia", "joinMdns", "joinPtp", "dropMdns"}

At(n, here, there) == owner[n] = here /\ owner' = [owner EXCEPT ![n] = there]
Set(n, x, s) == work' = [work EXCEPT ![n][x] = s]

------------------------------------------------------------------------------
(* start_inner *)

\* start, or start_for_test without announcer and PTP.
Start(n, test) ==
    /\ \A m \in Devices : m < n => Over(m)
    /\ At(n, "new", IF test THEN "media" ELSE "mdns")
    /\ UNCHANGED <<work, flags, runtime>>

\* start_inner returns an error or is cancelled: its locals are dropped. That
\* closes the watch channel; the threads are detached and run on.
Abandon(n, here) ==
    /\ At(n, here, "failed")
    /\ watch' = [watch EXCEPT ![n] = "closed"]
    /\ UNCHANGED <<work, ready, stopped, mdnsStop, aborted, runtime>>

MdnsFails(n) == MayBeInUse("mdns") /\ Abandon(n, "mdns")

MdnsStarts(n) ==
    /\ ~InUse("mdns") /\ At(n, "mdns", "media") /\ Set(n, "mdns", "probing")
    /\ UNCHANGED <<flags, runtime>>

\* The test device goes straight to the control plane.
MediaStarts(n) ==
    /\ At(n, "media", IF work[n]["mdns"] = "off" THEN "control" ELSE "ptp")
    /\ Set(n, "media", "up")
    /\ UNCHANGED <<flags, runtime>>

\* The port is taken: an error like any other, not PtpBindDenied.
PtpFails(n) == MayBeInUse("ptp") /\ Abandon(n, "ptp")

\* No permission for ports 319 and 320: go on without PTP.
PtpDenied(n) ==
    /\ At(n, "ptp", "control")
    /\ UNCHANGED <<work, flags, runtime>>

PtpStarts(n) ==
    /\ ~InUse("ptp") /\ At(n, "ptp", "control") /\ Set(n, "ptp", "up")
    /\ UNCHANGED <<flags, runtime>>

\* Mutant of ControlStarts: start does not wait for the binds.
ControlStartsReady(n) ==
    /\ At(n, "control", "wait") /\ Set(n, "control", "spawned")
    /\ ready' = [ready EXCEPT ![n] = "ok"]
    /\ UNCHANGED <<stopped, watch, mdnsStop, aborted, runtime>>

ControlStarts(n) ==
    /\ At(n, "control", "wait") /\ Set(n, "control", "spawned")
    /\ UNCHANGED <<flags, runtime>>

StartSucceeds(n) ==
    /\ ready[n] = "ok" /\ At(n, "wait", "up")
    /\ UNCHANGED <<work, flags, runtime>>

StartFails(n) == ready[n] = "err" /\ Abandon(n, "wait")

CancelStart(n) == Abandon(n, "wait")

------------------------------------------------------------------------------
(* run_control and the servers *)

\* All three sockets are bound before the servers are spawned and start is
\* told; if one cannot be, those bound already are closed.
ControlBinds(n) ==
    /\ ~Blocked /\ work[n]["control"] = "spawned"
    /\ \A s \in Servers : ~InUse(s)
    /\ work' = [work EXCEPT ![n] = [x \in Workers |-> IF x \in Servers \cup {"control"}
                                                      THEN "up" ELSE @[x]]]
    /\ ready' = [ready EXCEPT ![n] = "ok"]
    /\ UNCHANGED <<owner, stopped, watch, mdnsStop, aborted, runtime>>

ControlCannotBind(n) ==
    /\ ~Blocked /\ work[n]["control"] = "spawned"
    /\ \E s \in Servers : MayBeInUse(s)
    /\ Set(n, "control", "ended")
    /\ ready' = [ready EXCEPT ![n] = "err"]
    /\ UNCHANGED <<owner, stopped, watch, mdnsStop, aborted, runtime>>

\* The control task sees a value or the end of the channel, or is aborted. It
\* then aborts the servers, which see the same channel by themselves.
ControlEnds(n) ==
    /\ ~Blocked /\ work[n]["control"] = "up"
    /\ watch[n] # "open" \/ aborted[n]
    /\ Set(n, "control", "ended")
    /\ UNCHANGED <<owner, flags, runtime>>

\* Mutant of ServerEnds: the end of the channel is not taken for a shutdown.
ServerEndsIfTold(n, s) ==
    /\ ~Blocked /\ work[n][s] = "up" /\ watch[n] = "sent"
    /\ Set(n, s, "ended")
    /\ UNCHANGED <<owner, flags, runtime>>

ServerEnds(n, s) ==
    /\ ~Blocked /\ work[n][s] = "up" /\ watch[n] # "open"
    /\ Set(n, s, "ended")
    /\ UNCHANGED <<owner, flags, runtime>>

------------------------------------------------------------------------------
(* The threads *)

\* The media and the PTP thread test stopped in every turn.
ThreadEnds(n, x) ==
    /\ x \in {"media", "ptp"} /\ work[n][x] = "up" /\ stopped[n]
    /\ Set(n, x, "ended")
    /\ UNCHANGED <<owner, flags, runtime>>

\* Three probes and two announcements are sent.
MdnsAnnounced(n) ==
    /\ work[n]["mdns"] = "probing" /\ Set(n, "mdns", "up")
    /\ UNCHANGED <<owner, flags, runtime>>

MdnsEnds(n) ==
    /\ Running(n, "mdns")
    /\ mdnsStop[n] \/ (stopped[n] /\ work[n]["mdns"] = "up")
    /\ Set(n, "mdns", "ended")
    /\ UNCHANGED <<owner, flags, runtime>>

------------------------------------------------------------------------------
(* shutdown and drop *)

\* Mutant of SignalStop: stopped is not stored.
SignalStopQuietly(n) ==
    /\ watch' = [watch EXCEPT ![n] = "sent"]
    /\ UNCHANGED stopped

\* signal_stop; the Shutdown command ends the media thread as stopped does.
SignalStop(n) ==
    /\ stopped' = [stopped EXCEPT ![n] = TRUE]
    /\ watch' = [watch EXCEPT ![n] = "sent"]

Shutdown(n) ==
    /\ At(n, "up", "joinControl") /\ SignalStop(n)
    /\ UNCHANGED <<work, ready, mdnsStop, aborted, runtime>>

JoinControl(n) ==
    /\ ~Running(n, "control") /\ At(n, "joinControl", "joinMedia")
    /\ UNCHANGED <<work, flags, runtime>>

\* The announcer is told to stop only now.
JoinMedia(n) ==
    /\ ~Running(n, "media") /\ At(n, "joinMedia", "joinMdns")
    /\ mdnsStop' = [mdnsStop EXCEPT ![n] = TRUE]
    /\ UNCHANGED <<work, ready, stopped, watch, aborted, runtime>>

\* Mutant of JoinMdns: the PTP thread is left to itself, as drop does.
JoinMdnsOnly(n) ==
    /\ ~Running(n, "mdns") /\ At(n, "joinMdns", "closed")
    /\ UNCHANGED <<work, flags, runtime>>

JoinMdns(n) ==
    /\ ~Running(n, "mdns") /\ At(n, "joinMdns", "joinPtp")
    /\ UNCHANGED <<work, flags, runtime>>

JoinPtp(n) ==
    /\ ~Running(n, "ptp") /\ At(n, "joinPtp", "closed")
    /\ UNCHANGED <<work, flags, runtime>>

\* The future of shutdown is dropped at its await, and the device with it;
\* the control task's handle is gone already.
CancelShutdown(n) ==
    /\ At(n, "joinControl", "dropMdns") /\ SignalStop(n)
    /\ mdnsStop' = [mdnsStop EXCEPT ![n] = TRUE]
    /\ UNCHANGED <<work, ready, aborted, runtime>>

Drop(n) ==
    /\ At(n, "up", "dropMdns") /\ SignalStop(n)
    /\ mdnsStop' = [mdnsStop EXCEPT ![n] = TRUE]
    /\ UNCHANGED <<work, ready, aborted, runtime>>

DropJoinsMdns(n) ==
    /\ ~Running(n, "mdns") /\ At(n, "dropMdns", "dropped")
    /\ aborted' = [aborted EXCEPT ![n] = TRUE]
    /\ UNCHANGED <<work, ready, stopped, watch, mdnsStop, runtime>>

------------------------------------------------------------------------------
StartStep(n) ==
    \/ MdnsFails(n) \/ MdnsStarts(n) \/ MediaStarts(n)
    \/ PtpFails(n) \/ PtpDenied(n) \/ PtpStarts(n)
    \/ ControlStarts(n) \/ StartSucceeds(n) \/ StartFails(n)

StopStep(n) ==
    JoinControl(n) \/ JoinMedia(n) \/ JoinMdns(n) \/ JoinPtp(n) \/ DropJoinsMdns(n)

ControlStep(n) == ControlBinds(n) \/ ControlCannotBind(n) \/ ControlEnds(n)

Next ==
    \/ \E n \in Devices :
          \/ \E test \in BOOLEAN : Start(n, test)
          \/ StartStep(n) \/ CancelStart(n)
          \/ Shutdown(n) \/ CancelShutdown(n) \/ Drop(n) \/ StopStep(n)
          \/ ControlStep(n) \/ \E s \in Servers : ServerEnds(n, s)
          \/ \E x \in {"media", "ptp"} : ThreadEnds(n, x)
          \/ MdnsAnnounced(n) \/ MdnsEnds(n)

Spec == Init /\ [][Next]_vars

\* The OS runs the threads, the runtime the tasks, and the caller goes on with
\* a call it is in; it need not start, stop or drop anything.
Fairness == \A n \in Devices :
    /\ WF_vars(StartStep(n)) /\ WF_vars(StopStep(n)) /\ WF_vars(ControlStep(n))
    /\ \A s \in Servers : WF_vars(ServerEnds(n, s))
    /\ \A x \in {"media", "ptp"} : WF_vars(ThreadEnds(n, x))
    /\ WF_vars(MdnsAnnounced(n)) /\ WF_vars(MdnsEnds(n))

FairSpec == Spec /\ Fairness

------------------------------------------------------------------------------
(* Properties *)

\* A device that start has returned is whole: its servers listen, the media
\* thread runs, and so does the announcer unless the device was started for
\* a test; start never returns ahead of the binds of another task.
StartedIsWhole ==
    \A n \in Devices : owner[n] = "up" =>
        /\ \A x \in Servers \cup {"control", "media"} : work[n][x] = "up"
        /\ work[n]["mdns"] # "off" => Running(n, "mdns")

\* When shutdown returns no thread of the device is left and its control
\* task has ended, whatever the caller did before.
ShutdownLeavesNoThread ==
    \A n \in Devices : owner[n] = "closed" =>
        \A x \in {"control", "media", "mdns", "ptp"} : ~Running(n, x)

\* The caller is inside shutdown or drop.
Stopping(n) == owner[n] \in {"joinControl", "joinMedia", "joinMdns", "joinPtp", "dropMdns"}

\* shutdown and drop never wait in vain: what a join waits for, if it has not
\* ended, has what it needs to end without the caller. The order of the joins
\* is right for the signals given so far, and the control task is awaited only
\* while no join of the program keeps its runtime from running it.
NoVainWait ==
    \A n \in Devices :
        /\ owner[n] = "joinControl" /\ Running(n, "control") =>
              ~Blocked /\ work[n]["control"] = "up" /\ watch[n] # "open"
        /\ owner[n] = "joinMedia" /\ Running(n, "media") => stopped[n]
        /\ owner[n] \in {"joinMdns", "dropMdns"} /\ Running(n, "mdns") => mdnsStop[n]
        /\ owner[n] = "joinPtp" /\ Running(n, "ptp") => stopped[n]

\* shutdown and drop return, on a runtime with a single thread too.
StopReturns == \A n \in Devices : Stopping(n) ~> owner[n] \in {"closed", "dropped"}

\* After shutdown or drop everything of the device ends and its ports are
\* free, although drop waits for no thread but one and nobody waits for the
\* servers.
StoppedDeviceEnds ==
    \A n \in Devices : Stopping(n) ~> [](\A x \in Workers : ~Running(n, x))

\* The control plane of a start that failed or was cancelled, even before its
\* binds, ends by itself and frees its ports.
AbandonedControlEnds ==
    \A n \in Devices : owner[n] = "failed" ~>
        [](\A x \in Servers \cup {"control"} : ~Running(n, x))

=============================================================================
