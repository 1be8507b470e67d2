--------------------------- MODULE LifecycleProofs ---------------------------
(***************************************************************************)
(* For any number of devices, ports held by other programs and either kind *)
(* of runtime: start returns only whole devices (StartedIsWhole), shutdown *)
(* leaves no thread (ShutdownLeavesNoThread), and neither shutdown nor drop*)
(* waits for what cannot end (NoVainWait).                                 *)
(*                                                                         *)
(* The argument: a place the caller is at tells what it has started and    *)
(* has seen end; a thread that was seen to end does not come back, and     *)
(* nothing ends before the caller has given a signal. The joins come after *)
(* their signals (ToldInv), and a program is in the joins of one device at *)
(* a time (TurnsInv), so that no other join stops the runtime.             *)
(***************************************************************************)
EXTENDS Lifecycle, TLAPS

\* Places of the caller before its wait for the control plane, and from its
\* return to the signal.
Starting == {"new", "mdns", "media", "ptp", "control"}
Live     == Starting \cup {"wait", "up"}

\* No signal is given before the caller is done with a device.
QuietInv(n) ==
    /\ owner[n] \in Live => ~stopped[n] /\ ~mdnsStop[n] /\ ~aborted[n] /\ watch[n] = "open"

\* What is started, and not ended, at the places of start_inner.
StartInv(n) ==
    /\ owner[n] \in Starting => /\ \A x \in Servers \cup {"control"} : work[n][x] = "off"
                                /\ ready[n] = "none"
    /\ owner[n] \in {"new", "mdns"} => work[n]["mdns"] = "off"
    /\ owner[n] \in {"new", "mdns", "media"} => work[n]["media"] = "off"
    /\ owner[n] \in {"new", "mdns", "media", "ptp"} => work[n]["ptp"] = "off"
    /\ owner[n] \in {"ptp", "control", "wait", "up"} => work[n]["media"] = "up"
    /\ owner[n] \in Live => work[n]["mdns"] # "ended"
    /\ ready[n] = "ok" /\ owner[n] \in Live =>
          \A x \in Servers \cup {"control"} : work[n][x] = "up"
    /\ owner[n] = "up" => ready[n] = "ok"

\* The control task is not an announcer, and a device that is being stopped
\* has had it run.
ControlInv(n) ==
    /\ work[n]["control"] # "probing"
    /\ work[n]["control"] = "spawned" => ready[n] = "none"
    /\ owner[n] \in {"joinControl", "joinMedia", "joinMdns", "joinPtp", "closed"} => ready[n] = "ok"

\* What shutdown has seen end, join by join.
JoinedInv(n) ==
    /\ owner[n] \in {"joinMedia", "joinMdns", "joinPtp", "closed"} => ~Running(n, "control")
    /\ owner[n] \in {"joinMdns", "joinPtp", "closed"} => ~Running(n, "media")
    /\ owner[n] \in {"joinPtp", "closed"} => ~Running(n, "mdns")
    /\ owner[n] = "closed" => ~Running(n, "ptp")

DeviceInv(n) == QuietInv(n) /\ StartInv(n) /\ ControlInv(n) /\ JoinedInv(n)

LifecycleInv == TypeOK /\ \A n \in Devices : DeviceInv(n)

------------------------------------------------------------------------------
\* A step of device n leaves the other devices alone.
Local(n) ==
    \A m \in Devices \ {n} :
        /\ owner'[m] = owner[m] /\ work'[m] = work[m]
        /\ ready'[m] = ready[m] /\ stopped'[m] = stopped[m] /\ watch'[m] = watch[m]
        /\ mdnsStop'[m] = mdnsStop[m] /\ aborted'[m] = aborted[m]

\* Hence only the invariant of n has to be looked at.
LEMMA LocalStep ==
    ASSUME LifecycleInv, NEW n \in Devices, Local(n), TypeOK', DeviceInv(n)'
    PROVE  LifecycleInv'
  <1> SUFFICES ASSUME NEW m \in Devices, m # n PROVE DeviceInv(m)'
    BY DEF LifecycleInv
  <1> QED BY DEF LifecycleInv, Local, DeviceInv, QuietInv, StartInv, ControlInv, JoinedInv, Running

\* No device is started yet.
LEMMA InitInv == Init => LifecycleInv
  BY DEF Init, LifecycleInv, TypeOK, Owner, WorkState, DeviceInv, QuietInv, StartInv, ControlInv,
         JoinedInv, Live, Starting, Workers, Servers, Running

\* start_inner: each step starts one thing and goes on, or gives up.
LEMMA StartKeepsInv ==
    ASSUME LifecycleInv, NEW n \in Devices,
           \/ \E test \in BOOLEAN : Start(n, test)
           \/ MdnsFails(n)
           \/ MdnsStarts(n)
           \/ MediaStarts(n)
           \/ PtpFails(n)
           \/ PtpDenied(n)
           \/ PtpStarts(n)
           \/ ControlStarts(n)
           \/ StartSucceeds(n)
           \/ StartFails(n)
           \/ CancelStart(n)
    PROVE  LifecycleInv'
  <1> USE DEF LifecycleInv, TypeOK, Owner, WorkState, Workers, Servers, At, Set
  <1>1. CASE \E test \in BOOLEAN : Start(n, test)
    <2>1. TypeOK' /\ Local(n)
      BY <1>1 DEF Local, flags, Start
    <2>2. DeviceInv(n)'
      BY <1>1 DEF DeviceInv, QuietInv, StartInv, ControlInv, JoinedInv, Live, Starting, Running,
                  flags, Start
    <2> QED BY <2>1, <2>2, LocalStep
  <1>2. CASE MdnsFails(n)
    <2>1. TypeOK' /\ Local(n)
      BY <1>2 DEF Local, flags, MdnsFails, Abandon
    <2>2. DeviceInv(n)'
      BY <1>2 DEF DeviceInv, QuietInv, StartInv, ControlInv, JoinedInv, Live, Starting, Running,
                  flags, MdnsFails, Abandon
    <2> QED BY <2>1, <2>2, LocalStep
  <1>3. CASE MdnsStarts(n)
    <2>1. TypeOK' /\ Local(n)
      BY <1>3 DEF Local, flags, MdnsStarts
    <2>2. DeviceInv(n)'
      BY <1>3 DEF DeviceInv, QuietInv, StartInv, ControlInv, JoinedInv, Live, Starting, Running,
                  flags, MdnsStarts
    <2> QED BY <2>1, <2>2, LocalStep
  <1>4. CASE MediaStarts(n)
    <2>1. TypeOK' /\ Local(n)
      BY <1>4 DEF Local, flags, MediaStarts
    <2>2. DeviceInv(n)'
      BY <1>4 DEF DeviceInv, QuietInv, StartInv, ControlInv, JoinedInv, Live, Starting, Running,
                  flags, MediaStarts
    <2> QED BY <2>1, <2>2, LocalStep
  <1>5. CASE PtpFails(n)
    <2>1. TypeOK' /\ Local(n)
      BY <1>5 DEF Local, flags, PtpFails, Abandon
    <2>2. DeviceInv(n)'
      BY <1>5 DEF DeviceInv, QuietInv, StartInv, ControlInv, JoinedInv, Live, Starting, Running,
                  flags, PtpFails, Abandon
    <2> QED BY <2>1, <2>2, LocalStep
  <1>6. CASE PtpDenied(n)
    <2>1. TypeOK' /\ Local(n)
      BY <1>6 DEF Local, flags, PtpDenied
    <2>2. DeviceInv(n)'
      BY <1>6 DEF DeviceInv, QuietInv, StartInv, ControlInv, JoinedInv, Live, Starting, Running,
                  flags, PtpDenied
    <2> QED BY <2>1, <2>2, LocalStep
  <1>7. CASE PtpStarts(n)
    <2>1. TypeOK' /\ Local(n)
      BY <1>7 DEF Local, flags, PtpStarts
    <2>2. DeviceInv(n)'
      BY <1>7 DEF DeviceInv, QuietInv, StartInv, ControlInv, JoinedInv, Live, Starting, Running,
                  flags, PtpStarts
    <2> QED BY <2>1, <2>2, LocalStep
  <1>8. CASE ControlStarts(n)
    <2>1. TypeOK' /\ Local(n)
      BY <1>8 DEF Local, flags, ControlStarts
    <2>2. DeviceInv(n)'
      BY <1>8 DEF DeviceInv, QuietInv, StartInv, ControlInv, JoinedInv, Live, Starting, Running,
                  flags, ControlStarts
    <2> QED BY <2>1, <2>2, LocalStep
  <1>9. CASE StartSucceeds(n)
    <2>1. TypeOK' /\ Local(n)
      BY <1>9 DEF Local, flags, StartSucceeds
    <2>2. DeviceInv(n)'
      BY <1>9 DEF DeviceInv, QuietInv, StartInv, ControlInv, JoinedInv, Live, Starting, Running,
                  flags, StartSucceeds
    <2> QED BY <2>1, <2>2, LocalStep
  <1>10. CASE StartFails(n)
    <2>1. TypeOK' /\ Local(n)
      BY <1>10 DEF Local, flags, StartFails, Abandon
    <2>2. DeviceInv(n)'
      BY <1>10 DEF DeviceInv, QuietInv, StartInv, ControlInv, JoinedInv, Live, Starting, Running,
                  flags, StartFails, Abandon
    <2> QED BY <2>1, <2>2, LocalStep
  <1>11. CASE CancelStart(n)
    <2>1. TypeOK' /\ Local(n)
      BY <1>11 DEF Local, flags, CancelStart, Abandon
    <2>2. DeviceInv(n)'
      BY <1>11 DEF DeviceInv, QuietInv, StartInv, ControlInv, JoinedInv, Live, Starting, Running,
                  flags, CancelStart, Abandon
    <2> QED BY <2>1, <2>2, LocalStep
  <1> QED BY <1>1, <1>2, <1>3, <1>4, <1>5, <1>6, <1>7, <1>8, <1>9, <1>10, <1>11

\* The control task, the servers and the threads: nothing ends unless told, and
\* nothing that has ended comes back.
LEMMA WorkKeepsInv ==
    ASSUME LifecycleInv, NEW n \in Devices,
           \/ ControlBinds(n)
           \/ ControlCannotBind(n)
           \/ ControlEnds(n)
           \/ \E s \in Servers : ServerEnds(n, s)
           \/ \E x \in {"media", "ptp"} : ThreadEnds(n, x)
           \/ MdnsAnnounced(n)
           \/ MdnsEnds(n)
    PROVE  LifecycleInv'
  <1> USE DEF LifecycleInv, TypeOK, Owner, WorkState, Workers, Servers, At, Set
  <1>1. CASE ControlBinds(n)
    <2>1. TypeOK' /\ Local(n)
      BY <1>1 DEF Local, flags, ControlBinds
    <2>2. DeviceInv(n)'
      BY <1>1 DEF DeviceInv, QuietInv, StartInv, ControlInv, JoinedInv, Live, Starting, Running,
                  flags, ControlBinds
    <2> QED BY <2>1, <2>2, LocalStep
  <1>2. CASE ControlCannotBind(n)
    <2>1. TypeOK' /\ Local(n)
      BY <1>2 DEF Local, flags, ControlCannotBind
    <2>2. DeviceInv(n)'
      BY <1>2 DEF DeviceInv, QuietInv, StartInv, ControlInv, JoinedInv, Live, Starting, Running,
                  flags, ControlCannotBind
    <2> QED BY <2>1, <2>2, LocalStep
  <1>3. CASE ControlEnds(n)
    <2>1. TypeOK' /\ Local(n)
      BY <1>3 DEF Local, flags, ControlEnds
    <2>2. DeviceInv(n)'
      BY <1>3 DEF DeviceInv, QuietInv, StartInv, ControlInv, JoinedInv, Live, Starting, Running,
                  flags, ControlEnds
    <2> QED BY <2>1, <2>2, LocalStep
  <1>4. CASE \E s \in Servers : ServerEnds(n, s)
    <2>1. TypeOK' /\ Local(n)
      BY <1>4 DEF Local, flags, ServerEnds
    <2>2. DeviceInv(n)'
      BY <1>4 DEF DeviceInv, QuietInv, StartInv, ControlInv, JoinedInv, Live, Starting, Running,
                  flags, ServerEnds
    <2> QED BY <2>1, <2>2, LocalStep
  <1>5. CASE \E x \in {"media", "ptp"} : ThreadEnds(n, x)
    <2>1. TypeOK' /\ Local(n)
      BY <1>5 DEF Local, flags, ThreadEnds
    <2>2. DeviceInv(n)'
      BY <1>5 DEF DeviceInv, QuietInv, StartInv, ControlInv, JoinedInv, Live, Starting, Running,
                  flags, ThreadEnds
    <2> QED BY <2>1, <2>2, LocalStep
  <1>6. CASE MdnsAnnounced(n)
    <2>1. TypeOK' /\ Local(n)
      BY <1>6 DEF Local, flags, MdnsAnnounced
    <2>2. DeviceInv(n)'
      BY <1>6 DEF DeviceInv, QuietInv, StartInv, ControlInv, JoinedInv, Live, Starting, Running,
                  flags, MdnsAnnounced
    <2> QED BY <2>1, <2>2, LocalStep
  <1>7. CASE MdnsEnds(n)
    <2>1. TypeOK' /\ Local(n)
      BY <1>7 DEF Local, flags, MdnsEnds
    <2>2. DeviceInv(n)'
      BY <1>7 DEF DeviceInv, QuietInv, StartInv, ControlInv, JoinedInv, Live, Starting, Running,
                  flags, MdnsEnds
    <2> QED BY <2>1, <2>2, LocalStep
  <1> QED BY <1>1, <1>2, <1>3, <1>4, <1>5, <1>6, <1>7

\* shutdown and drop: the caller goes on when what it waits for has ended.
LEMMA StopKeepsInv ==
    ASSUME LifecycleInv, NEW n \in Devices,
           \/ Shutdown(n)
           \/ CancelShutdown(n)
           \/ Drop(n)
           \/ JoinControl(n)
           \/ JoinMedia(n)
           \/ JoinMdns(n)
           \/ JoinPtp(n)
           \/ DropJoinsMdns(n)
    PROVE  LifecycleInv'
  <1> USE DEF LifecycleInv, TypeOK, Owner, WorkState, Workers, Servers, At, Set
  <1>1. CASE Shutdown(n)
    <2>1. TypeOK' /\ Local(n)
      BY <1>1 DEF Local, flags, Shutdown, SignalStop
    <2>2. DeviceInv(n)'
      BY <1>1 DEF DeviceInv, QuietInv, StartInv, ControlInv, JoinedInv, Live, Starting, Running,
                  flags, Shutdown, SignalStop
    <2> QED BY <2>1, <2>2, LocalStep
  <1>2. CASE CancelShutdown(n)
    <2>1. TypeOK' /\ Local(n)
      BY <1>2 DEF Local, flags, CancelShutdown, SignalStop
    <2>2. DeviceInv(n)'
      BY <1>2 DEF DeviceInv, QuietInv, StartInv, ControlInv, JoinedInv, Live, Starting, Running,
                  flags, CancelShutdown, SignalStop
    <2> QED BY <2>1, <2>2, LocalStep
  <1>3. CASE Drop(n)
    <2>1. TypeOK' /\ Local(n)
      BY <1>3 DEF Local, flags, Drop, SignalStop
    <2>2. DeviceInv(n)'
      BY <1>3 DEF DeviceInv, QuietInv, StartInv, ControlInv, JoinedInv, Live, Starting, Running,
                  flags, Drop, SignalStop
    <2> QED BY <2>1, <2>2, LocalStep
  <1>4. CASE JoinControl(n)
    <2>1. TypeOK' /\ Local(n)
      BY <1>4 DEF Local, flags, JoinControl
    <2>2. DeviceInv(n)'
      BY <1>4 DEF DeviceInv, QuietInv, StartInv, ControlInv, JoinedInv, Live, Starting, Running,
                  flags, JoinControl
    <2> QED BY <2>1, <2>2, LocalStep
  <1>5. CASE JoinMedia(n)
    <2>1. TypeOK' /\ Local(n)
      BY <1>5 DEF Local, flags, JoinMedia
    <2>2. DeviceInv(n)'
      BY <1>5 DEF DeviceInv, QuietInv, StartInv, ControlInv, JoinedInv, Live, Starting, Running,
                  flags, JoinMedia
    <2> QED BY <2>1, <2>2, LocalStep
  <1>6. CASE JoinMdns(n)
    <2>1. TypeOK' /\ Local(n)
      BY <1>6 DEF Local, flags, JoinMdns
    <2>2. DeviceInv(n)'
      BY <1>6 DEF DeviceInv, QuietInv, StartInv, ControlInv, JoinedInv, Live, Starting, Running,
                  flags, JoinMdns
    <2> QED BY <2>1, <2>2, LocalStep
  <1>7. CASE JoinPtp(n)
    <2>1. TypeOK' /\ Local(n)
      BY <1>7 DEF Local, flags, JoinPtp
    <2>2. DeviceInv(n)'
      BY <1>7 DEF DeviceInv, QuietInv, StartInv, ControlInv, JoinedInv, Live, Starting, Running,
                  flags, JoinPtp
    <2> QED BY <2>1, <2>2, LocalStep
  <1>8. CASE DropJoinsMdns(n)
    <2>1. TypeOK' /\ Local(n)
      BY <1>8 DEF Local, flags, DropJoinsMdns
    <2>2. DeviceInv(n)'
      BY <1>8 DEF DeviceInv, QuietInv, StartInv, ControlInv, JoinedInv, Live, Starting, Running,
                  flags, DropJoinsMdns
    <2> QED BY <2>1, <2>2, LocalStep
  <1> QED BY <1>1, <1>2, <1>3, <1>4, <1>5, <1>6, <1>7, <1>8

\* The inductive invariant.
THEOREM LifecycleInvariant == Spec => []LifecycleInv
  <1>1. LifecycleInv /\ [Next]_vars => LifecycleInv'
    <2> SUFFICES ASSUME LifecycleInv, [Next]_vars PROVE LifecycleInv'
      OBVIOUS
    <2>1. ASSUME NEW n \in Devices,
                 \/ \E test \in BOOLEAN : Start(n, test)
                 \/ StartStep(n) \/ CancelStart(n)
          PROVE  LifecycleInv'
      BY <2>1, StartKeepsInv DEF StartStep
    <2>2. ASSUME NEW n \in Devices,
                 \/ ControlStep(n)
                 \/ \E s \in Servers : ServerEnds(n, s)
                 \/ \E x \in {"media", "ptp"} : ThreadEnds(n, x)
                 \/ MdnsAnnounced(n) \/ MdnsEnds(n)
          PROVE  LifecycleInv'
      BY <2>2, WorkKeepsInv DEF ControlStep
    <2>3. ASSUME NEW n \in Devices, Shutdown(n) \/ CancelShutdown(n) \/ Drop(n) \/ StopStep(n)
          PROVE  LifecycleInv'
      BY <2>3, StopKeepsInv DEF StopStep
    <2>4. CASE UNCHANGED vars
      BY <2>4 DEF vars, flags, LifecycleInv, TypeOK, DeviceInv, QuietInv, StartInv, ControlInv,
                  JoinedInv, Running
    <2> QED BY <2>1, <2>2, <2>3, <2>4 DEF Next
  <1> QED BY InitInv, <1>1, PTL DEF Spec

\* A device that start has returned is whole, for every number of starts
\* before it and whatever they have left behind.
THEOREM StartReturnsWholeDevices == Spec => []StartedIsWhole
  <1>1. LifecycleInv => StartedIsWhole
    BY DEF LifecycleInv, TypeOK, WorkState, Workers, Servers, DeviceInv, StartInv, Live,
           StartedIsWhole, Running
  <1> QED BY LifecycleInvariant, <1>1, PTL

\* When shutdown returns, no thread of the device is left.
THEOREM ShutdownEndsThreads == Spec => []ShutdownLeavesNoThread
  <1>1. LifecycleInv => ShutdownLeavesNoThread
    BY DEF LifecycleInv, DeviceInv, JoinedInv, ShutdownLeavesNoThread
  <1> QED BY LifecycleInvariant, <1>1, PTL

------------------------------------------------------------------------------
(* Waiting *)

\* A device that is being stopped has been told so.
ToldInv(n) ==
    /\ Stopping(n) => stopped[n] /\ watch[n] = "sent"
    /\ owner[n] \in {"joinMdns", "dropMdns"} => mdnsStop[n]

\* The program is done with a device before it starts the next.
TurnsInv == \A m, n \in Devices : m < n /\ owner[n] # "new" => Over(m)

WaitInv == TurnsInv /\ \A n \in Devices : ToldInv(n)

\* The caller moves one device, from no place where it is over and, to start
\* it, only when the ones before are; it waits when the signals are given.
Moves(n) ==
    /\ \A m \in Devices : m # n => owner'[m] = owner[m]
    /\ owner'[n] = owner[n] \/ ~Over(n)
    /\ owner[n] = "new" /\ owner'[n] # "new" => \A m \in Devices : m < n => Over(m)
    /\ \A m \in Devices : m # n => /\ stopped'[m] = stopped[m] /\ watch'[m] = watch[m]
                                   /\ mdnsStop'[m] = mdnsStop[m]

\* Every step is such a move, or moves nothing.
LEMMA EveryStepMoves ==
    ASSUME LifecycleInv, WaitInv, Next
    PROVE  \E n \in Devices : Moves(n) /\ ToldInv(n)'
  <1> USE DEF LifecycleInv, TypeOK, At, flags, Moves, ToldInv, WaitInv, Over, Stopping
  <1>1. ASSUME NEW n \in Devices, NEW test \in BOOLEAN, Start(n, test) PROVE Moves(n) /\ ToldInv(n)'
    BY <1>1 DEF Start
  <1>2. ASSUME NEW n \in Devices, NEW here, here \in {"mdns", "ptp", "wait"}, Abandon(n, here)
        PROVE  Moves(n) /\ ToldInv(n)'
    BY <1>2 DEF Abandon
  <1>3. ASSUME NEW n \in Devices, StartStep(n) \/ CancelStart(n) PROVE Moves(n) /\ ToldInv(n)'
    <2>1. CASE MdnsFails(n) \/ PtpFails(n) \/ StartFails(n) \/ CancelStart(n)
      BY <1>2, <2>1 DEF MdnsFails, PtpFails, StartFails, CancelStart
    <2>2. CASE MdnsStarts(n) \/ MediaStarts(n) \/ PtpDenied(n) \/ PtpStarts(n) \/ ControlStarts(n)
               \/ StartSucceeds(n)
      BY <2>2 DEF MdnsStarts, MediaStarts, PtpDenied, PtpStarts, ControlStarts, StartSucceeds
    <2> QED BY <1>3, <2>1, <2>2 DEF StartStep
  <1>4. ASSUME NEW n \in Devices, Shutdown(n) \/ CancelShutdown(n) \/ Drop(n) \/ StopStep(n)
        PROVE  Moves(n) /\ ToldInv(n)'
    <2>1. CASE Shutdown(n) BY <2>1 DEF Shutdown, SignalStop
    <2>2. CASE CancelShutdown(n) BY <2>2 DEF CancelShutdown, SignalStop
    <2>3. CASE Drop(n) BY <2>3 DEF Drop, SignalStop
    <2>4. CASE JoinControl(n) BY <2>4 DEF JoinControl
    <2>5. CASE JoinMedia(n) BY <2>5 DEF JoinMedia
    <2>6. CASE JoinMdns(n) BY <2>6 DEF JoinMdns
    <2>7. CASE JoinPtp(n) BY <2>7 DEF JoinPtp
    <2>8. CASE DropJoinsMdns(n) BY <2>8 DEF DropJoinsMdns
    <2> QED BY <1>4, <2>1, <2>2, <2>3, <2>4, <2>5, <2>6, <2>7, <2>8 DEF StopStep
  <1>5. ASSUME NEW n \in Devices, UNCHANGED <<owner, stopped, watch, mdnsStop>>
        PROVE  Moves(n) /\ ToldInv(n)'
    BY <1>5
  <1>6. ASSUME NEW n \in Devices,
               \/ ControlStep(n)
               \/ \E s \in Servers : ServerEnds(n, s)
               \/ \E x \in {"media", "ptp"} : ThreadEnds(n, x)
               \/ MdnsAnnounced(n) \/ MdnsEnds(n)
        PROVE  UNCHANGED <<owner, stopped, watch, mdnsStop>>
    BY <1>6 DEF ControlStep, ControlBinds, ControlCannotBind, ControlEnds, ServerEnds, ThreadEnds,
                MdnsAnnounced, MdnsEnds
  <1> HIDE DEF LifecycleInv, TypeOK, At, flags, Moves, ToldInv, WaitInv, Over, Stopping
  <1> QED BY <1>1, <1>3, <1>4, <1>5, <1>6 DEF Next

\* WaitInv holds in every reachable state.
THEOREM WaitInvariant == Spec => []WaitInv
  <1>1. Init => WaitInv
    BY DEF Init, WaitInv, TurnsInv, ToldInv, Stopping
  <1>2. LifecycleInv /\ WaitInv /\ [Next]_vars => WaitInv'
    <2> SUFFICES ASSUME LifecycleInv, WaitInv, [Next]_vars PROVE WaitInv'
      OBVIOUS
    <2>1. CASE Next
      <3>1. PICK n \in Devices : Moves(n) /\ ToldInv(n)' BY <2>1, EveryStepMoves
      <3>2. \A m \in Devices : ToldInv(m)' BY <3>1 DEF Moves, WaitInv, ToldInv, Stopping
      <3>3. ASSUME NEW i \in Devices, NEW j \in Devices, i < j, owner'[j] # "new" PROVE Over(i)'
        <4>1. CASE Over(i)
          <5>1. owner'[i] = owner[i] BY <3>1, <4>1 DEF Moves
          <5> QED BY <4>1, <5>1 DEF Over
        <4>2. CASE ~Over(i)
          <5>1. owner[j] = "new" BY <3>3, <4>2 DEF WaitInv, TurnsInv
          <5>2. j = n BY <3>1, <3>3, <5>1 DEF Moves
          <5> QED BY <3>1, <3>3, <4>2, <5>1, <5>2 DEF Moves
        <4> QED BY <4>1, <4>2
      <3> QED BY <3>2, <3>3 DEF WaitInv, TurnsInv
    <2>2. CASE UNCHANGED vars
      BY <2>2 DEF vars, flags, WaitInv, TurnsInv, ToldInv, Over, Stopping
    <2> QED BY <2>1, <2>2
  <1> QED BY <1>1, <1>2, LifecycleInvariant, PTL DEF Spec

\* shutdown and drop never wait in vain, for any number of devices one after the
\* other and on either runtime: with the fairness of threads and tasks this is
\* why they return.
THEOREM StopsNeverWaitInVain == Spec => []NoVainWait
  <1>1. LifecycleInv /\ WaitInv => NoVainWait
    <2> SUFFICES ASSUME LifecycleInv, WaitInv, NEW n \in Devices
                 PROVE  /\ owner[n] = "joinControl" /\ Running(n, "control") =>
                              ~Blocked /\ work[n]["control"] = "up" /\ watch[n] # "open"
                        /\ owner[n] = "joinMedia" /\ Running(n, "media") => stopped[n]
                        /\ owner[n] \in {"joinMdns", "dropMdns"} /\ Running(n, "mdns") => mdnsStop[n]
                        /\ owner[n] = "joinPtp" /\ Running(n, "ptp") => stopped[n]
      BY DEF NoVainWait
    <2>1. ASSUME owner[n] = "joinControl" PROVE ~Blocked
      <3> SUFFICES ASSUME NEW m \in Devices, owner[m] \in {"joinMedia", "joinMdns", "joinPtp", "dropMdns"}
                   PROVE  FALSE
        BY DEF Blocked
      <3>1. ~Over(m) /\ ~Over(n) /\ owner[m] # "new" /\ owner[n] # "new" /\ m # n BY <2>1 DEF Over
      <3>2. m < n \/ n < m BY <3>1, LifecycleAssumption DEF Devices
      <3> QED BY <3>1, <3>2 DEF WaitInv, TurnsInv
    <2>2. ASSUME owner[n] = "joinControl", Running(n, "control") PROVE work[n]["control"] = "up"
      BY <2>2 DEF LifecycleInv, DeviceInv, ControlInv, Running
    <2>3. ToldInv(n) BY DEF WaitInv
    <2> QED BY <2>1, <2>2, <2>3 DEF ToldInv, Stopping
  <1> QED BY <1>1, LifecycleInvariant, WaitInvariant, PTL

=============================================================================
