# netaudio-rs: TLA+ models and proofs

`netaudio` makes a process appear as a Dante receiver: controllers patch its
channels, transmitters send it media packets, the application reads PCM. This
directory models the parts of the crate in which several threads and tasks
share state, checks them with TLC, and proves the central properties with TLAPS
for every size of the system.

Paths such as `device/subscribe.rs` are relative to `src/` of the crate.
`PROJECT.json` maps every definition that models code to its lines.

## 1. The system

| Part | Source | State it keeps | Operations | Talks to |
| --- | --- | --- | --- | --- |
| Device lifecycle | `device/mod.rs`, `net/udp.rs` | handles of threads and tasks, `stopped`, the `watch` channel | `start`, `shutdown`, `drop`, `try_read`, `bound_ports` | everything |
| ARC server | `device/arc.rs`, `protocol/arc.rs` | `rx_names`, a queue of channel changes | one request at a time: pages of the channel and flow tables, subscribe, unsubscribe, rename | subscriptions, info task, controllers |
| Subscriptions | `device/subscribe.rs` | `subs`, `rx_flows`, `next_flow_id` | `apply`, `unsubscribe_one`, `establish` with `resolve_tx`, `stop_flow`, `mark_flow_receiving`, `rename_rx` | media thread by a channel; transmitters by UDP; the ring's `patched` |
| Media thread | `media/rx.rs` | its map of flows with their sockets, last sources and keepalive times | `AddFlow`, `RemoveFlow`, `Shutdown`, packets, keepalives | ring, clock, subscriptions |
| Receive ring | `media/ring.rs` | lanes, `filled`, `patched`, ports, time of the last packet | `write_packet`, `read`, `set_patched`, `note_port` | media thread, application |
| Overlay clock | `clock/overlay.rs` | three words under a sequence number, `source`, `lock_streak`, `acquiring` | `observe`, `now_ns`, `status`, `mark_unlocked_if_stale` | media thread, PTP thread, application |
| PTP listener | `clock/ptp.rs`, `protocol/ptp_v1.rs` | one pending Sync | `handle_event`, `handle_general` | clock |
| mDNS announcer | `net/mdns.rs`, `protocol/mdns.rs` | stop flag | probe, announce, answer | network |
| Info multicast | `device/info_mcast.rs`, `protocol/info_mcast.rs` | the queue it takes events from | multicast a channel change, heartbeat, answer | controllers |
| CMC | `device/cmc.rs`, `protocol/cmc.rs` | none | answer | network |
| Settings, codecs, interfaces | `device/settings.rs`, `protocol/*.rs`, `net/iface.rs` | none | pure functions and OS calls | - |

What is hard in it:

* `apply` runs on the ARC task, `establish` on one untracked task per attempt,
  the media thread takes commands from a channel: a subscription is changed by
  three actors, each with its own short critical sections, and `establish`
  works on for seconds with what it was given at the start.
* The network loses datagrams; the stop request to a transmitter is sent once, a
  rename is announced once, an answer may come after its timeout.
* A transmitter gives a stream up after 4 s without a keepalive; the keepalives
  of this side go to whoever sent last, and begin only after an answer that may
  take 3 s.
* Whatever answers first on the link is taken for the transmitter's answer.
* Controllers read tables page by page while other tasks change them.
* `publish` is written for one writer and is called by two threads.
* Both ends of the ring look at the clock before they take its lock; positions
  are 64-bit words that wrap; a slot does not know which position it holds.
* `observe` makes decisions on values that the other thread changes meanwhile;
  whether the clock recovers from a loss is a question of liveness.
* `start` can fail or be cancelled half way, `shutdown` blocks a thread of the
  runtime, `drop` waits for almost nothing.

What makes each part correct: a subscription names a flow that can be stopped,
"receiving" is true, nothing stops a flow in use, no flow outlives its
subscription, attempts and shutdown end (Subscriptions); a flow is asked of the
named device, its stream lives as long as it is used and no longer (Discovery,
Stream); a controller reads a table exactly and ends up with the present names
(Control); nothing is played early
or lost to the next lap, and in time the ring is a buffer by position (Ring); a
reader of the clock sees one publication (Overlay clock); the clock is driven
and locked when it can be (Servo); a pair of times is of one Sync (PTP); starting
is all or nothing for the caller and stopping ends everything (Lifecycle).
`PROJECT.json` lists the hazards behind these, line by line.

## 2. The modules

| Module | Models | Actors |
| --- | --- | --- |
| `Subscribe` | `device/subscribe.rs`, commands and first packets of `media/rx.rs`, `signal_stop` | ARC task, establish tasks, media thread, transmitters and network |
| `Session` | what a subscription promises its controller (abstract specification) | - |
| `Discovery` | `resolve_tx` and its records, `should_answer` and `build_announcement` (`net/mdns.rs`, `protocol/mdns.rs`); operators only | - |
| `Stream` | `establish` in time, keepalives of `media/rx.rs`, `stop_flow`; extends `Discovery` | establish tasks, media thread, transmitters and network, time |
| `Control` | pages of `device/arc.rs` and `protocol/arc.rs`, `rename_rx`, the channel change of `device/info_mcast.rs` | ARC server, info task, a controller and network |
| `Ring` | `media/ring.rs`, `try_read` | media thread, application, clock |
| `JitterBuffer` | what the ring promises (abstract specification) | - |
| `Seqlock` | `publish` and `now_ns` load by load and store by store | writers, readers |
| `Servo` | `observe`, `mark_unlocked_if_stale`, `status` | media thread, PTP thread, time |
| `Ptp` | `clock/ptp.rs` | PTP thread, masters and network |
| `Lifecycle` | `start_inner`, `run_control`, `shutdown`, `drop`, ends of all threads | caller, control task, servers, threads, ports other programs hold |
| `SubscribeProofs`, `StreamProofs`, `ControlProofs`, `RingProofs`, `SeqlockProofs`, `ServoProofs`, `PtpProofs`, `LifecycleProofs` | inductive invariants and theorems | - |
| `MCSubscribe`, `MCStream`, `MCControl`, `MCRing`, `MCSeqlock`, `MCServo` | instances for TLC | - |

### Subscribe

An action is one critical section together with what its actor does that
nobody can see separately. `apply` is `Subscribe` (the section on `subs`) and
`SpawnEstablish` (patch the ring, spawn), or `Unsubscribe` and
`FinishUnsubscribe` (unpatch, `stop_flow`). A request with several records is
several such pairs: `apply` handles one record after the other and takes the
locks anew for each. `establish` is `Resolving`, then
`ResolveOk`/`ResolveFails`, `BindAndRequest`/`BindFails`,
`ReplyArrives`/`RequestFails`, `RecordFlow`, `SendAddFlow`; a record that names
only a host or only a channel ends at once (`Incomplete`). The media thread is
`MediaAdd`, `MediaRemove`, `MediaExit` and `MediaPacket`. `SignalStop` and
`AbortArc` are shutdown as these actors see it.

`wire[k]` is the flows-control datagram of attempt k, which the network may
lose, `stream[k]` whether the transmitter sends. A socket takes packets of any
sender, so a stream whose stop was lost reaches the next flow on its port.
Ports come from a range that may be exhausted and then from the OS. The
controller is a parameter: `any` asks at any time, `patient` waits for the
attempt it started on a channel, `polite` also unsubscribes a channel before it
patches it anew. Time and what the mDNS answers contain are left to `Stream`: here
an attempt goes on or fails.

### Session

The life of each channel's subscription as a controller may think of it: none,
trying, failed or waiting for packets, receiving. No tasks, threads, flows or
datagrams. `Subscribe` maps to it by `Phase` (a status together with whether an
attempt is under way, `Trying`), and `IsSession` says that every behaviour with
a polite controller is one of `Session`: no attempt of an earlier
subscription, and no packet of an earlier flow, shows in a later one.

### Discovery and Stream

`Discovery` has what is sent and made of the answers: `Consider` goes through the
records of a message as `resolve_tx` does (the address of any A record, the port
of an SRV record of the right name, rate and number of any TXT record), on top of
what the attempt assumes without an answer. `Answers` is what a first datagram
can be on a link of transmitters (external) and of devices that run this code.

`Stream` counts time in keepalive intervals (250 ms). An attempt queries twice,
binds, requests, waits up to `ReplyTimeout`; with a flow in the media thread
`Turn` sends the keepalive that is due to the last source heard. `ttl[k]` is how
long the transmitter of attempt k will still send without one. `Tick` waits for
timeouts and keepalives that are due. Datagrams are lost at any time, keepalives
of one flow at most `MaxLoss` in a row. `mixed` records which sockets were
streamed to by two transmitters, which happens because ports are reused while a
stream whose stop was lost is still sent.

### Control

The ARC server answers each question from the tables of the moment:
`EncodeRxChannels` ends a page after `PageSlots` items or once the strings
have reached `PageRoom`, `EncodeRxFlows` after `PageSlots`. `RenameRx`, `SetTx`,
`PushFlow` and `RemoveFlow` change the tables between two pages. A rename queues an
event, which the info task multicasts as a mask (`ChannelChange`). The controller
(external) repeats a question until it has the answer with its number, goes on
behind the last item while the code says that more remain, and reads again what
a mask names. Questions, answers and masks are lost, repeated and reordered.

### Ring and JitterBuffer

`Arrive`/`WritePacket` and `TryRead`/`ReadBlock` are two steps each, between the
look at the clock and the lock. Samples are the true positions they were
recorded for; the code's words are those numbers modulo `WordMod`, and `SlotOf`,
`IsBefore`, `Keeps` and `ReadPos` compute on words as the code does.
`JitterBuffer` has no slots, words or threads: a set of samples named by channel
and position. The refinement mapping takes the samples of all filled slots.
`env`, chosen at the start, is how far timestamps lead and lag, how long a thread
may wait between the clock and the lock, and whether the reader keeps up
(`timely`); `age` is the time since the last packet, for the 60 ms cut-off.

### Seqlock

Every load and store is a step; all are Acquire or Release, so the order of
the program is the order of effects. A word is the number of its publication.

### Servo

The master's times are kept as displacements from its true time: `shift` of the
overlay, `master` of `last_master`, `obs[t].d` of the observation a thread is at;
local times as ages (`syncAge`, `masterAge`, `mediaAge`, `obs[t].age`) in ticks. So
whether an observation is accepted (`Check`: range, jump, outlier), what error it
has and where it leaves the overlay (`Slewed`) follow from what was accepted
before. Every store that the other thread can see alone is a step: of `publish`,
`last_master`, `initialized`, `lock_streak`, `acquiring`, `source`. `freq_scale` is left
out but for its effect, a drift of the overlay between two observations.

`kind`, chosen at the start, is the environment of a behaviour: whether packets,
Syncs or both occur, how far off observations can be (`noise`), the drifts, the
longest time without an observation that can be accepted (`gap`), and how long a
thread may be held between the `t2` of an observation and the end of `observe`
(`hold`). With `ends`, sources can end, and noise and drift can end for good.

### Ptp

Two queues, one thread that reads one datagram of each in turn, masters with a
uuid and a wrapping sequence id, one-step and two-step Syncs, losses, other
traffic, restarts.

### Lifecycle

Devices are started one after the other, in full or for a test, on the same
ports, while threads of an earlier one may still run. The caller can cancel
`start` and `shutdown` at their awaits. On a `current_thread` runtime no task
runs while the caller is in a join.

## 3. The runs

Each is `tlc -config <cfg> <module>`.

| Run | Configuration | What holds, or not |
| --- | --- | --- |
| `subscribe_polite` | `MCSubscribe_polite.cfg` | one channel, three attempts, two transmitters, polite controller: `FlowsAreWanted`, `NoForgottenFlow`, `IsSession` (refinement of `Session`) |
| `subscribe_live` | `MCSubscribe_live.cfg` | one channel, two attempts, any controller, with fairness: `TypeOK`, `FlowIsKnown`, `ReceivingIsLive`, `StopsOnlyUnwanted`, `EstablishingIsBacked`, `AttemptsEnd`, `ShutdownQuiesces`, `EstablishingSettles` |
| `subscribe_unsub` | `MCSubscribe_unsub.cfg` | violated: `UnsubscribedIsSilent` |
| `stream_alive` | `MCStream_alive.cfg` | two attempts in time on four kinds of link: `ResolvedIsNamed`, `KeptAlive`, `AbandonedIsNotKept`, `OrphanExpires` |
| `control_scan` | `MCControl_scan.cfg` | one controller, three channels, up to three flows: `ScanIsExact`, `ViewIsCurrent`, `FlowScanIsSound`, `ScanAdvances`, `ScanEnds` |
| `ring` | `MCRing_ring.cfg` | late, early and overlong packets over a word wrap, any reader: `TypeOK`, `NeverEarly`, `DueIsKept`; with a reader that keeps up also `TailIsPlayed`, `IsJitterBuffer` (refinement of `JitterBuffer`) |
| `seqlock_single` | `MCSeqlock_single.cfg` | one writer: `SnapshotIsWhole`, `SnapshotIsFresh`, `ReadsReturn` |
| `seqlock_torn` | `MCSeqlock_torn.cfg` | two writers, violated: `SnapshotIsWhole` |
| `servo_drives` | `MCServo_drives.cfg` | packets, Syncs or both, near and far off, threads held or not: `LockedIsFine`, `MediaDrives`, `IdleUnlocks`, `PtpLocks` |
| `servo_gap` | `MCServo_gap.cfg` | a gap beyond 4 s, violated: `MediaDrives` |
| `ptp_pairs` | `Ptp_pairs.cfg` | two masters, a restart: `PairsMatch`, `ObservedInOrder` |
| `lifecycle_stops` | `Lifecycle_stops.cfg` | two devices, both kinds of runtime: `StartedIsWhole`, `ShutdownLeavesNoThread`, `NoVainWait`, `StopReturns`, `StoppedDeviceEnds`, `AbandonedControlEnds` |

### What the violated ones show

* `subscribe_unsub`: a controller unsubscribes while the attempt waits for its
  answer. `apply` finds no flow to stop; the answer comes, `establish` records
  the flow in the subscription that is no more and adds it to the media thread.
  The channel is unsubscribed and its flow runs until shutdown.
* `seqlock_torn`: the media and the PTP thread are inside `publish` at once and
  their stores alternate, so that the words left behind are of both. When both
  have ended, `seq` is even and stays so, and a reader takes the mixed words for one
  publication, until the next one. (`seq` is even, too, while both are in the
  middle. With one writer this is impossible: see the theorems.)
* `servo_gap`: more than 4 s after the last accepted observation each new one is
  out of range, and only an accepted one moves `last_sync`: the clock stays
  Unlocked however many packets come.

### What the assumptions of the passing ones exclude

The assumptions are there because the code needs them; each can be dropped in
its configuration to see why.

* `Controller = "polite"` (`subscribe_polite`): with `"patient"`, a channel that
  is patched anew loses track of its first flow and `NoForgottenFlow` fails
  (`apply` keeps `flow_id`, `establish` overwrites it).
  `IsSession` is for this controller too: in `Session` a channel is patched only
  when it is free and unpatched only when its attempt is over.
* `timely` environments (`ring`): a reader that skips positions leaves samples
  that `read` returns a lap later, and a packet of the next lap replaces unread
  ones; `IsJitterBuffer`, mapped for the other environments too, fails. They also
  have no packet whose position the reader passes between the media thread's look
  at the clock (`media/rx.rs:132`) and the lock: such a frame is kept for a slot the
  reader is past, and returned a lap later.
* `TailIsPlayed` is for a latency that, with the lead and a packet, fits into the
  60 ms after which `read` returns silence. With a longer `rx_latency` the end of
  a stream is not played.
* `TimeAssumption` (`stream_alive`, `StreamProofs`): reply timeout, one interval and
  the keepalives that may be lost in a row are less than what the transmitter
  waits. In the code 12 + 1 + 2 < 16 intervals: two lost keepalives in a row are
  covered whenever the answer comes, three are not. With `Expire = 5` in the
  configuration `KeptAlive` fails.
* `k \notin mixed` (`KeptAlive`), and no other attempt on the port
  (`OrphanExpires`): a socket that hears two streams sends its keepalives to
  whichever was last, so that the old stream lives on and the wanted one may
  starve.
* `heard` and a name that only one device carries (`ResolvedIsNamed`): with the
  channel's answer lost `resolve_tx` goes on with the default port and channel
  1, and with two devices of one name it may mix their records.
* `missed` (`ViewIsCurrent`): the one multicast of a rename was lost.
* `removed` (`FlowScanIsSound`): a removal moves the flows behind it, and the
  next page starts one too far.
* `Writers` of one element (`seqlock_single`, and the theorems).
* `gap <= MaxDt` in all kinds of `servo_drives`: see `servo_gap`.
* `InReach` (`MediaDrives`, `PtpLocks`): the last accepted observation and the overlay
  are near enough to the master's time for true observations to be accepted. The
  first observation is taken whatever it says. If it was more than 50 ms off, each
  true one afterwards is a jump (`clock/overlay.rs:165`), and 4 s later out of range:
  the clock never locks. Without `InReach` TLC finds `PtpLocks` violated that way.
* `hold = 0` (`MediaDrives`, `PtpLocks`): with a thread held between `publish` and the
  store of `last_master`, `last_sync` and `last_master` can be left of two different
  observations. If these are more than 50 ms apart nothing is accepted any more.
* `HoldIsShort` (`LockedIsFine`; the kinds of the run and a hypothesis of the
  theorems): no thread is held in `observe` for half of the 200 ms between accepted
  observations or more. The code does not promise that. In the instance of the run
  (200 ms are 3 ticks) `LockedIsFine` still holds with threads held for 5 ticks, and
  fails with 6: both threads have a first observation, one is held before it stores
  `acquiring`, and meanwhile the other counts four small errors and locks.
* `LockedIsFine` says less than `docs/IMPLEMENTATION-PLAN.md:992`: "Lock: `acquiring =
  false` after **4** consecutive `|error| < 100 µs`. Any reject or `|error| > 1 ms` →
  acquiring again." In the code a reject (`clock/overlay.rs:159-178`) returns before it
  touches `acquiring`, `lock_streak` or `source`: a locked clock that rejects every
  observation stays PtpLocked and fine. And an error from 100 us to 1 ms neither
  counts nor interrupts the count, so the four need not be consecutive.
* `PtpLocks` is about a device without media packets: once packets were received
  and are past, `mark_unlocked_if_stale` resets `lock_streak` in every turn.
* `restarts = 0` and `LapApart` in `PairsMatch`: sequence ids repeat after a restart,
  and after a whole lap of ids. `docs/IMPLEMENTATION-PLAN.md:955` has "Expire unmatched
  Sync after 2 s."; the code has no expiry (`clock/ptp.rs:100-107` puts a Sync that
  does not match back, and nothing else looks at its age), so that a Follow_Up
  65536 Syncs later matches it if every Sync in between was lost. `PairsMatch` without
  `LapApart` fails in `ptp_pairs` on that account. With the documented expiry this case
  would be gone; what would remain is a Follow_Up of a lap earlier, read by a
  general socket that lags that far behind.

### Bounds, and why they are enough

* Subscribe: the properties of any controller relate two attempts at most (one
  that is recorded, one that overwrites or is stopped); three are given to the
  polite run so that a channel is subscribed again after a whole cycle. The two
  attempts of `subscribe_live` share the only port, so that binding fails and a
  port is reused; in `subscribe_polite` there are ports of the OS to fall back to.
  `IdMod = 3` makes the id counter wrap. For the safety properties of
  `subscribe_live` the theorems remove all these bounds.
* Stream: 3, 6 and 1 intervals for reply timeout, expiry and losses keep the order
  and the slack of 12, 16 and 2, with which the run passes too, in about four
  minutes. Two attempts and two ports make an orphan and the reuse of its port
  happen; the links have a second device of another name, a second of the same
  name, a transmitter of another rate, and one whose answers cannot be decoded.
  For all but `OrphanExpires` the theorems remove the bounds.
* Control: pages of two items or three bytes over three channels or up to three
  flows, and a name that fills a page alone, so that a scan has one to three
  pages and a rename moves their ends; masks of two bits a byte, so that a rename
  needs a second byte; a rename of an id that is no channel; two changes in a
  behaviour, during one scan or after it. Channels and flows do not touch
  each other's tables and are checked in separate behaviours (`Tables`).
* Ring: latency 1 gives a ring of 4 slots; 4 or 6 ticks are a lap and more, the
  clock starts at 0 or 3 positions before the word wraps, timestamps lead by up
  to 3 (beyond the ring) and lag by up to 2, the cut-off is 3 positions after the
  last packet. The theorems remove the bounds.
* Seqlock: five publications let a reader be overtaken and retry; a sixth adds
  nothing new to `seq` but its value, and the theorems are for any number.
* Servo: `Decimate`, `MinDt`, `Idle`, `MaxDt` = 2, 3, 4, 5 ticks keep the order of
  125 ms, 200 ms, 1 s and 4 s. `Jump` = 3 and `Outlier` = 4 (50 and 200 ms) with
  displacements 0, 3 and 6 make observations that are exact, just within a jump, and
  two jumps away; coarse and fine steps of 2 and 1 against errors that count below 2
  and start over above 2 keep the order of 1 ms and 50 us to 100 us and 1 ms, so
  that a clock 3 off comes back in two coarse steps. Threads are held for up to 1
  tick in one of the four kinds. `lock_streak` is capped at 4, beyond which the code
  does not tell values apart. `LockedIsFine` is proved without these bounds.
* Ptp: four Syncs of two masters suffice for a pending Sync, a lost half, one
  socket a Sync behind the other and a repeated sequence id; ids wrap at 3, so that the
  fourth Sync repeats the first's.
* Lifecycle: two devices, so that the second meets what the first left behind.

### Fairness

Weak fairness for what a thread or a spawned task does by itself: the OS runs
threads, tokio polls tasks, every await of `establish` has a timeout. Strong
fairness for `AbortArc`, because `select!` picks a ready branch at random and
cannot prefer requests for ever, and for packets of a stream that goes on
(`PacketFairness`, used only by `EstablishingSettles`). In `Servo` time passes, both
threads run, and as long as packets or Syncs last exact ones keep coming, no sooner
after the last accepted one than can be accepted; the noisy ones come in between as
they like, and whether an exact one is accepted is up to the code. That time passes
includes that no endless number of Syncs comes at one moment (beyond `OldAge`, where
ages are no longer told apart, nothing is asked of it). In
`Stream` time passes, queries and the request end by their timeouts, and the media
thread loops; that a stop is sent or arrives is not assumed. In `Control` the
controller repeats its question, and the server and the network let one of
endlessly many questions and answers through (strong fairness; used by
`ScanEnds` only).
Otherwise nothing is assumed of controllers, of a lossy network, of the application, or
that anyone ever shuts a device down. Deadlock is checked except where the system
may really stop: after shutdown (`Subscribe`), with the thread stopped and no
more Syncs to come (`Ptp`), with no change and no question left (`Control`), or once every device is over and its threads have
ended (`Lifecycle`).

## 4. The theorems

`SubscribeProofs` proves, for any number of channels, transmitters, ports and
attempts and for every controller:

* `TypeCorrect`: `Spec => []TypeOK`, without further conditions. Inductive
  together with `ProgressInv` (what a task has filled in at each point).
* `SubscribeInvariant`, and from it `FlowsAreKnown` (`FlowIsKnown`),
  `ReceivingIsTrue` (`ReceivingIsLive`) and `StopsHitOnlyUnwanted`
  (`StopsOnlyUnwanted`), under `IdsSuffice`: fewer attempts than flow ids. The
  condition is needed: the id counter wraps without a look at the ids in use.

None of the three is inductive alone. That a channel's "receiving" is true
rests on the media thread not losing its flow, so on no `RemoveFlow` being under
way for it; that rests on a flow, once unnamed, never being named again; and
that on each id belonging to one attempt, which records it once. Hence the
invariant `SubscribeInv`:

* `IdsInv`: `next_flow_id` is one more than the number of ids drawn, and no two
  attempts have the same;
* `FlowsInv`: `rx_flows` lists flows of attempts that have their answer, with
  their handles, and lists each flow that is recorded or about to be;
* `DoomedInv`: whatever is on its way to stop a flow (the ARC task, a
  `RemoveFlow`, a stop datagram) aims at a flow that was recorded and that no
  subscription names;
* `MediaInv`: a flow is handed to the media thread once, by its own attempt.

The proof has one lemma per group of actions. Frame lemmas say which facts
survive a step in which tasks only move forward (`Forward`) and no subscription
gets a new flow (`NoNewFlow`).

For any controller too, the last part proves `EstablishingIsNoLeftover`
(`EstablishingIsBacked`): while the media thread runs, no channel is left with the
status "establishing" and nothing behind it. `BackedInv` is inductive on top of
`SubscribeInv`: a flow that a subscription names is with its attempt, in the command
channel or in the media thread, and a status written before there was a flow has
its attempt still at work. That commands are not lost on the way needs
`DoomedInv` (no `RemoveFlow` is for a named flow) and `MediaInv` (no second `AddFlow`
replaces it). It is the safety part of `EstablishingSettles`.

The second part of `SubscribeProofs` is about the polite controller (`Polite`:
`IdsSuffice` and `Controller = "polite"`): `RunningFlowsAreWanted` (`FlowsAreWanted`),
`ListedFlowsAreNamed` (`NoForgottenFlow`) and `ImplementsSession` (`IsSession`, the
refinement). `PoliteInv`, on top of `SubscribeInv`:

* `AttemptInv`: a channel has one attempt under way at most, the ARC task leaves that
  channel alone meanwhile, and the subscription's flow and status are what the
  attempt's place says;
* `WishInv`: a channel without a transmitter names no flow, and one that names a flow
  is establishing or receiving while the media thread runs;
* `ListInv`: `rx_flows` lists each flow once, under the channel of its attempt;
* `QueueInv`: an `AddFlow` in the channel is for a flow that is named, or the
  `RemoveFlow` comes behind it: the order of the two is what `FlowsAreWanted` rests on.

For the refinement each step is shown to be a step of `Session` on one channel or to
leave every channel's target and `Phase` as they are (`OneChannelStep`, and a lemma
for each group of actions).

`StreamProofs` proves, for any number of attempts and ports, any link and all times
that satisfy `TimeAssumption`, `StreamsAreKeptAlive` (`KeptAlive`). The property
says that `ttl` is not 0; what is inductive (`StreamInv`, theorem `StreamInvariant`)
is how far from 0 it is:

* `TimeInv`: while an answer is on its way, `ttl` is at least the rest of the
  reply timeout and what `Expire` has beyond it; with a flow in the media thread
  it is more than the time to the next keepalive and one interval for each
  keepalive that may still be lost. `TimeAssumption` is what takes the first to
  the second when the answer comes in the last moment.
* `AloneInv`: nobody else streams to the port of an attempt that is not in
  `mixed`, so that its keepalives go to its own transmitter;
* `PlaceInv`: what can be in flight, and which fields are set, at each place of an
  attempt; `StreamType` for the ranges.

`AbandonedStreamsRunOut` (`AbandonedIsNotKept`) has its own invariant on top,
`SourcesInv`: what a flow remembers as its last sender is an attempt with the flow's
port, so that its keepalives prolong no stream to another one, and a request on its
way has not started a stream yet. It is the safety
part of `OrphanExpires`: time to live only falls, so it runs out when time passes.

`RequestsGoToTheName` (`ResolvedIsNamed`) is about the loops of `resolve_tx` over the
records of an answer, for any number of records. The loop is a recursive function on
the number of records seen (`Considered`), and the proof is an induction over the
records in the form the provers can use: if the loop's result were wrong somewhere,
there would be a least number of records after which it is (`LeastNumber`), and one
record more does not make a right result wrong. `ConsideredInOrder` says that the
loop unfolds record by record, `NothingNew` that a message which says only what is
known changes nothing, `AddressIsAnswered` that the address it ends with was in the answer.
`FoundInv` carries what was found from the answers to the request.

`ControlProofs` proves, for any number of channels, size of a page, width of a mask's
byte and numbers of questions, `ChannelScansAreExact` (`ScanIsExact`), `NoStaleNames`
(`ViewIsCurrent`), `FlowScansAreSound` and `ScansAdvance` (the action properties
`FlowScanIsSound` and `ScanAdvances`). `ControlInv`:

* `ScanInv`: the present question asks for what comes behind what was read, and each
  answer under its number continues it, however many there are and however the
  table has changed since they were given; the last page completes it. This is what
  the repeated questions and delayed answers rest on;
* `HeldInv`: a name a channel has had since the scan began is its name, or the
  rename since then is an event, a mask, a dirty channel or a lost mask (`Pending`);
* `FlowsInv`: flows have ids of their own, and without a removal those of the
  beginning are still the first;
* `TableInv`, `TypeInv`: one table per behaviour, and the ranges.

`ReadFlows` has the reason why no flow is read twice: one that was read and is still
listed lies before the next page, since flows are pushed behind the others and
removals only move them to the front. `MaskNames` is about `channel_change`: the
highest channel decides how many bytes there are, and each channel's bit is in
one of them. That the loop of `encode_rx_channels` ends with some number of items
(`ChannelPage`) is the existence of a least number at which it may (`LeastNumber`);
what the strings' sizes add up to does not matter, except that no strings take
no bytes (`NoBytes`): an empty page has room for one item, so that a page which says
that more remain brings an item and ends before the last channel (`MoreInv`). Hence
`ScansAdvance`, the safety part of `ScanEnds`: every further question is for a later
item, and channels take no more questions than there are. The initial
table of flows has ids below 0 and the flows that are pushed have theirs from 0 on:
ids of a device whose counter has not wrapped.

`RingProofs` proves, for every latency, length of the ring, width of a position and
environment with `NearTimestamps` (timestamps so near the clock that the sign of a
wrapping difference is the sign of the difference): `TypeCorrect`,
`WritesKeepWhatIsDue` (`DueIsKept`) and `CutOffWithholdsNothing` (`TailIsPlayed`); and,
with `RoomForDelay` (a block fits into the ring, and so do latency, lead, block and
delay together unless threads take the lock at once), `NothingIsPlayedEarly`
(`NeverEarly`) and `ImplementsJitterBuffer` (`IsJitterBuffer`, the refinement). First the
arithmetic of words: `KeepsOnPositions` says which positions the code's test on
words keeps, `SlotOfPosition` and `SameSlot` that positions of one slot are a ring's
length apart. With these each slot gets one frame of a packet at most
(`WriteEffect`). `RingInv`: `ClockInv` (what the threads remember of the clock),
`LaneInv` (a sample lies in the slot of its position, less than a ring's length ahead
of what was due when the writer looked, and no further ahead than a packet reached
at its arrival, which is what the cut-off needs), `FilledInv`, and `TimelyInv` (a
reader that keeps up has passed none of the samples that are left). `DueIsKept` is
about the writer's own look at the clock, hence `LastLook` in `LaneInv`; `NeverEarly`
compares it with the reader's, hence `RoomForDelay`.

`SeqlockProofs` proves, for at most one writer and any number of readers and
publications, `WholeSnapshots` (`SnapshotIsWhole`) and `FreshSnapshots`
(`SnapshotIsFresh`). The invariant: between publications `seq` is even and the
words agree; during one it is odd and the stores happen in order; as long as
`seq` is what a reader loaded first, what it has loaded since is what is there.

`ServoProofs` proves `TypeCorrect` (`TypeOK` of `Servo`) and `LockedClocksAreFine`
(`LockedIsFine`) for all times, thresholds, displacements, drifts and gaps, with both
threads inside `observe`, under `HoldIsShort` (twice `MaxHold` is less than `MinDt`). The
code has no lock there; what saves it is time: `AgeInv` says that while a thread is
behind its `publish`, what was published last is at most `MaxHold` older than the
thread's observation, so that the other thread's next one is too near to it to be
accepted. `FirstInv`: a thread with the first observation is the only one that
stores, or both have a first one. `UnlockInv` and `StreakInv`: a thread that starts the
acquisition anew has just reset `lock_streak`, and the other can have counted to one at
most, so that no lock is reported before the acquisition ends.

`PtpProofs` proves `PairsAreOfOneSync` (`PairsMatch`) and the action property
`SyncsAreObservedInOrder` (`ObservedInOrder`) for any masters, losses, lags and any
width of the sequence id. `SentInv` and `OrderInv`: what is queued on the event socket
is in order and newer than what was taken. `CountInv`: as long as no master has
restarted, two messages of one master with equal ids are of one Sync or a lap of ids
apart. The proof attempt showed that `LapApart` is needed: the code lets a Sync
wait without the limit that `docs/IMPLEMENTATION-PLAN.md:955` has, which a run that
wraps ids within its four Syncs now reaches (see the assumptions above).

`LifecycleProofs` proves `StartReturnsWholeDevices` (`StartedIsWhole`) and
`ShutdownEndsThreads` (`ShutdownLeavesNoThread`) for any number of devices, ports held
by others, and both runtimes. `LifecycleInv` says of each device which threads and
tasks can run at each place of its caller: `QuietInv` (no signal to stop is given while
the caller starts or uses the device), `StartInv` (what has been spawned at each step
of `start_inner`, and that a readiness signal of success means that everything of the
control plane runs), `ControlInv` (a device that is being stopped has had its control
plane up), `JoinedInv` (what shutdown has seen end, join by join).

`StopsNeverWaitInVain` (`NoVainWait`) is the safety part of `StopReturns`: whatever a
join waits for has been told to end, and the control task, which a runtime of a
single thread could not run during a join, is awaited only when no join blocks that
thread. `WaitInv`: the signals come before the waiting (`ToldInv`), and the program is
done with a device before it starts the next (`TurnsInv`), so that no join of another
device is in the way.

Assumptions: the named `ASSUME`s on constants (`ConstantsAssumption`,
`PublishAssumption`, `StreamAssumption`, `PortsAssumption`, `TimeAssumption`,
`ControlAssumption`, `RingAssumption`, `RingLenAssumption`, `ServoAssumption`, `PtpAssumption`,
`LifecycleAssumption`), which the runs of their modules evaluate, and the conditions
`IdsSuffice`, `Polite`, `NearTimestamps`, `RoomForDelay`, `HoldIsShort` and one writer, which are
hypotheses of the theorems. In the code a word has 64 bits and the ring a few
thousand slots, both powers of two (`RingLenAssumption`); settings ask for at least
one channel.

Only model-checked: liveness under fairness, which is out of the prover's reach:
`AttemptsEnd`, `ShutdownQuiesces`, `EstablishingSettles`, `OrphanExpires`, `ScanEnds`,
`ReadsReturn`, `MediaDrives`, `IdleUnlocks`, `PtpLocks`, `StopReturns`,
`StoppedDeviceEnds`, `AbandonedControlEnds`. For four of them the theorems have the safety
part (`EstablishingIsBacked`, `AbandonedIsNotKept`, `ScanAdvances`, `NoVainWait`): that
nothing is in the way, or that a measure falls; that the steps are then taken is
what fairness adds. Every invariant, action property and refinement of the passing
runs is stated by a theorem. The provers cannot use the induction theorems of the
library, which take a predicate; where data are of any length the proofs go by a
least counterexample instead (`LeastNumber`).

## 5. What is not modelled

* `choose_fpp`, a choice of packet size from two numbers that no other step looks
  at.
* The wakeup callback: it only calls the application.
* The frequency estimate of the overlay clock (floating point), but for the drift it
  leaves between two observations; and the loads of `observe` one by one: a thread
  loads what it decides on in one step.
* Announcements of the mDNS announcer that nobody asked for: this code does not
  listen to others', and probes are not evaluated. Their phases are in
  `Lifecycle`.
* CMC, heartbeats of the info task, the ARC opcodes for names, versions and
  latency: answers from constants and settings that change nothing. Their tasks'
  ends are in `Lifecycle`.
* Settings, the byte layouts of the codecs, errors, interface selection: pure
  functions or OS calls, covered by unit tests.

Seen while modelling and stated by no run:

* `bound_ports` keeps ports of closed media sockets (`noted`).
* `read` returns the lanes of unpatched channels, where
  `docs/IMPLEMENTATION-PLAN.md:1051` has "Unpatched channels in that block are 0".
* `read` gives up after a constant of 60 ms, where `docs/IMPLEMENTATION-PLAN.md:1052`
  has "After `rx_latency + 50 ms`".
* A reject does not end the lock and an error from 100 us to 1 ms does not interrupt
  the streak, against `docs/IMPLEMENTATION-PLAN.md:992` ("after **4** consecutive",
  "Any reject or `|error| > 1 ms` → acquiring again"); a pending Sync does not expire,
  against `docs/IMPLEMENTATION-PLAN.md:955` ("Expire unmatched Sync after 2 s."). Both
  are described with the assumptions of `LockedIsFine` and `PairsMatch` above.
* PTP ports in use by another program make `start` fail, while missing permission
  does not. `docs/IMPLEMENTATION-PLAN.md:152` has "bind failure is `PtpBindDenied`; **do
  not abort start**; fall back to media-driven clock" and
  `docs/IMPLEMENTATION-PLAN.md:885` "If DVS holds the ports: `PtpBindDenied`, continue
  with media-driven clock." A start that fails leaves its media, PTP and announcer
  threads running.
* A record of a type that the mDNS decoder does not know makes it drop the message
  (`protocol/mdns.rs:258`), so that a device which adds one is not found;
  `ResolvedIsNamed` shows only that no wrong device is asked instead.
* A second attempt that fails can leave "unresolved" on a channel that receives.
* With the channel's answer lost and the host's received, an attempt asks for
  channel 1 at the default port.
* Keepalives go to the last sender, which on a reused port may be an old one.
* The mask of a flow has 16 bits; a flow of a higher channel is listed without a
  channel.
* A rename that is delivered late or twice undoes a newer one.
* The announcer does not notice that another device carries its name.

## 6. Plan

Done, in this order: Subscribe (the core of the device), Ring, Seqlock, Servo, Ptp,
Lifecycle, the proofs about Subscribe and Seqlock; then Control, Discovery and
Stream with its proof, Session; then the proofs about Lifecycle, Ptp, Servo, Ring and
Control, and the refinements of Session and JitterBuffer; then `resolve_tx` for any
number of records and the safety parts of four liveness properties. Next:

1. Pure functions against reference definitions: `choose_fpp`, `wrapped_diff`,
   conversions between nanoseconds and samples.
