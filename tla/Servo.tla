-------------------------------- MODULE Servo --------------------------------
(***************************************************************************)
(* Who disciplines the overlay clock, and what status it reports           *)
(* (src/clock/overlay.rs): `observe` is called by the media thread for     *)
(* every media packet and by the PTP thread for every Sync, and the media  *)
(* thread calls `mark_unlocked_if_stale` in every turn of its loop. The    *)
(* two threads share atomics without a lock: every store another thread    *)
(* can see alone is a step of its own; the loads of a test are one step.   *)
(*                                                                         *)
(* Times of the master, t1, last_master and the overlay's, are kept as     *)
(* displacements: how far they are from the true time of the master at the *)
(* same moment. Local times are kept as ages, in ticks that are longer     *)
(* than Jump (MinDt of them are 200 ms), up to the largest age the code    *)
(* tells apart. freq_scale is left out but for its effect, an overlay that *)
(* drifts between two observations. (The words of the snapshot are module  *)
(* Seqlock's.)                                                             *)
(***************************************************************************)
EXTENDS Integers

CONSTANTS
    Decimate,   \* MEDIA_DECIMATE_NS
    MinDt,      \* 200 ms: least distance between accepted observations
    MaxDt,      \* 4 s: greatest distance
    Idle,       \* idle_ns of mark_unlocked_if_stale: 1 s
    Jump,       \* 50 ms: greatest change of displacement
    Outlier,    \* OUTLIER_NS
    LockErr,    \* LOCK_ERR_NS
    UnlockErr,  \* UNLOCK_ERR_NS
    Coarse,     \* SLEW_ACQUIRE_NS
    Fine,       \* SLEW_LOCK_NS
    MaxHold,    \* bound: the greatest hold of Kinds
    Kinds       \* environment: kinds of behaviours. sources: which of the two,
                \* media packets and Syncs, occur; noise: displacements of
                \* observations; drifts: how far the overlay drifts between two
                \* accepted ones; gap: the longest time without an observation that
                \* can be accepted, once there was one; hold: the longest time from
                \* the t2 of an observation to the end of observe; ends: whether
                \* sources, and noise and drift, can end

Threads == {"media", "ptp"}

ASSUME ServoAssumption ==
    /\ Decimate \in Nat /\ MinDt \in Nat /\ MaxDt \in Nat /\ Idle \in Nat
    /\ 0 < MinDt /\ MinDt <= MaxDt
    /\ Jump \in Nat /\ Outlier \in Nat /\ LockErr \in Nat /\ UnlockErr \in Nat
    /\ Coarse \in Nat /\ Fine \in Nat
    /\ MaxHold \in Nat
    /\ Kinds \subseteq [sources: SUBSET Threads, noise: SUBSET Int, drifts: SUBSET Int,
                         gap: Nat, hold: 0..MaxHold, ends: BOOLEAN]
    /\ \A k \in Kinds : 0 \in k.noise /\ 0 \in k.drifts

\* lock_streak counts on; the code tells only 0 to 4 apart.
LockAt == 4

VARIABLES
    initialized, lock_streak, acquiring, source,
    syncAge,     \* local time since last_sync
    shift,       \* displacement of the overlay
    masterAge,   \* local time since the t2 that belongs to last_master
    master,      \* displacement of last_master
    mediaAge,    \* local time since last_media_t2
    mediaSeen,   \* last_media_t2 # 0
    pc,          \* where each thread is
    obs,         \* the observation each thread is at
    kind,        \* environment: the kind of this behaviour
    gone,        \* environment: no more packets, no more Syncs
    calm         \* environment: from now on neither noise nor drift

clock == <<syncAge, shift, masterAge, master>>
media == <<mediaAge, mediaSeen>>
state == <<initialized, lock_streak, acquiring, source, clock, media>>
env   == <<kind, gone, calm>>
vars  == <<state, pc, obs, env>>

\* In observe: "check" before the tests; "publish" before the new words are
\* published and "master" before last_master is stored, "first" and "firstMaster"
\* if they are the first, then "mark"; "streak" before lock_streak is stored;
\* "lock" or "unlock" before acquiring is; "source" before source is. In
\* mark_unlocked_if_stale: "none" and "zero" before its two stores.
Pc == {"idle", "check", "first", "firstMaster", "mark", "publish", "master", "streak",
       "lock", "unlock", "source", "none", "zero"}

Errors == {"small", "middle", "large"}

\* An observation: its displacement, the age of its t2, then the size of its
\* error and the overlay's displacement that is to be published.
Nothing == [d |-> 0, age |-> 0, err |-> "none", shift |-> 0]

\* Ages are told apart up to this one.
OldAge == MaxDt + MaxHold + 1

TypeOK ==
    /\ initialized \in BOOLEAN /\ acquiring \in BOOLEAN /\ mediaSeen \in BOOLEAN
    /\ lock_streak \in 0..LockAt
    /\ source \in {"none", "media", "ptp"}
    /\ syncAge \in 0..OldAge /\ masterAge \in 0..OldAge /\ mediaAge \in 0..Idle + 1
    /\ shift \in Int /\ master \in Int
    /\ pc \in [Threads -> Pc]
    /\ obs \in [Threads -> [d: Int, age: 0..MaxHold, err: Errors \cup {"none"}, shift: Int]]
    /\ kind \in Kinds /\ gone \in [Threads -> BOOLEAN] /\ calm \in BOOLEAN

Init ==
    /\ initialized = FALSE /\ lock_streak = 0 /\ acquiring = TRUE /\ source = "none"
    /\ syncAge = 0 /\ shift = 0 /\ masterAge = 0 /\ master = 0
    /\ mediaAge = 0 /\ mediaSeen = FALSE
    /\ pc = [t \in Threads |-> "idle"] /\ obs = [t \in Threads |-> Nothing]
    /\ kind \in Kinds /\ gone = [t \in Threads |-> t \notin kind.sources] /\ calm = FALSE

Least(a, b) == IF a < b THEN a ELSE b
Size(x) == IF x < 0 THEN -x ELSE x

\* status()
Status ==
    IF source = "ptp" /\ lock_streak >= LockAt THEN "PtpLocked"
    ELSE IF source \in {"ptp", "media"} THEN "MediaDriven"
    ELSE "Unlocked"

Idling == \A t \in Threads : pc[t] = "idle"

\* Thread t goes on at p with observation o; out of observe it has none.
Goto(t, p, o) ==
    /\ pc' = [pc EXCEPT ![t] = p]
    /\ obs' = [obs EXCEPT ![t] = IF p = "idle" THEN Nothing ELSE o]

\* An observation of displacement d is near what was last accepted, whatever
\* the overlay has drifted.
Acceptable(d) ==
    Size(d - master) <= Jump /\ \A r \in kind.drifts : Size(d - shift - r) <= Outlier

\* The clock is near enough to the master's time to accept it.
InReach == initialized => Acceptable(0)

------------------------------------------------------------------------------
(* Time and the environment *)

\* Past this age the environment owes an observation that can be accepted, unless
\* one has been accepted just now. (A clock that is locked to PTP takes none from
\* media packets, so nothing is owed to it.)
Due(age) ==
    /\ initialized /\ InReach /\ masterAge = syncAge /\ syncAge \in age..OldAge - 1
    /\ Status # "PtpLocked"
    /\ \E t \in Threads : ~gone[t]
    /\ \A t \in Threads : pc[t] # "publish"

\* A thread is not held longer than hold.
Tick ==
    /\ \A t \in Threads : pc[t] = "idle" \/ obs[t].age < kind.hold
    /\ ~Due(kind.gap)
    /\ syncAge' = Least(syncAge + 1, OldAge) /\ masterAge' = Least(masterAge + 1, OldAge)
    /\ mediaAge' = IF mediaSeen THEN Least(mediaAge + 1, Idle + 1) ELSE 0
    /\ obs' = [t \in Threads |-> IF pc[t] = "idle" THEN obs[t]
                                 ELSE [obs[t] EXCEPT !.age = @ + 1]]
    /\ UNCHANGED <<initialized, lock_streak, acquiring, source, shift, master, mediaSeen, pc, env>>

\* The packets, or the Syncs, end.
Stops(t) ==
    /\ ~gone[t] /\ kind.ends /\ gone' = [gone EXCEPT ![t] = TRUE]
    /\ UNCHANGED <<state, pc, obs, kind, calm>>

\* The network is past its trouble and the frequency has settled.
CalmsDown ==
    /\ ~calm /\ kind.ends /\ calm' = TRUE
    /\ UNCHANGED <<state, pc, obs, kind, gone>>

\* Displacements an observation can have now: when the next media packet that
\* passes the decimation would be too late, one that can be accepted.
Possible(d) ==
    /\ d \in kind.noise /\ (calm => d = 0)
    /\ Due(kind.gap + 1 - Decimate) => Acceptable(d)

------------------------------------------------------------------------------
(* observe *)

Begin(t, d) == Goto(t, "check", [Nothing EXCEPT !.d = d])

\* Media: decimation, then nothing more while PTP-locked.
ObserveMedia(d) ==
    /\ pc["media"] = "idle" /\ ~gone["media"] /\ Possible(d)
    /\ ~mediaSeen \/ mediaAge >= Decimate
    /\ mediaSeen' = TRUE /\ mediaAge' = 0
    /\ IF Status = "PtpLocked" THEN UNCHANGED <<pc, obs>> ELSE Begin("media", d)
    /\ UNCHANGED <<initialized, lock_streak, acquiring, source, clock, env>>

ObservePtp(d) ==
    /\ pc["ptp"] = "idle" /\ ~gone["ptp"] /\ Possible(d)
    /\ Begin("ptp", d)
    /\ UNCHANGED <<state, env>>

\* local_dt is dt; master_dt differs from it by the change of displacement,
\* and by a tick or more if last_master is of another t2 than last_sync.
InRange(dt) == dt > 0 /\ MinDt <= dt /\ dt <= MaxDt
Steady(d) == masterAge = syncAge /\ Size(d - master) <= Jump

ErrorSize(e) ==
    IF Size(e) < LockErr THEN "small" ELSE IF Size(e) > UnlockErr THEN "large" ELSE "middle"

Clamp(e, step) == IF e < -step THEN -step ELSE IF e > step THEN step ELSE e

\* Mutant of Slewed: the step is taken away from the master.
SlewedAway(pred, e) == pred - Clamp(e, IF acquiring THEN Coarse ELSE Fine)

\* The overlay, at pred, makes a step towards the observation.
Slewed(pred, e) == pred + Clamp(e, IF acquiring THEN Coarse ELSE Fine)

\* Mutant of Check: a clock that is initialized accepts nothing more.
CheckOnce(t) ==
    /\ pc[t] = "check"
    /\ IF ~initialized THEN Goto(t, "first", [obs[t] EXCEPT !.shift = obs[t].d])
       ELSE Goto(t, "idle", obs[t])
    /\ UNCHANGED <<state, env>>

\* The first observation is taken as it is, a later one only if it is in
\* range, steady and no outlier. The overlay has drifted by r.
Check(t) ==
    /\ pc[t] = "check"
    /\ \/ /\ ~initialized
          /\ Goto(t, "first", [obs[t] EXCEPT !.shift = obs[t].d])
       \/ /\ initialized
          /\ \E r \in kind.drifts :
                LET o == obs[t]
                    e == o.d - (shift + r)
                IN  /\ calm => r = 0
                    /\ IF InRange(syncAge - o.age) /\ Steady(o.d) /\ Size(e) <= Outlier
                       THEN Goto(t, "publish", [o EXCEPT !.err = ErrorSize(e),
                                                         !.shift = Slewed(shift + r, e)])
                       ELSE Goto(t, "idle", o)
    /\ UNCHANGED <<state, env>>

\* publish: last_sync is the observation's t2.
PublishWords(t, p) ==
    /\ Goto(t, p, [obs[t] EXCEPT !.shift = 0])
    /\ syncAge' = obs[t].age /\ shift' = obs[t].shift
    /\ UNCHANGED <<initialized, lock_streak, acquiring, source, masterAge, master, media, env>>

First(t) == pc[t] = "first" /\ PublishWords(t, "firstMaster")

Publish(t) == pc[t] = "publish" /\ PublishWords(t, "master")

StoreMaster(t) ==
    /\ \/ pc[t] = "firstMaster" /\ Goto(t, "mark", [obs[t] EXCEPT !.d = 0])
       \/ /\ pc[t] = "master"
          /\ Goto(t, IF obs[t].err = "middle" THEN "source" ELSE "streak", [obs[t] EXCEPT !.d = 0])
    /\ masterAge' = obs[t].age /\ master' = obs[t].d
    /\ UNCHANGED <<initialized, lock_streak, acquiring, source, syncAge, shift, media, env>>

Mark(t) ==
    /\ pc[t] = "mark" /\ Goto(t, "source", obs[t])
    /\ initialized' = TRUE /\ acquiring' = TRUE
    /\ UNCHANGED <<lock_streak, source, clock, media, env>>

\* Mutant of Streak: an error over 1 ms leaves the streak alone.
StreakKept(t) ==
    /\ pc[t] = "streak"
    /\ IF obs[t].err = "small"
       THEN /\ lock_streak' = Least(lock_streak + 1, LockAt)
            /\ Goto(t, IF lock_streak' >= LockAt THEN "lock" ELSE "source", obs[t])
       ELSE UNCHANGED lock_streak /\ Goto(t, "unlock", obs[t])
    /\ UNCHANGED <<initialized, acquiring, source, clock, media, env>>

\* An error under 100 us counts, one over 1 ms starts over.
Streak(t) ==
    /\ pc[t] = "streak"
    /\ IF obs[t].err = "small"
       THEN /\ lock_streak' = Least(lock_streak + 1, LockAt)
            /\ Goto(t, IF lock_streak' >= LockAt THEN "lock" ELSE "source", obs[t])
       ELSE lock_streak' = 0 /\ Goto(t, "unlock", obs[t])
    /\ UNCHANGED <<initialized, acquiring, source, clock, media, env>>

Acquiring(t) ==
    /\ pc[t] \in {"lock", "unlock"} /\ Goto(t, "source", obs[t])
    /\ acquiring' = (pc[t] = "unlock")
    /\ UNCHANGED <<initialized, lock_streak, source, clock, media, env>>

SetSource(t) ==
    /\ pc[t] = "source" /\ Goto(t, "idle", obs[t])
    /\ source' = t
    /\ UNCHANGED <<initialized, lock_streak, acquiring, clock, media, env>>

------------------------------------------------------------------------------
(* mark_unlocked_if_stale: a check, then two stores *)

MarkCheck ==
    /\ pc["media"] = "idle"
    /\ Status # "PtpLocked" /\ mediaSeen /\ mediaAge > Idle
    /\ Goto("media", "none", Nothing)
    /\ UNCHANGED <<state, env>>

\* Mutant of MarkNone: the source is left alone.
MarkNoneKeepsSource ==
    /\ pc["media"] = "none" /\ Goto("media", "zero", obs["media"])
    /\ UNCHANGED <<state, env>>

MarkNone ==
    /\ pc["media"] = "none" /\ Goto("media", "zero", obs["media"])
    /\ source' = "none"
    /\ UNCHANGED <<initialized, lock_streak, acquiring, clock, media, env>>

MarkZero ==
    /\ pc["media"] = "zero" /\ Goto("media", "idle", Nothing)
    /\ lock_streak' = 0
    /\ UNCHANGED <<initialized, acquiring, source, clock, media, env>>

------------------------------------------------------------------------------
Observe(t) ==
    \/ Check(t) \/ First(t) \/ Publish(t) \/ StoreMaster(t) \/ Mark(t)
    \/ Streak(t) \/ Acquiring(t) \/ SetSource(t)

MarkUnlocked == MarkCheck \/ MarkNone \/ MarkZero

Next ==
    \/ Tick \/ CalmsDown
    \/ \E t \in Threads : Stops(t) \/ Observe(t)
    \/ \E d \in kind.noise : ObserveMedia(d) \/ ObservePtp(d)
    \/ MarkUnlocked

Spec == Init /\ [][Next]_vars

\* Time passes, also if Syncs come all the time, both threads run, and as long as
\* there are packets, or Syncs, exact ones keep coming, no sooner after the last
\* accepted one than can be accepted.
GoodMedia == ObserveMedia(0) /\ (initialized => syncAge >= MinDt)
GoodPtp == ObservePtp(0) /\ (initialized => syncAge >= MinDt)

AnySync == \E d \in kind.noise : ObservePtp(d)

Fairness ==
    /\ SF_vars(Tick)
    /\ []<><<AnySync>>_vars => []<><<Tick>>_vars \/ []<>(syncAge = OldAge)
    /\ WF_vars(MarkUnlocked) /\ \A t \in Threads : WF_vars(Observe(t))
    /\ SF_vars(GoodMedia) /\ SF_vars(GoodPtp)

FairSpec == Spec /\ Fairness

------------------------------------------------------------------------------
(* Properties *)

\* Whenever both threads have finished what they were at, a PTP-locked clock
\* is past its acquisition, so that it is slewed in the fine steps of a locked
\* clock, whatever the order of the two threads' stores to lock_streak,
\* acquiring and source, as long as no thread is held in observe for half of the
\* 200 ms between accepted observations or more.
\* This is what the code keeps, and less than docs/IMPLEMENTATION-PLAN.md:992 asks
\* for: "Lock: `acquiring = false` after **4** consecutive `|error| < 100 us`. Any
\* reject or `|error| > 1 ms` -> acquiring again." (us and -> for its signs). In
\* the code a reject (overlay.rs:159-178, Check) changes neither acquiring nor the
\* lock, so that a clock which rejects every observation stays PtpLocked, and an
\* error from 100 us to 1 ms does not interrupt the streak (StoreMaster).
LockedIsFine == Idling /\ Status = "PtpLocked" => ~acquiring /\ initialized

\* Media packets that keep coming, with observations often enough, drive the
\* clock, next to Syncs or without them: it does not stay Unlocked, as long as it is
\* in reach of the master's time. ("locked to PTPv1 when possible, else to
\* media-packet timestamps")
MediaDrives ==
    (kind.hold = 0 /\ ~gone["media"] /\ Status = "Unlocked" /\ InReach)
        ~> (gone["media"] \/ Status # "Unlocked" \/ ~InReach)

\* Without PTP, a clock whose last media packet is past is soon Unlocked and
\* stays so.
IdleUnlocks ==
    ("ptp" \notin kind.sources /\ gone["media"] /\ mediaSeen) ~> [](Status = "Unlocked")

\* Without media packets, exact Syncs that keep coming lock the clock to PTP,
\* whatever was observed and however far the clock was slewed before, as long as
\* what was last accepted is in reach. (The first Sync is accepted whatever it
\* says. One that is more than 50 ms off puts the clock out of reach: the Syncs
\* after it are rejected as jumps, and 4 s later as too late, for ever.)
PtpLocks ==
    (kind.hold = 0 /\ kind.sources = {"ptp"} /\ calm /\ Idling /\ InReach /\ ~gone["ptp"])
        ~> (gone["ptp"] \/ Status = "PtpLocked")

=============================================================================
