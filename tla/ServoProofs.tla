----------------------------- MODULE ServoProofs -----------------------------
(***************************************************************************)
(* Whatever the times, thresholds, displacements and sources are, a clock  *)
(* that reports PtpLocked while no thread is in observe is past its        *)
(* acquisition (LockedIsFine), as long as no thread is held in observe for *)
(* half of MinDt or more.                                                  *)
(*                                                                         *)
(* The argument: no observation is accepted until MinDt after the last     *)
(* one, and by then a thread that was past the checks has finished; so two *)
(* threads that are past the checks at once have seen the same last        *)
(* observation. One that is about to say "acquiring" has just reset        *)
(* lock_streak, and the other can then have counted to one at most.        *)
(***************************************************************************)
EXTENDS Servo, TLAPS

HoldIsShort == 2 * MaxHold < MinDt

Storing  == {"publish", "master", "streak", "lock", "unlock"}
Starting == {"first", "firstMaster", "mark"}

\* What was published last is not older than what a thread that is storing holds,
\* but for the time another may have been held. Before the clock is initialized, it
\* is one of the threads' own.
AgeInv ==
    /\ \A t \in Threads : pc[t] \in Storing \ {"publish"} => syncAge <= obs[t].age + MaxHold
    /\ initialized => \A t \in Threads : pc[t] \in Starting => syncAge <= obs[t].age + MaxHold
    /\ ~initialized => \A t \in Threads : pc[t] \in {"firstMaster", "mark"} =>
                          \E u \in Threads : /\ pc[u] \in {"firstMaster", "mark"}
                                             /\ syncAge <= obs[u].age

\* A thread with the first observation is alone: no other is counted.
FirstInv ==
    /\ ~initialized => lock_streak = 0
    /\ \A t \in Threads : pc[t] \in Storing => initialized
    /\ \A t, u \in Threads : pc[t] \in Starting => lock_streak = 0 /\ pc[u] \notin Storing

\* A thread that is about to start the acquisition anew has reset the streak.
UnlockInv ==
    \A t, u \in Threads : pc[t] = "unlock" /\ u # t =>
        /\ lock_streak <= 1
        /\ pc[u] \in {"publish", "master", "streak"} => lock_streak = 0

\* A streak that is long enough ends the acquisition.
StreakInv == lock_streak = LockAt => ~acquiring \/ \E t \in Threads : pc[t] = "lock"

PlacesInv == AgeInv /\ FirstInv /\ UnlockInv /\ StreakInv
ServoInv == TypeOK /\ PlacesInv

------------------------------------------------------------------------------
\* No thread has observed anything yet.
LEMMA InitServoInv == Init => ServoInv
  <1> SUFFICES ASSUME Init PROVE ServoInv
    OBVIOUS
  <1>1. TypeOK
    <2>1. gone \in [Threads -> BOOLEAN] /\ pc \in [Threads -> Pc]
      BY DEF Init, Pc
    <2>2. 0 \in 0..LockAt /\ 0 \in 0..OldAge /\ 0 \in 0..Idle + 1 /\ 0 \in 0..MaxHold
      BY ServoAssumption DEF LockAt, OldAge
    <2>3. Nothing \in [d: Int, age: 0..MaxHold, err: Errors \cup {"none"}, shift: Int]
      BY <2>2 DEF Nothing
    <2>4. obs \in [Threads -> [d: Int, age: 0..MaxHold, err: Errors \cup {"none"}, shift: Int]]
      BY <2>3 DEF Init
    <2> QED BY <2>1, <2>2, <2>4, 0 \in Int, Zenon DEF Init, TypeOK
  <1>2. PlacesInv
    BY DEF Init, PlacesInv, AgeInv, FirstInv, UnlockInv, StreakInv, Starting, Storing, LockAt
  <1> QED BY <1>1, <1>2 DEF ServoInv

Observation == [d: Int, age: 0..MaxHold, err: Errors \cup {"none"}, shift: Int]

\* A thread goes on; the other stays where it is.
LEMMA GotoMoves ==
    ASSUME TypeOK, NEW t \in Threads, NEW p \in Pc, NEW o \in Observation, Goto(t, p, o)
    PROVE  /\ pc' \in [Threads -> Pc] /\ obs' \in [Threads -> Observation]
           /\ pc'[t] = p /\ (p # "idle" => obs'[t] = o)
           /\ \A u \in Threads : u # t => pc'[u] = pc[u] /\ obs'[u] = obs[u]
  <1>1. Nothing \in Observation
    BY ServoAssumption DEF Nothing, Observation
  <1>2. pc \in [Threads -> Pc] /\ obs \in [Threads -> Observation]
    BY DEF TypeOK, Observation
  <1> QED BY <1>1, <1>2 DEF Goto

\* The fields of an observation.
LEMMA ObservationFields ==
    \A o \in Observation : o.d \in Int /\ o.age \in 0..MaxHold /\ o.shift \in Int
  BY DEF Observation

\* The tests of observe: the first observation finds no other thread storing, and
\* a later one that is accepted finds none at work on an earlier one.
LEMMA CheckKeepsInv ==
    ASSUME HoldIsShort, ServoInv, NEW t \in Threads, Check(t)
    PROVE  ServoInv'
  <1>0. /\ TypeOK /\ AgeInv /\ FirstInv /\ UnlockInv /\ StreakInv /\ pc[t] = "check"
        /\ obs \in [Threads -> Observation] /\ obs[t] \in Observation
        /\ UNCHANGED <<initialized, lock_streak, acquiring, source, syncAge, shift, masterAge, master,
                       mediaAge, mediaSeen, kind, gone, calm>>
    BY DEF ServoInv, PlacesInv, Check, state, clock, media, env, TypeOK, Observation
  <1>1. \E p \in {"idle", "first", "publish"} : \E o \in Observation :
           /\ Goto(t, p, o) /\ o.age = obs[t].age
           /\ p = "first" => ~initialized
           /\ p = "publish" => initialized /\ syncAge >= MinDt
    <2>1. CASE ~initialized
      <3>1. /\ [obs[t] EXCEPT !.shift = obs[t].d] \in Observation
            /\ [obs[t] EXCEPT !.shift = obs[t].d].age = obs[t].age
        BY <1>0 DEF Observation
      <3>2. Goto(t, "first", [obs[t] EXCEPT !.shift = obs[t].d])
        BY <2>1 DEF Check
      <3> QED BY <2>1, <3>1, <3>2
    <2>2. CASE initialized
      <3>1. PICK r \in kind.drifts :
               LET o == obs[t]
                   e == o.d - (shift + r)
               IN  IF InRange(syncAge - o.age) /\ Steady(o.d) /\ Size(e) <= Outlier
                   THEN Goto(t, "publish", [o EXCEPT !.err = ErrorSize(e),
                                                     !.shift = Slewed(shift + r, e)])
                   ELSE Goto(t, "idle", o)
        BY <2>2 DEF Check
      <3> DEFINE e == obs[t].d - (shift + r)
                 s == Slewed(shift + r, e)
      <3>2. r \in Int /\ shift \in Int /\ obs[t].d \in Int
        BY <1>0, ServoAssumption, ObservationFields DEF TypeOK
      <3>3. e \in Int /\ ErrorSize(e) \in Errors
        BY <3>2 DEF ErrorSize, Errors
      <3>4. s \in Int
        BY <3>2, <3>3, ServoAssumption DEF Slewed, Clamp
      <3>5. CASE InRange(syncAge - obs[t].age) /\ Goto(t, "publish", [obs[t] EXCEPT !.err = ErrorSize(e), !.shift = s])
        <4>1. syncAge \in Nat /\ obs[t].age \in Nat /\ MinDt <= syncAge - obs[t].age
          BY <1>0, <3>5, ServoAssumption, ObservationFields DEF TypeOK, InRange, OldAge
        <4>2. syncAge >= MinDt
          BY <4>1, ServoAssumption
        <4> DEFINE o == [obs[t] EXCEPT !.err = ErrorSize(e), !.shift = s]
        <4>3. o \in Observation /\ o.age = obs[t].age
          <5> HIDE DEF e, s
          <5> QED BY <1>0, <3>3, <3>4 DEF Observation
        <4>4. Goto(t, "publish", o)
          BY <3>5
        <4> HIDE DEF o
        <4> QED BY <2>2, <4>2, <4>3, <4>4
      <3>6. CASE Goto(t, "idle", obs[t])
        BY <3>6, <1>0
      <3> QED BY <3>1, <3>5, <3>6
    <2> QED BY <2>1, <2>2
  <1>2. PICK p \in {"idle", "first", "publish"}, o \in Observation :
           /\ Goto(t, p, o) /\ o.age = obs[t].age
           /\ p = "first" => ~initialized
           /\ p = "publish" => initialized /\ syncAge >= MinDt
    BY <1>1
  <1>3. /\ pc' \in [Threads -> Pc] /\ obs' \in [Threads -> Observation] /\ pc'[t] = p
        /\ p # "idle" => obs'[t] = o
        /\ \A u \in Threads : u # t => pc'[u] = pc[u] /\ obs'[u] = obs[u]
    BY <1>0, <1>2, GotoMoves DEF Pc
  <1>4. TypeOK'
    BY <1>0, <1>3 DEF TypeOK, Observation
  <1>5. p = "publish" => \A u \in Threads : pc[u] \notin {"unlock"} \cup Starting
    <2> SUFFICES ASSUME p = "publish", NEW u \in Threads, pc[u] \in {"unlock"} \cup Starting PROVE FALSE
      OBVIOUS
    <2>1. syncAge <= obs[u].age + MaxHold
      BY <1>0, <1>2 DEF AgeInv, Storing
    <2>2. obs[u].age \in 0..MaxHold /\ syncAge \in Nat
      BY <1>0, ObservationFields, ServoAssumption DEF TypeOK, OldAge
    <2> QED BY <2>1, <2>2, <1>2, ServoAssumption DEF HoldIsShort
  <1>6. AgeInv'
    <2>1. \A u \in Threads : pc'[u] \in (Storing \ {"publish"}) \cup {"firstMaster", "mark"} =>
             pc[u] = pc'[u] /\ obs'[u] = obs[u]
      BY <1>3 DEF Storing
    <2>2. \A u \in Threads : pc[u] \in {"firstMaster", "mark"} => pc'[u] = pc[u] /\ obs'[u] = obs[u]
      BY <1>0, <1>3
    <2>3. initialized => \A u \in Threads : pc'[u] \in Starting => pc[u] = pc'[u] /\ obs'[u] = obs[u]
      BY <1>2, <1>3 DEF Starting
    <2>4. \A u \in Threads : pc'[u] \in Storing \ {"publish"} => syncAge <= obs'[u].age + MaxHold
      BY <1>0, <2>1 DEF AgeInv
    <2>5. initialized => \A u \in Threads : pc'[u] \in Starting => syncAge <= obs'[u].age + MaxHold
      BY <1>0, <2>3 DEF AgeInv
    <2>6. ASSUME ~initialized, NEW u \in Threads, pc'[u] \in {"firstMaster", "mark"}
          PROVE  \E v \in Threads : pc'[v] \in {"firstMaster", "mark"} /\ syncAge <= obs'[v].age
      <3>1. PICK v \in Threads : pc[v] \in {"firstMaster", "mark"} /\ syncAge <= obs[v].age
        BY <1>0, <2>1, <2>6 DEF AgeInv
      <3> QED BY <3>1, <2>2
    <2> QED BY <1>0, <2>4, <2>5, <2>6 DEF AgeInv
  <1>7. FirstInv'
    BY <1>0, <1>2, <1>3, <1>5 DEF FirstInv, Storing, Starting
  <1>8. UnlockInv' /\ StreakInv'
    BY <1>0, <1>2, <1>3, <1>5 DEF UnlockInv, StreakInv
  <1> QED BY <1>4, <1>6, <1>7, <1>8 DEF ServoInv, PlacesInv

\* The words are published: last_sync is the age of the thread's own t2.
LEMMA PublishKeepsInv ==
    ASSUME ServoInv, NEW t \in Threads, First(t) \/ Publish(t)
    PROVE  ServoInv'
  <1>0. /\ TypeOK /\ AgeInv /\ FirstInv /\ UnlockInv /\ StreakInv
        /\ obs[t] \in Observation /\ obs[t].age \in 0..MaxHold
        /\ UNCHANGED <<initialized, lock_streak, acquiring, source, masterAge, master,
                       mediaAge, mediaSeen, kind, gone, calm>>
        /\ syncAge' = obs[t].age /\ shift' = obs[t].shift /\ shift' \in Int
    BY ObservationFields
       DEF ServoInv, PlacesInv, First, Publish, PublishWords, media, env, TypeOK, Observation
  <1> DEFINE o == [obs[t] EXCEPT !.shift = 0]
  <1>1. o \in Observation /\ o.age = obs[t].age
    BY <1>0 DEF Observation
  <1>2. \E p \in {"firstMaster", "master"} :
           /\ Goto(t, p, o)
           /\ p = "firstMaster" => pc[t] = "first"
           /\ p = "master" => pc[t] = "publish"
    BY DEF First, Publish, PublishWords
  <1> HIDE DEF o
  <1>3. PICK p \in {"firstMaster", "master"} :
           /\ Goto(t, p, o)
           /\ p = "firstMaster" => pc[t] = "first"
           /\ p = "master" => pc[t] = "publish"
    BY <1>2
  <1>4. /\ pc' \in [Threads -> Pc] /\ obs' \in [Threads -> Observation] /\ pc'[t] = p /\ obs'[t] = o
        /\ \A u \in Threads : u # t => pc'[u] = pc[u] /\ obs'[u] = obs[u]
    BY <1>0, <1>1, <1>3, GotoMoves DEF Pc
  <1>5. \A u \in Threads : obs'[u].age \in 0..MaxHold
    BY <1>4, ObservationFields
  <1>6. TypeOK'
    <2>1. syncAge' \in 0..OldAge
      BY <1>0, ServoAssumption DEF OldAge
    <2> QED BY <2>1, <1>0, <1>4 DEF TypeOK, Observation
  <1>7. AgeInv'
    <2>1. \A u \in Threads : syncAge' <= obs'[u].age + MaxHold
      BY <1>0, <1>5, ServoAssumption
    <2>2. syncAge' <= obs'[t].age
      BY <1>0, <1>1, <1>4, ServoAssumption
    <2>3. ~initialized => pc'[t] = "firstMaster"
      BY <1>0, <1>3, <1>4 DEF FirstInv, Storing
    <2> QED BY <1>0, <2>1, <2>2, <2>3 DEF AgeInv
  <1>8. FirstInv'
    BY <1>0, <1>3, <1>4 DEF FirstInv, Storing, Starting
  <1>9. UnlockInv' /\ StreakInv'
    BY <1>0, <1>3, <1>4 DEF UnlockInv, StreakInv
  <1> QED BY <1>6, <1>7, <1>8, <1>9 DEF ServoInv, PlacesInv

\* last_master is stored.
LEMMA MasterKeepsInv ==
    ASSUME ServoInv, NEW t \in Threads, StoreMaster(t)
    PROVE  ServoInv'
  <1>0. /\ TypeOK /\ AgeInv /\ FirstInv /\ UnlockInv /\ StreakInv
        /\ obs[t] \in Observation /\ obs[t].age \in 0..MaxHold
        /\ UNCHANGED <<initialized, lock_streak, acquiring, source, syncAge, shift,
                       mediaAge, mediaSeen, kind, gone, calm>>
        /\ masterAge' = obs[t].age /\ master' = obs[t].d /\ master' \in Int
    BY ObservationFields
       DEF ServoInv, PlacesInv, StoreMaster, media, env, TypeOK, Observation
  <1> DEFINE o == [obs[t] EXCEPT !.d = 0]
  <1>1. o \in Observation /\ o.age = obs[t].age
    BY <1>0 DEF Observation
  <1>2. \E p \in {"mark", "source", "streak"} :
           /\ Goto(t, p, o)
           /\ p = "mark" => pc[t] = "firstMaster"
           /\ p # "mark" => pc[t] = "master"
    BY DEF StoreMaster
  <1> HIDE DEF o
  <1>3. PICK p \in {"mark", "source", "streak"} :
           /\ Goto(t, p, o)
           /\ p = "mark" => pc[t] = "firstMaster"
           /\ p # "mark" => pc[t] = "master"
    BY <1>2
  <1>4. /\ pc' \in [Threads -> Pc] /\ obs' \in [Threads -> Observation] /\ pc'[t] = p /\ obs'[t] = o
        /\ \A u \in Threads : u # t => pc'[u] = pc[u] /\ obs'[u] = obs[u]
    BY <1>0, <1>1, <1>3, GotoMoves DEF Pc
  <1>5. TypeOK'
    <2>1. masterAge' \in 0..OldAge
      BY <1>0, ServoAssumption DEF OldAge
    <2> QED BY <2>1, <1>0, <1>4 DEF TypeOK, Observation
  <1>6. \A u \in Threads : obs'[u].age = obs[u].age
    BY <1>1, <1>4
  <1>7. AgeInv'
    BY <1>0, <1>3, <1>4, <1>6 DEF AgeInv, Storing, Starting
  <1>8. FirstInv'
    BY <1>0, <1>3, <1>4 DEF FirstInv, Storing, Starting
  <1>9. UnlockInv' /\ StreakInv'
    BY <1>0, <1>3, <1>4 DEF UnlockInv, StreakInv
  <1> QED BY <1>5, <1>7, <1>8, <1>9 DEF ServoInv, PlacesInv

\* The first observation starts the acquisition: the clock is initialized when
\* what was published last is one of the threads' own.
LEMMA MarkKeepsInv ==
    ASSUME ServoInv, NEW t \in Threads, Mark(t)
    PROVE  ServoInv'
  <1>0. /\ TypeOK /\ AgeInv /\ FirstInv /\ UnlockInv /\ StreakInv /\ pc[t] = "mark"
        /\ obs \in [Threads -> Observation] /\ obs[t] \in Observation
        /\ Goto(t, "source", obs[t]) /\ initialized' = TRUE /\ acquiring' = TRUE
        /\ UNCHANGED <<lock_streak, source, syncAge, shift, masterAge, master,
                       mediaAge, mediaSeen, kind, gone, calm>>
    BY DEF ServoInv, PlacesInv, Mark, clock, media, env, TypeOK, Observation
  <1>1. /\ pc' \in [Threads -> Pc] /\ obs' \in [Threads -> Observation] /\ pc'[t] = "source"
        /\ obs'[t] = obs[t]
        /\ \A u \in Threads : u # t => pc'[u] = pc[u] /\ obs'[u] = obs[u]
    BY <1>0, GotoMoves DEF Pc
  <1>2. TypeOK'
    BY <1>0, <1>1 DEF TypeOK, Observation
  <1>3. \A u \in Threads : obs[u].age \in 0..MaxHold
    BY <1>0, ObservationFields
  <1>4. \A u \in Threads : pc[u] \in Starting => syncAge <= obs[u].age + MaxHold
    <2>1. CASE initialized
      BY <1>0, <2>1 DEF AgeInv
    <2>2. CASE ~initialized
      <3>1. PICK v \in Threads : syncAge <= obs[v].age
        BY <1>0, <2>2 DEF AgeInv
      <3> QED BY <3>1, <1>0, <1>3, ServoAssumption DEF TypeOK, OldAge
    <2> QED BY <2>1, <2>2
  <1>5. AgeInv'
    BY <1>0, <1>1, <1>4 DEF AgeInv, Storing, Starting
  <1>6. FirstInv'
    BY <1>0, <1>1 DEF FirstInv, Storing, Starting
  <1>7. UnlockInv' /\ StreakInv'
    BY <1>0, <1>1 DEF FirstInv, UnlockInv, StreakInv, Starting, LockAt
  <1> QED BY <1>2, <1>5, <1>6, <1>7 DEF ServoInv, PlacesInv

\* The streak is counted or reset.
LEMMA StreakKeepsInv ==
    ASSUME ServoInv, NEW t \in Threads, Streak(t)
    PROVE  ServoInv'
  <1>0. /\ TypeOK /\ AgeInv /\ FirstInv /\ UnlockInv /\ StreakInv
        /\ pc[t] = "streak" /\ initialized /\ obs[t] \in Observation
        /\ UNCHANGED <<initialized, acquiring, source, syncAge, shift, masterAge, master,
                       mediaAge, mediaSeen, kind, gone, calm>>
    BY DEF ServoInv, PlacesInv, Streak, FirstInv, Storing, clock, media, env, TypeOK, Observation
  <1>1. PICK p \in {"lock", "source", "unlock"} :
           /\ Goto(t, p, obs[t])
           /\ lock_streak' \in 0..LockAt
           /\ p = "lock" => lock_streak' = LockAt /\ lock_streak + 1 >= LockAt
           /\ p = "source" => lock_streak' < LockAt /\ lock_streak' = lock_streak + 1
           /\ p = "unlock" => lock_streak' = 0
    <2>1. CASE obs[t].err = "small"
      BY <1>0, <2>1 DEF Streak, TypeOK, LockAt, Least
    <2>2. CASE obs[t].err # "small"
      BY <1>0, <2>2 DEF Streak, LockAt
    <2> QED BY <2>1, <2>2
  <1>2. /\ pc' \in [Threads -> Pc] /\ obs' \in [Threads -> Observation] /\ pc'[t] = p
        /\ obs'[t] = obs[t]
        /\ \A u \in Threads : u # t => pc'[u] = pc[u] /\ obs'[u] = obs[u]
    BY <1>0, <1>1, GotoMoves DEF Pc
  <1>3. TypeOK'
    BY <1>0, <1>1, <1>2 DEF TypeOK, Observation
  <1>4. AgeInv' /\ FirstInv'
    BY <1>0, <1>1, <1>2 DEF AgeInv, FirstInv, Starting, Storing
  <1>5. UnlockInv'
    <2> SUFFICES ASSUME NEW x \in Threads, NEW u \in Threads, pc'[x] = "unlock", u # x
                 PROVE  /\ lock_streak' <= 1
                        /\ pc'[u] \in {"publish", "master", "streak"} => lock_streak' = 0
      BY DEF UnlockInv
    <2>1. CASE x = t
      BY <1>1, <1>2, <2>1
    <2>2. CASE x # t
      <3>1. pc[x] = "unlock" /\ lock_streak = 0 /\ u = t
        BY <1>0, <1>2, <2>2 DEF UnlockInv, Threads
      <3> QED BY <1>1, <1>2, <3>1 DEF LockAt
    <2> QED BY <2>1, <2>2
  <1>6. StreakInv'
    BY <1>0, <1>1, <1>2 DEF StreakInv, LockAt
  <1> QED BY <1>3, <1>4, <1>5, <1>6 DEF ServoInv, PlacesInv

\* The acquisition ends or starts anew; then the source is stored.
LEMMA AcquiringKeepsInv ==
    ASSUME ServoInv, NEW t \in Threads, Acquiring(t) \/ SetSource(t)
    PROVE  ServoInv'
  <1>0. /\ TypeOK /\ AgeInv /\ FirstInv /\ UnlockInv /\ StreakInv
        /\ pc[t] \in {"lock", "unlock", "source"} /\ obs[t] \in Observation
        /\ UNCHANGED <<initialized, lock_streak, syncAge, shift, masterAge, master,
                       mediaAge, mediaSeen, kind, gone, calm>>
        /\ pc[t] = "source" => UNCHANGED acquiring
        /\ pc[t] # "source" => acquiring' = (pc[t] = "unlock")
        /\ source' \in {"none", "media", "ptp"} /\ acquiring' \in BOOLEAN
    BY DEF ServoInv, PlacesInv, Acquiring, SetSource, clock, media, env, TypeOK, Observation, Threads
  <1>1. PICK p \in {"source", "idle"} : Goto(t, p, obs[t])
    BY DEF Acquiring, SetSource
  <1>2. /\ pc' \in [Threads -> Pc] /\ obs' \in [Threads -> Observation] /\ pc'[t] = p
        /\ \A u \in Threads : u # t => pc'[u] = pc[u] /\ obs'[u] = obs[u]
    BY <1>0, <1>1, GotoMoves DEF Pc
  <1>3. TypeOK'
    BY <1>0, <1>2 DEF TypeOK, Observation
  <1>4. AgeInv' /\ FirstInv' /\ UnlockInv'
    <2>1. AgeInv'
      <3>1. ASSUME NEW v \in Threads, pc[v] \in {"firstMaster", "mark"}
            PROVE  pc'[v] = pc[v] /\ obs'[v] = obs[v]
        BY <1>0, <1>2, <3>1
      <3>2. ASSUME NEW v \in Threads, pc'[v] \notin {"source", "idle"}
            PROVE  pc'[v] = pc[v] /\ obs'[v] = obs[v]
        BY <1>2, <3>2
      <3> QED BY <1>0, <3>1, <3>2 DEF AgeInv, Storing, Starting
    <2>2. FirstInv' /\ UnlockInv'
      BY <1>0, <1>2 DEF FirstInv, UnlockInv, Starting, Storing
    <2> QED BY <2>1, <2>2
  <1>5. StreakInv'
    <2>1. CASE pc[t] = "lock"
      BY <1>0, <2>1 DEF StreakInv
    <2>2. CASE pc[t] = "unlock"
      <3>1. \E u \in Threads : u # t
        BY DEF Threads
      <3>2. lock_streak' # LockAt
        BY <1>0, <2>2, <3>1 DEF UnlockInv, TypeOK, LockAt
      <3> QED BY <3>2 DEF StreakInv
    <2>3. CASE pc[t] = "source"
      BY <1>0, <1>2, <2>3 DEF StreakInv
    <2> QED BY <1>0, <2>1, <2>2, <2>3
  <1> QED BY <1>3, <1>4, <1>5 DEF ServoInv, PlacesInv

\* observe.
LEMMA ObserveKeepsInv ==
    ASSUME HoldIsShort, ServoInv, NEW t \in Threads, Observe(t)
    PROVE  ServoInv'
  BY CheckKeepsInv, PublishKeepsInv, MasterKeepsInv, MarkKeepsInv, StreakKeepsInv,
     AcquiringKeepsInv DEF Observe

\* A thread goes to or leaves a place of which nothing is said.
LEMMA ElsewhereKeepsInv ==
    ASSUME ServoInv, NEW t \in Threads, NEW p \in {"idle", "check", "none", "zero"},
           NEW o \in Observation, Goto(t, p, o), pc[t] \in {"idle", "check", "none", "zero"},
           UNCHANGED <<initialized, acquiring, syncAge>>,
           lock_streak' = lock_streak \/ lock_streak' = 0
    PROVE  PlacesInv' /\ pc' \in [Threads -> Pc] /\ obs' \in [Threads -> Observation]
  <1>0. TypeOK /\ AgeInv /\ FirstInv /\ UnlockInv /\ StreakInv
    BY DEF ServoInv, PlacesInv
  <1>1. /\ pc' \in [Threads -> Pc] /\ obs' \in [Threads -> Observation] /\ pc'[t] = p
        /\ \A u \in Threads : u # t => pc'[u] = pc[u] /\ obs'[u] = obs[u]
    BY <1>0, GotoMoves DEF Pc
  <1>2. \A v \in Threads : pc[v] \notin {"idle", "check", "none", "zero"}
                             \/ pc'[v] \notin {"idle", "check", "none", "zero"}
           => pc'[v] = pc[v] /\ obs'[v] = obs[v]
    BY <1>1
  <1>3. AgeInv'
    BY <1>0, <1>2 DEF AgeInv, Storing, Starting
  <1>4. FirstInv' /\ UnlockInv' /\ StreakInv'
    BY <1>0, <1>2 DEF FirstInv, UnlockInv, StreakInv, Storing, Starting, LockAt, TypeOK
  <1> QED BY <1>1, <1>3, <1>4 DEF PlacesInv

\* A thread goes into observe, or does not.
LEMMA BeginKeepsInv ==
    ASSUME ServoInv, NEW d \in kind.noise, ObserveMedia(d) \/ ObservePtp(d)
    PROVE  ServoInv'
  <1>0. /\ TypeOK /\ PlacesInv
        /\ UNCHANGED <<initialized, lock_streak, acquiring, source, syncAge, shift, masterAge, master,
                       kind, gone, calm>>
    BY DEF ServoInv, ObserveMedia, ObservePtp, state, clock, env
  <1> DEFINE o == [Nothing EXCEPT !.d = d]
  <1>1. o \in Observation
    <2>1. d \in Int /\ 0 \in 0..MaxHold
      BY <1>0, ServoAssumption DEF TypeOK
    <2> QED BY <2>1 DEF Nothing, Observation
  <1>2. \/ UNCHANGED <<pc, obs>>
        \/ \E t \in Threads : pc[t] = "idle" /\ Goto(t, "check", o)
    BY DEF ObserveMedia, ObservePtp, Begin, Threads
  <1> HIDE DEF o
  <1>3. mediaSeen' \in BOOLEAN /\ mediaAge' \in 0..Idle + 1
    <2>1. CASE ObserveMedia(d)
      <3>1. mediaSeen' = TRUE /\ mediaAge' = 0
        BY <2>1 DEF ObserveMedia
      <3> QED BY <3>1, ServoAssumption
    <2>2. CASE ObservePtp(d)
      BY <1>0, <2>2 DEF TypeOK, ObservePtp, state, media
    <2> QED BY <2>1, <2>2
  <1>4. PlacesInv' /\ pc' \in [Threads -> Pc] /\ obs' \in [Threads -> Observation]
    <2>1. CASE UNCHANGED <<pc, obs>>
      <3>1. PlacesInv'
        BY <1>0, <2>1 DEF PlacesInv, AgeInv, FirstInv, UnlockInv, StreakInv
      <3> QED BY <1>0, <2>1, <3>1 DEF TypeOK, Observation
    <2>2. ASSUME NEW t \in Threads, pc[t] = "idle", Goto(t, "check", o)
          PROVE  PlacesInv' /\ pc' \in [Threads -> Pc] /\ obs' \in [Threads -> Observation]
      BY <1>0, <1>1, <2>2, ElsewhereKeepsInv
    <2> QED BY <1>2, <2>1, <2>2
  <1>5. TypeOK'
    BY <1>0, <1>3, <1>4 DEF TypeOK, Observation
  <1> QED BY <1>4, <1>5 DEF ServoInv

\* mark_unlocked_if_stale takes source and streak away.
LEMMA MarkUnlockedKeepsInv ==
    ASSUME ServoInv, MarkUnlocked
    PROVE  ServoInv'
  <1>0. /\ TypeOK /\ "media" \in Threads /\ obs["media"] \in Observation /\ Nothing \in Observation
    BY ServoAssumption DEF ServoInv, Threads, TypeOK, Nothing, Observation
  <1>1. PICK p \in {"none", "zero", "idle"}, o \in Observation :
           Goto("media", p, o) /\ pc["media"] \in {"idle", "none", "zero"}
    BY <1>0 DEF MarkUnlocked, MarkCheck, MarkNone, MarkZero
  <1>2. /\ UNCHANGED <<initialized, acquiring, syncAge, shift, masterAge, master,
                       mediaAge, mediaSeen, kind, gone, calm>>
        /\ lock_streak' = lock_streak \/ lock_streak' = 0
        /\ source' = source \/ source' = "none"
    BY DEF MarkUnlocked, MarkCheck, MarkNone, MarkZero, state, clock, media, env
  <1>3. PlacesInv' /\ pc' \in [Threads -> Pc] /\ obs' \in [Threads -> Observation]
    BY <1>0, <1>1, <1>2, ElsewhereKeepsInv
  <1>4. TypeOK'
    BY <1>0, <1>2, <1>3 DEF TypeOK, LockAt, Observation
  <1> QED BY <1>3, <1>4 DEF ServoInv

\* Time passes for what was published and for the threads alike.
LEMMA TickKeepsInv ==
    ASSUME ServoInv, Tick
    PROVE  ServoInv'
  <1>0. /\ TypeOK /\ AgeInv /\ FirstInv /\ UnlockInv /\ StreakInv
        /\ obs \in [Threads -> Observation]
        /\ UNCHANGED <<initialized, lock_streak, acquiring, source, shift, master, mediaSeen, pc,
                       kind, gone, calm>>
    BY DEF ServoInv, PlacesInv, Tick, env, TypeOK, Observation
  <1>1. /\ syncAge' \in 0..OldAge /\ masterAge' \in 0..OldAge /\ mediaAge' \in 0..Idle + 1
        /\ syncAge' <= syncAge + 1
    BY <1>0, ServoAssumption DEF Tick, TypeOK, Least, OldAge
  <1>2. kind.hold \in 0..MaxHold
    BY <1>0, ServoAssumption DEF TypeOK
  <1>3. ASSUME NEW t \in Threads
        PROVE  /\ obs'[t] \in Observation /\ obs[t].age \in 0..MaxHold
               /\ pc[t] # "idle" => obs'[t].age = obs[t].age + 1
    <2>1. obs[t] \in Observation /\ obs[t].age \in 0..MaxHold
      BY <1>0, ObservationFields
    <2>2. CASE pc[t] = "idle"
      BY <2>1, <2>2 DEF Tick
    <2>3. CASE pc[t] # "idle"
      <3> DEFINE o == [obs[t] EXCEPT !.age = @ + 1]
      <3>1. obs[t].age + 1 \in 0..MaxHold
        BY <2>1, <2>3, <1>2, ServoAssumption DEF Tick
      <3>2. o \in Observation /\ o.age = obs[t].age + 1
        BY <2>1, <3>1 DEF Observation
      <3>3. obs'[t] = o
        BY <2>3 DEF Tick
      <3> HIDE DEF o
      <3> QED BY <2>1, <3>2, <3>3
    <2> QED BY <2>2, <2>3
  <1>4. TypeOK'
    <2>1. obs' \in [Threads -> Observation]
      BY <1>3 DEF Tick
    <2> QED BY <1>0, <1>1, <2>1 DEF TypeOK, Observation
  <1>5. AgeInv'
    <2>0. syncAge \in Nat /\ syncAge' \in Nat /\ MaxHold \in Nat
      BY <1>0, <1>1, ServoAssumption DEF TypeOK, OldAge
    <2>1. \A t \in Threads : pc[t] # "idle" /\ syncAge <= obs[t].age + MaxHold
                              => syncAge' <= obs'[t].age + MaxHold
      BY <1>1, <1>3, <2>0
    <2>2. \A t \in Threads : pc[t] # "idle" /\ syncAge <= obs[t].age => syncAge' <= obs'[t].age
      BY <1>1, <1>3, <2>0
    <2>3. \A t \in Threads : pc[t] \in Storing \cup Starting \cup {"firstMaster", "mark"} => pc[t] # "idle"
      BY DEF Storing, Starting
    <2> QED BY <1>0, <2>1, <2>2, <2>3 DEF AgeInv
  <1>6. FirstInv' /\ UnlockInv' /\ StreakInv'
    BY <1>0 DEF FirstInv, UnlockInv, StreakInv
  <1> QED BY <1>4, <1>5, <1>6 DEF ServoInv, PlacesInv

------------------------------------------------------------------------------
\* The inductive invariant.
THEOREM ServoInvariant == HoldIsShort => (Spec => []ServoInv)
  <1> SUFFICES ASSUME HoldIsShort PROVE Spec => []ServoInv
    OBVIOUS
  <1>1. ServoInv /\ [Next]_vars => ServoInv'
    <2> SUFFICES ASSUME ServoInv, [Next]_vars PROVE ServoInv'
      OBVIOUS
    <2>1. CASE CalmsDown \/ (\E t \in Threads : Stops(t)) \/ UNCHANGED vars
      <3>1. UNCHANGED <<state, pc, obs, kind>>
        BY <2>1 DEF CalmsDown, Stops, vars, env
      <3>2. gone' \in [Threads -> BOOLEAN] /\ calm' \in BOOLEAN
        BY <2>1 DEF CalmsDown, Stops, vars, env, ServoInv, TypeOK
      <3> QED BY <3>1, <3>2
              DEF state, clock, media, ServoInv, PlacesInv, TypeOK, AgeInv, FirstInv, UnlockInv, StreakInv
    <2> QED BY <2>1, TickKeepsInv, ObserveKeepsInv, BeginKeepsInv, MarkUnlockedKeepsInv DEF Next
  <1> QED BY InitServoInv, <1>1, PTL DEF Spec

\* The type invariant, for all times, thresholds and sources.
THEOREM TypeCorrect == HoldIsShort => (Spec => []TypeOK)
  <1>1. ServoInv => TypeOK
    BY DEF ServoInv
  <1> QED BY ServoInvariant, <1>1, PTL

\* A clock that is locked to PTP is past its acquisition once both threads are
\* out of observe, for all times, thresholds, sources and observations, as long as
\* no thread is held in observe for half of MinDt.
THEOREM LockedClocksAreFine == HoldIsShort => (Spec => []LockedIsFine)
  <1> SUFFICES ASSUME HoldIsShort PROVE Spec => []LockedIsFine
    OBVIOUS
  <1>1. ServoInv => LockedIsFine
    <2> SUFFICES ASSUME ServoInv, Idling, Status = "PtpLocked" PROVE ~acquiring /\ initialized
      BY DEF LockedIsFine
    <2>1. lock_streak = LockAt
      BY DEF Status, ServoInv, TypeOK, LockAt
    <2> QED BY <2>1 DEF Idling, ServoInv, PlacesInv, FirstInv, StreakInv, LockAt
  <1> QED BY ServoInvariant, <1>1, PTL

=============================================================================
