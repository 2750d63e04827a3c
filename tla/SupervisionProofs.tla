-------------------------- MODULE SupervisionProofs --------------------------
(***************************************************************************)
(* Proofs of what a session promises about its supervision: an active      *)
(* AutoDrive and a granted TIM authority are covered by someone who was    *)
(* heard from lately (SteeringIsSupervised, GrantIsCovered), and a         *)
(* heartbeat peer that behaves is trusted (CleanPeerIsTrusted).            *)
(*                                                                         *)
(* The first two are about clocks.  The plugin measures a silence with the *)
(* host's clock and looks only when it is ticked, the property measures it *)
(* in real time; the invariants say how far the two can be apart.          *)
(***************************************************************************)
EXTENDS SessionShapes, TLAPS

\* Most leaves are first-order; those with arithmetic or sequences cite SMT.
USE Zenon

-----------------------------------------------------------------------------
(* The clock.                                                              *)

\* How far the clock has been set back so far, and how far it still may be.
Slip == MaxBack * used["jumps"]
Back == MaxBack * (persona.limit["jumps"] - used["jumps"])

Budget ==
  /\ persona \in Personas /\ used \in [Bounded -> Nat]
  /\ used["jumps"] <= persona.limit["jumps"]

\* What was and what may yet be set back is within the bound of the session.
LEMMA SlipsAreBounded ==
  ASSUME Budget
  PROVE  /\ Slip \in Nat /\ Back \in Nat /\ Slip < -Never
         /\ Slip + Back = MaxBack * persona.limit["jumps"]
<1>1. /\ used["jumps"] \in Nat /\ persona.limit["jumps"] \in Nat
      /\ used["jumps"] <= persona.limit["jumps"]
      /\ MaxBack * persona.limit["jumps"] < -Never
  BY SessionAssumption DEF Budget, Bounded
<1>2. \A b, l, u \in Nat : u <= l => /\ b * u \in Nat /\ b * (l - u) \in Nat
                                     /\ b * u + b * (l - u) = b * l
  BY SMT
<1>3. MaxBack \in Nat
  BY SMT, ClockAssumption
<1>4. /\ MaxBack * used["jumps"] \in Nat
      /\ MaxBack * (persona.limit["jumps"] - used["jumps"]) \in Nat
      /\ MaxBack * used["jumps"]
           + MaxBack * (persona.limit["jumps"] - used["jumps"])
           = MaxBack * persona.limit["jumps"]
  BY <1>1, <1>2, <1>3
<1>5. \A x, y, z \in Int : x \in Nat /\ y \in Nat /\ x + y = z /\ z < 1000 => x < 1000
  BY SMT
<1> QED  BY SMT, <1>1, <1>4 DEF Slip, Back, Never

\* A step that spends from the bounds; only a jump of the clock spends jumps.
LEMMA SpendingSlips ==
  ASSUME Budget, persona' = persona, NEW S \in SUBSET Bounded, Spend(S)
  PROVE  /\ Budget'
         /\ "jumps" \notin S => Slip' = Slip /\ Back' = Back
         /\ "jumps" \in S => Slip' = Slip + MaxBack /\ Back' = Back - MaxBack
<1>1. "jumps" \in Bounded
  BY DEF Bounded
<1>2. used' \in [Bounded -> Nat]
  BY SMT DEF Budget, Spend
<1>3. used'["jumps"] = IF "jumps" \in S THEN used["jumps"] + 1 ELSE used["jumps"]
  BY <1>1 DEF Spend
<1>4. used["jumps"] \in Nat /\ persona.limit["jumps"] \in Nat /\ MaxBack \in Nat
  BY SMT, <1>1, SessionAssumption, ClockAssumption DEF Budget
<1>5. Budget'
  BY SMT, <1>1, <1>2, <1>3, <1>4 DEF Budget, Spend
<1>6. \A b, l, u \in Nat : b * (u + 1) = b * u + b /\ b * (l - (u + 1)) = b * (l - u) - b
  BY SMT
<1> QED  BY SMT, <1>3, <1>4, <1>5, <1>6 DEF Slip, Back

\* A step that spends nothing.
LEMMA NothingSpent ==
  ASSUME Budget, persona' = persona, used' = used
  PROVE  Budget' /\ Slip' = Slip /\ Back' = Back
BY DEF Budget, Slip, Back

\* An age that has not been mistaken for Never.
Age(age, slip) == age \in Int /\ (age = Never \/ age >= -slip)

\* An age grows with real time, up to where it stops mattering.
LEMMA AgesGrow ==
  ASSUME NEW age, NEW slip \in Nat, slip < -Never, Age(age, slip), NEW limit \in Int
  PROVE  /\ Age(Older(age, limit), slip)
         /\ Older(age, limit) = Never <=> age = Never
         /\ age # Never =>
              Older(age, limit) = IF age >= limit THEN age ELSE age + 1
BY SMT DEF Age, Older, Never

\* An age shrinks when the clock is set back, and never looks unset.
LEMMA AgesSlip ==
  ASSUME NEW age, NEW slip \in Nat, NEW d \in 1 .. MaxBack,
         slip + MaxBack < -Never, Age(age, slip)
  PROVE  /\ Age(Rewound(age, d), slip + MaxBack)
         /\ Rewound(age, d) = Never <=> age = Never
         /\ age # Never => Rewound(age, d) = age - d
BY SMT, ClockAssumption DEF Age, Rewound, Never

-----------------------------------------------------------------------------
(* AutoDrive under supervision.                                            *)

Shaped(a) ==
  /\ AdFields \subseteq DOMAIN a
  /\ a.stop \in BOOLEAN /\ a.dirty \in BOOLEAN
  /\ a.linkAlive \in BOOLEAN /\ a.commanded \in BOOLEAN

\* `info` and `cmd` are the real times since the last machine info and the
\* last command or engage, l the time since the last tick.  While an age can
\* still count (it is below the timeout, or a jump may put it back there),
\* it is at most a slip behind the real time.  The application's commands
\* are noticed only by a tick, an interval late.
Supervised(a, info, cmd, l, slip, back) ==
  /\ Shaped(a)
  /\ Age(a.lastInfo, slip) /\ Age(a.seqChanged, slip)
  /\ IsActive(a) => a.linkAlive /\ ~a.stop
  /\ a.lastInfo # Never /\ a.lastInfo < LinkTimeout + back =>
       info <= a.lastInfo + slip
  /\ a.linkAlive => info < LinkTimeout + l + slip
  /\ a.commanded => cmd <= l
  /\ a.seqChanged # Never /\ a.seqChanged < CommandStale + back =>
       cmd <= a.seqChanged + TickGap + slip
  /\ IsActive(a) /\ ~a.commanded =>
       a.seqChanged # Never /\ cmd < CommandStale + TickGap + l + slip

\* b is supervised no less than a and is active only if a is.
Quieter(a, b) ==
  /\ Shaped(b)
  /\ b.lastInfo = a.lastInfo /\ b.linkAlive = a.linkAlive
  /\ b.commanded = a.commanded /\ b.seqChanged = a.seqChanged
  /\ IsActive(b) => IsActive(a) /\ (b.stop => a.stop)

\* A quieter AutoDrive is as well supervised.
LEMMA QuieterIsSupervised ==
  ASSUME NEW a, NEW b, Quieter(a, b),
         NEW info, NEW cmd, NEW l, NEW slip, NEW back,
         Supervised(a, info, cmd, l, slip, back)
  PROVE  Supervised(b, info, cmd, l, slip, back)
BY DEF Quieter, Supervised

\* Stopping makes AutoDrive quieter.
LEMMA StopIsQuieter ==
  ASSUME NEW a, Shaped(a)
  PROVE  Quieter(a, Stop(a)) /\ Quieter(a, TripAndStop(a))
BY DEF Shaped, Quieter, Stop, TripAndStop, enter_safe_state, IsActive, Active, AdFields

\* Neither a frame other than machine info nor an event revives AutoDrive.
LEMMA CallsAreQuieter ==
  ASSUME NEW a, Shaped(a)
  PROVE  /\ \A permit : Quieter(a, OnShortcutButton(a, permit))
         /\ \A f : Quieter(a, OnFacilities(a, f))
         /\ \A events : Quieter(a, AutoDriveOnEvents(a, events))
         /\ Quieter(a, clear_stop(a)) /\ Quieter(a, arm(a))
<1>1. ASSUME NEW permit PROVE Quieter(a, OnShortcutButton(a, permit))
  <2> DEFINE b == [a EXCEPT !.isbSeen = 0, !.isbAsserted = ~permit]
  <2>1. Quieter(a, b)
    BY DEF Shaped, Quieter, AdFields, IsActive
  <2>2. Quieter(b, TripAndStop(b))
    BY <2>1, StopIsQuieter DEF Quieter
  <2>3. OnShortcutButton(a, permit) = IF permit THEN b ELSE TripAndStop(b)
    BY DEF OnShortcutButton
  <2> HIDE DEF b
  <2> QED  BY <2>1, <2>2, <2>3 DEF Quieter
<1>2. ASSUME NEW f PROVE Quieter(a, OnFacilities(a, f))
  <2> DEFINE b == [a EXCEPT !.facilities = f]
  <2>1. Quieter(a, b)
    BY DEF Shaped, Quieter, AdFields, IsActive
  <2>2. Quieter(b, TripAndStop(b))
    BY <2>1, StopIsQuieter DEF Quieter
  <2>3. OnFacilities(a, f) \in {b, TripAndStop(b)}
    BY DEF OnFacilities
  <2> HIDE DEF b
  <2> QED  BY <2>1, <2>2, <2>3 DEF Quieter
<1>3. ASSUME NEW events PROVE Quieter(a, AutoDriveOnEvents(a, events))
  <2> DEFINE b == Observe(a, events)
  <2>1. Quieter(a, b)
    BY DEF Shaped, Observe, Quieter, AdFields, IsActive
  <2>2. Quieter(b, TripAndStop(b))
    BY <2>1, StopIsQuieter DEF Quieter
  <2>3. AutoDriveOnEvents(a, events) \in {b, TripAndStop(b)}
    BY DEF AutoDriveOnEvents
  <2> HIDE DEF b
  <2> QED  BY <2>1, <2>2, <2>3 DEF Quieter
<1>4. Quieter(a, clear_stop(a)) /\ Quieter(a, arm(a))
  BY DEF Shaped, Quieter, clear_stop, arm, set_status, IsActive, Active, AdFields
<1> QED  BY <1>1, <1>2, <1>3, <1>4

\* Machine info is heard now.
LEMMA InfoIsHeard ==
  ASSUME NEW a, NEW report,
         NEW info \in Int, NEW cmd \in Int, NEW l \in Nat,
         NEW slip \in Nat, NEW back \in Nat,
         Supervised(a, info, cmd, l, slip, back)
  PROVE  Supervised(OnMachineInfo(a, report), 0, cmd, l, slip, back)
<1> DEFINE b == [a EXCEPT !.fit = report \notin Violation, !.lastInfo = 0,
                          !.linkAlive = TRUE]
           c == [b EXCEPT !.status = StatusOfLimit[report]]
<1>1. /\ Shaped(b) /\ (b.stop <=> a.stop)
      /\ b.lastInfo = 0 /\ b.linkAlive = TRUE /\ b.commanded = a.commanded
      /\ b.seqChanged = a.seqChanged /\ (IsActive(b) <=> IsActive(a))
  BY DEF Shaped, Supervised, AdFields, IsActive
<1>2. Supervised(b, 0, cmd, l, slip, back)
  <2> HIDE DEF b
  <2> QED  BY SMT, <1>1, AutoDriveAssumption DEF Supervised, Age, Never
<1>3. IsActive(a) => Quieter(b, c)
  <2>1. c.lastInfo = b.lastInfo /\ c.linkAlive = b.linkAlive
        /\ c.commanded = b.commanded /\ c.seqChanged = b.seqChanged
        /\ Shaped(c) /\ (c.stop <=> b.stop)
    BY <1>1 DEF Shaped, AdFields
  <2> HIDE DEF b, c
  <2> QED  BY <1>1, <2>1 DEF Quieter
<1>4. Quieter(b, b) /\ Quieter(b, TripAndStop(b))
  <2> HIDE DEF b
  <2> QED  BY <1>1, StopIsQuieter DEF Quieter
<1>5. \/ OnMachineInfo(a, report) \in {b, TripAndStop(b)}
      \/ IsActive(a) /\ OnMachineInfo(a, report) = c
  BY DEF OnMachineInfo
<1> HIDE DEF b, c
<1> QED  BY <1>2, <1>3, <1>4, <1>5, QuieterIsSupervised

\* A tick: what the watchdogs leave active has been heard from.
LEMMA TickSupervises ==
  ASSUME NEW a, NEW claimed,
         NEW info \in Int, NEW cmd \in Int, NEW l \in 0 .. TickGap,
         NEW slip \in Nat, NEW back \in Nat,
         Supervised(a, info, cmd, l, slip, back)
  PROVE  Supervised(AutoDriveOnTick(a, claimed).ad, info, cmd, 0, slip, back)
<1> DEFINE alive == a.lastInfo # Never /\ millis_since(a.lastInfo) < LinkTimeout
           k == [a EXCEPT !.linkAlive = alive]
           u == WatchLink(a)
           v == WatchButton(u)
           n == [v EXCEPT !.commanded = FALSE,
                          !.seqChanged = IF v.commanded THEN 0 ELSE @]
           w == WatchCommands(v)
<1>0. TickGap \in Nat /\ l \in Nat /\ l <= TickGap
  BY SMT, SessionAssumption
<1>1. /\ Shaped(u)
      /\ u.linkAlive = alive /\ u.lastInfo = a.lastInfo
      /\ u.commanded = a.commanded /\ u.seqChanged = a.seqChanged
      /\ IsActive(u) => IsActive(a) /\ u.linkAlive /\ ~u.stop
  <2>1. /\ Shaped(k)
        /\ k.linkAlive = alive /\ k.lastInfo = a.lastInfo
        /\ k.commanded = a.commanded /\ k.seqChanged = a.seqChanged
        /\ IsActive(k) <=> IsActive(a)
        /\ k.stop = a.stop
    BY DEF Shaped, Supervised, AdFields, IsActive
  <2>2. Quieter(k, Stop(k)) /\ ~IsActive(Stop(k))
    <3>1. ~IsActive(Stop(k))
      BY <2>1 DEF Shaped, Stop, enter_safe_state, IsActive, Active, AdFields
    <3> HIDE DEF k
    <3> QED  BY <2>1, <3>1, StopIsQuieter
  <2>3. u = IF a.linkAlive /\ ~alive THEN Stop(k) ELSE k
    BY DEF WatchLink
  <2> HIDE DEF k, u, alive
  <2> QED  BY <2>1, <2>2, <2>3 DEF Supervised, Quieter
<1>2. alive => info < LinkTimeout + slip
  <2>1. alive => a.lastInfo \in Int /\ a.lastInfo < LinkTimeout
    BY SMT, AutoDriveAssumption DEF Supervised, Age, millis_since
  <2>2. alive => info <= a.lastInfo + slip
    BY SMT, <2>1, AutoDriveAssumption DEF Supervised
  <2> QED  BY SMT, <2>1, <2>2, AutoDriveAssumption
<1>3. Quieter(u, v)
  <2> DEFINE asserted == u.isbAsserted \/ Elapsed(u.isbSeen, IsbTimeout)
             b == [u EXCEPT !.isbAsserted = asserted]
  <2>1. Quieter(u, b)
    <3> HIDE DEF u, asserted
    <3> QED  BY <1>1 DEF Shaped, Quieter, AdFields, IsActive
  <2>2. Quieter(b, TripAndStop(b))
    <3> HIDE DEF b
    <3> QED  BY <2>1, StopIsQuieter DEF Quieter
  <2>3. v \in {b, TripAndStop(b)}
    BY DEF WatchButton
  <2> HIDE DEF u, b, v
  <2> QED  BY <2>1, <2>2, <2>3 DEF Quieter
<1>4. /\ Shaped(v)
      /\ v.linkAlive = alive /\ v.lastInfo = a.lastInfo
      /\ v.commanded = a.commanded /\ v.seqChanged = a.seqChanged
      /\ IsActive(v) => IsActive(a) /\ v.linkAlive /\ ~v.stop
  <2> HIDE DEF u, v, alive
  <2> QED  BY <1>1, <1>3 DEF Quieter
<1> HIDE DEF u, v
<1>5. /\ Shaped(n)
      /\ n.linkAlive = alive /\ n.lastInfo = a.lastInfo
      /\ n.commanded = FALSE
      /\ n.seqChanged = IF a.commanded THEN 0 ELSE a.seqChanged
      /\ IsActive(n) => IsActive(a) /\ n.linkAlive /\ ~n.stop
      /\ IsActive(n) <=> IsActive(v)
  <2> HIDE DEF alive
  <2> QED  BY <1>4 DEF Shaped, AdFields, IsActive
<1>6. w = IF IsActive(v) /\ Elapsed(n.seqChanged, CommandStale)
            THEN TripAndStop(n) ELSE n
  BY DEF WatchCommands
<1>7. Quieter(n, w) /\ (IsActive(w) => ~Elapsed(n.seqChanged, CommandStale))
  <2>1. IsActive(n) => ~IsActive(TripAndStop(n))
    <3> HIDE DEF n
    <3> QED  BY <1>5 DEF TripAndStop, Stop, enter_safe_state, IsActive, Active,
                         Shaped, AdFields
  <2> HIDE DEF n, w, alive
  <2> QED  BY <1>5, <1>6, <2>1, StopIsQuieter DEF Quieter
<1>8. /\ Age(a.lastInfo, slip) /\ Age(n.seqChanged, slip)
      /\ n.seqChanged # Never /\ n.seqChanged < CommandStale + back =>
           cmd <= n.seqChanged + TickGap + slip
      /\ IsActive(n) => n.seqChanged # Never
  <2> HIDE DEF n, alive
  <2> QED  BY SMT, <1>0, <1>5, AutoDriveAssumption DEF Supervised, Age, Never, Shaped
<1>9. n.seqChanged # Never /\ ~Elapsed(n.seqChanged, CommandStale) =>
        n.seqChanged < CommandStale
  BY SMT, <1>8, AutoDriveAssumption DEF Elapsed, millis_since, Age
<1>10. Supervised(w, info, cmd, 0, slip, back)
  <2>1. IsActive(w) => n.seqChanged # Never /\ n.seqChanged < CommandStale
    BY <1>7, <1>8, <1>9 DEF Quieter
  <2>2. IsActive(w) => cmd < CommandStale + TickGap + 0 + slip
    <3> HIDE DEF n, w
    <3> QED  BY SMT, <1>0, <1>8, <2>1, AutoDriveAssumption DEF Age
  <2>3. /\ Shaped(w) /\ w.linkAlive = alive /\ w.lastInfo = a.lastInfo
        /\ w.commanded = FALSE /\ w.seqChanged = n.seqChanged
        /\ IsActive(w) => w.linkAlive /\ ~w.stop
    <3> HIDE DEF n, w, alive
    <3> QED  BY <1>5, <1>7 DEF Quieter, Shaped
  <2>4. a.lastInfo # Never /\ a.lastInfo < LinkTimeout + back =>
          info <= a.lastInfo + slip
    BY DEF Supervised
  <2>5. alive => info < LinkTimeout + 0 + slip
    BY SMT, <1>2, AutoDriveAssumption
  <2> HIDE DEF n, w, alive
  <2> QED  BY <1>8, <2>1, <2>2, <2>3, <2>4, <2>5 DEF Supervised
<1>11. \/ AutoDriveOnTick(a, claimed).ad = w
       \/ AutoDriveOnTick(a, claimed).ad = [w EXCEPT !.lastTx = 0, !.dirty = FALSE]
  BY DEF AutoDriveOnTick, Watched, u, v
<1>12. Quieter(w, [w EXCEPT !.lastTx = 0, !.dirty = FALSE])
  <2> HIDE DEF w
  <2> QED  BY <1>10 DEF Supervised, Quieter, Shaped, AdFields, IsActive
<1> HIDE DEF w
<1> QED  BY <1>10, <1>11, <1>12, QuieterIsSupervised

\* Time passes: both ages grow, if they still can be told apart.
LEMMA SupervisionAges ==
  ASSUME NEW a, NEW info \in Int, NEW cmd \in Int, NEW l \in Nat,
         NEW slip \in Nat, NEW back \in Nat, slip < -Never,
         Supervised(a, info, cmd, l, slip, back), NEW x \in Int, NEW y \in Int
  PROVE  Supervised(AutoDriveOlder(a, back), Older(info, x), Older(cmd, y),
                    l + 1, slip, back)
<1> DEFINE b == AutoDriveOlder(a, back)
           i == Older(info, x)
           c == Older(cmd, y)
<1>1. i \in Int /\ i <= info + 1 /\ c \in Int /\ c <= cmd + 1
  BY SMT DEF Older
<1>2. /\ Shaped(b) /\ b.linkAlive = a.linkAlive /\ b.commanded = a.commanded
      /\ b.stop = a.stop /\ (IsActive(b) <=> IsActive(a))
      /\ b.lastInfo = Older(a.lastInfo, LinkTimeout + back)
      /\ b.seqChanged = Older(a.seqChanged, CommandStale + back)
  BY DEF Supervised, Shaped, AdFields, AutoDriveOlder, IsActive
<1> HIDE DEF b, i, c
<1>3. Age(a.lastInfo, slip) /\ Age(a.seqChanged, slip)
  BY DEF Supervised
<1>4. /\ LinkTimeout \in Nat /\ CommandStale \in Nat /\ TickGap \in Nat
      /\ LinkTimeout + back \in Int /\ CommandStale + back \in Int
  BY SMT, AutoDriveAssumption, SessionAssumption
<1>5. /\ Age(b.lastInfo, slip)
      /\ b.lastInfo # Never /\ b.lastInfo < LinkTimeout + back =>
           i <= b.lastInfo + slip
  <2>1. /\ Age(b.lastInfo, slip)
        /\ b.lastInfo = Never <=> a.lastInfo = Never
        /\ a.lastInfo # Never =>
             b.lastInfo = IF a.lastInfo >= LinkTimeout + back THEN a.lastInfo
                          ELSE a.lastInfo + 1
    <3> DEFINE limit == LinkTimeout + back
    <3>1. limit \in Int
      BY <1>4
    <3> HIDE DEF limit
    <3>2. /\ Age(Older(a.lastInfo, limit), slip)
          /\ Older(a.lastInfo, limit) = Never <=> a.lastInfo = Never
          /\ a.lastInfo # Never =>
               Older(a.lastInfo, limit) = IF a.lastInfo >= limit THEN a.lastInfo
                                      ELSE a.lastInfo + 1
      BY <1>3, <3>1, AgesGrow
    <3> QED  BY <1>2, <3>2 DEF limit
  <2> QED  BY SMT, <1>1, <1>3, <1>4, <2>1 DEF Supervised, Age
<1>6. /\ Age(b.seqChanged, slip)
      /\ b.seqChanged = Never <=> a.seqChanged = Never
      /\ b.seqChanged # Never /\ b.seqChanged < CommandStale + back =>
           c <= b.seqChanged + TickGap + slip
  <2>1. /\ Age(b.seqChanged, slip)
        /\ b.seqChanged = Never <=> a.seqChanged = Never
        /\ a.seqChanged # Never =>
             b.seqChanged = IF a.seqChanged >= CommandStale + back THEN a.seqChanged
                            ELSE a.seqChanged + 1
    <3> DEFINE limit == CommandStale + back
    <3>1. limit \in Int
      BY <1>4
    <3> HIDE DEF limit
    <3>2. /\ Age(Older(a.seqChanged, limit), slip)
          /\ Older(a.seqChanged, limit) = Never <=> a.seqChanged = Never
          /\ a.seqChanged # Never =>
               Older(a.seqChanged, limit) = IF a.seqChanged >= limit THEN a.seqChanged
                                      ELSE a.seqChanged + 1
      BY <1>3, <3>1, AgesGrow
    <3> QED  BY <1>2, <3>2 DEF limit
  <2> QED  BY SMT, <1>1, <1>3, <1>4, <2>1 DEF Supervised, Age
<1>7. /\ b.linkAlive => i < LinkTimeout + (l + 1) + slip
      /\ b.commanded => c <= l + 1
      /\ IsActive(b) => b.linkAlive /\ ~b.stop
      /\ IsActive(b) /\ ~b.commanded =>
           b.seqChanged # Never /\ c < CommandStale + TickGap + (l + 1) + slip
  BY SMT, <1>1, <1>2, <1>4, <1>6 DEF Supervised
<1> QED  BY <1>2, <1>5, <1>6, <1>7 DEF Supervised, b, i, c

\* The clock is set back: the ages shrink, and the slip makes up for it.
LEMMA SupervisionSlips ==
  ASSUME NEW a, NEW info \in Int, NEW cmd \in Int, NEW l \in Nat,
         NEW slip \in Nat, NEW back \in Nat, slip + MaxBack < -Never,
         Supervised(a, info, cmd, l, slip, back), NEW d \in 1 .. MaxBack
  PROVE  Supervised(AutoDriveRewound(a, d), info, cmd, l,
                    slip + MaxBack, back - MaxBack)
<1> DEFINE b == AutoDriveRewound(a, d)
           s == slip + MaxBack
           r == back - MaxBack
<1>1. /\ Shaped(b) /\ b.linkAlive = a.linkAlive /\ b.commanded = a.commanded
      /\ b.stop = a.stop /\ (IsActive(b) <=> IsActive(a))
      /\ b.lastInfo = Rewound(a.lastInfo, d)
      /\ b.seqChanged = Rewound(a.seqChanged, d)
  BY DEF Supervised, Shaped, AdFields, AutoDriveRewound, IsActive
<1> HIDE DEF b
<1>2. Age(a.lastInfo, slip) /\ Age(a.seqChanged, slip)
  BY DEF Supervised
<1>3. /\ LinkTimeout \in Nat /\ CommandStale \in Nat /\ TickGap \in Nat
      /\ MaxBack \in Nat /\ d \in Nat /\ d <= MaxBack
  BY SMT, AutoDriveAssumption, SessionAssumption, ClockAssumption
<1>4. /\ Age(b.lastInfo, s)
      /\ b.lastInfo # Never /\ b.lastInfo < LinkTimeout + r =>
           info <= b.lastInfo + s
  <2>1. /\ Age(b.lastInfo, s) /\ (b.lastInfo = Never <=> a.lastInfo = Never)
        /\ a.lastInfo # Never => b.lastInfo = a.lastInfo - d
    BY SMT, <1>1, <1>2, AgesSlip
  <2> QED  BY SMT, <1>2, <1>3, <2>1 DEF Supervised, Age
<1>5. /\ Age(b.seqChanged, s) /\ (b.seqChanged = Never <=> a.seqChanged = Never)
      /\ b.seqChanged # Never /\ b.seqChanged < CommandStale + r =>
           cmd <= b.seqChanged + TickGap + s
  <2>1. /\ Age(b.seqChanged, s) /\ (b.seqChanged = Never <=> a.seqChanged = Never)
        /\ a.seqChanged # Never => b.seqChanged = a.seqChanged - d
    BY SMT, <1>1, <1>2, AgesSlip
  <2> QED  BY SMT, <1>2, <1>3, <2>1 DEF Supervised, Age
<1>6. /\ b.linkAlive => info < LinkTimeout + l + s
      /\ b.commanded => cmd <= l
      /\ IsActive(b) => b.linkAlive /\ ~b.stop
      /\ IsActive(b) /\ ~b.commanded =>
           b.seqChanged # Never /\ cmd < CommandStale + TickGap + l + s
  BY SMT, <1>1, <1>3, <1>5 DEF Supervised
<1> QED  BY <1>1, <1>4, <1>5, <1>6 DEF Supervised, b

\* The application engages or commands: that is the command.
LEMMA CommandsAreHeard ==
  ASSUME NEW a, NEW info \in Int, NEW cmd \in Int, NEW l \in Nat,
         NEW slip \in Nat, NEW back \in Nat,
         Supervised(a, info, cmd, l, slip, back)
  PROVE  /\ check_preconditions(a) =>
              Supervised(engage(a), info, 0, l, slip, back)
         /\ \A c : Supervised(command(a, c), info, 0, l, slip, back)
<1>1. /\ l >= 0 /\ TickGap \in Nat
      /\ a.seqChanged # Never => 0 <= a.seqChanged + TickGap + slip
  BY SMT, SessionAssumption DEF Supervised, Age
<1>2. ASSUME NEW b, Shaped(b), b.commanded, b.linkAlive = a.linkAlive,
             b.lastInfo = a.lastInfo, b.seqChanged = a.seqChanged,
             IsActive(b) => b.linkAlive /\ ~b.stop
      PROVE  Supervised(b, info, 0, l, slip, back)
  BY <1>1, <1>2 DEF Supervised
<1>3. ASSUME check_preconditions(a)
      PROVE  Supervised(engage(a), info, 0, l, slip, back)
  <2> DEFINE b == engage(a)
  <2>1. /\ Shaped(b) /\ b.commanded /\ b.linkAlive = a.linkAlive
        /\ b.lastInfo = a.lastInfo /\ b.seqChanged = a.seqChanged
        /\ b.stop = a.stop
    BY DEF Supervised, Shaped, AdFields, engage, set_status
  <2>2. a.linkAlive /\ ~a.stop
    BY <1>3 DEF check_preconditions
  <2> HIDE DEF b
  <2> QED  BY <1>2, <2>1, <2>2 DEF b
<1>4. ASSUME NEW c PROVE Supervised(command(a, c), info, 0, l, slip, back)
  <2> DEFINE b == command(a, c)
  <2>1. /\ Shaped(b) /\ b.commanded /\ b.linkAlive = a.linkAlive
        /\ b.lastInfo = a.lastInfo /\ b.seqChanged = a.seqChanged
        /\ b.stop = a.stop /\ (IsActive(b) <=> IsActive(a))
    BY DEF Supervised, Shaped, AdFields, command, IsActive
  <2>2. IsActive(a) => a.linkAlive /\ ~a.stop
    BY DEF Supervised
  <2> HIDE DEF b
  <2> QED  BY <1>2, <2>1, <2>2 DEF b
<1> QED  BY <1>3, <1>4

-----------------------------------------------------------------------------
(* TIM under supervision.                                                  *)

\* p is the age of the reference of the watchdog, k the real time since the
\* last keepalive.  Before the first tick there is no reference.
Covered(t, p, k, l, slip) ==
  /\ TimFields \subseteq DOMAIN t /\ t.since \in Nat /\ t.blocked \in BOOLEAN
  /\ t.state = "Granted" =>
       /\ ~t.blocked /\ t.since < AuthorityTimeout
       /\ k <= IF p = Never THEN l ELSE t.since + p + TickGap + slip

\* A TIM record that has no grant the other did not have.
LEMMA SameCover ==
  ASSUME NEW t, NEW p, NEW k, NEW l, NEW slip, Covered(t, p, k, l, slip),
         NEW u, DOMAIN u = DOMAIN t, u.since = t.since, u.blocked \in BOOLEAN,
         u.state = "Granted" => t.state = "Granted" /\ ~u.blocked
  PROVE  Covered(u, p, k, l, slip)
BY DEF Covered

\* A frame or a grant is a keepalive.
LEMMA KeepaliveCovers ==
  ASSUME NEW t, NEW p, NEW k, NEW l \in Nat, NEW slip \in Nat,
         Covered(t, p, k, l, slip), Age(p, slip)
  PROVE  /\ Covered(TimOnFrame(t).tim, p, 0, l, slip)
         /\ MayGrant(t) => Covered(grant(t), p, 0, l, slip)
<1>1. TickGap \in Nat /\ AuthorityTimeout \in Nat \ {0}
  BY SessionAssumption, TimAssumption
<1>2. 0 <= IF p = Never THEN l ELSE 0 + p + TickGap + slip
  BY SMT, <1>1 DEF Age
<1>3. ASSUME NEW u, DOMAIN u = DOMAIN t, u.since = 0, u.blocked = t.blocked,
             u.state = "Granted" => ~t.blocked
      PROVE  Covered(u, p, 0, l, slip)
  <2>1. 0 \in Nat /\ 0 < AuthorityTimeout
    BY SMT, <1>1
  <2> QED  BY <1>2, <1>3, <2>1 DEF Covered
<1>4. Covered(TimOnFrame(t).tim, p, 0, l, slip)
  <2> DEFINE u == TimOnFrame(t).tim
  <2>1. DOMAIN u = DOMAIN t /\ u.since = 0 /\ u.blocked = t.blocked /\ u.state = t.state
    BY DEF TimOnFrame, Covered, TimFields
  <2> HIDE DEF u
  <2>2. Covered(u, p, 0, l, slip)
    BY <1>3, <2>1 DEF Covered
  <2> QED  BY <2>2 DEF u
<1>5. ASSUME MayGrant(t) PROVE Covered(grant(t), p, 0, l, slip)
  <2> DEFINE u == grant(t)
  <2>1. DOMAIN u = DOMAIN t /\ u.since = 0 /\ u.blocked = t.blocked /\ ~t.blocked
    BY <1>5 DEF grant, MayGrant, Covered, TimFields
  <2> HIDE DEF u
  <2>2. Covered(u, p, 0, l, slip)
    BY <1>3, <2>1
  <2> QED  BY <2>2 DEF u
<1> QED  BY <1>4, <1>5

\* A tick: what has been silent since the reference is counted.
LEMMA TickCovers ==
  ASSUME NEW t, NEW p, NEW k \in Int, NEW l \in 0 .. TickGap, NEW slip \in Nat,
         Covered(t, p, k, l, slip), Age(p, slip)
  PROVE  Covered(TimOnTick(t, advance_millis(p)).tim, Advanced(p), k, 0, slip)
<1> DEFINE e == advance_millis(p)
           since == t.since + e
           lost == e > 0 /\ since >= AuthorityTimeout /\ t.state = "Granted"
           u == TimOnTick(t, e).tim
<1>1. TickGap \in Nat /\ AuthorityTimeout \in Nat \ {0}
  BY SessionAssumption, TimAssumption
<1>2. /\ e \in Nat /\ p \in Int
      /\ e = IF p = Never \/ p < 0 THEN 0 ELSE p
      /\ Advanced(p) # Never /\ Advanced(p) \in Int
      /\ Advanced(p) = IF p = Never \/ p > 0 THEN 0 ELSE p
  BY SMT DEF advance_millis, millis_since, Age, Advanced, Never
<1>3. t.since \in Nat /\ since \in Nat
  BY SMT, <1>2 DEF Covered
<1>4. /\ DOMAIN u = DOMAIN t /\ u.blocked = t.blocked
      /\ u.state = IF lost THEN "Revoked" ELSE t.state
      /\ u.since = IF lost THEN 0 ELSE IF since > AuthorityTimeout
                                      THEN AuthorityTimeout ELSE since
  BY DEF TimOnTick, Covered, TimFields
<1> HIDE DEF u, e
<1>5. u.since \in Nat
  BY SMT, <1>1, <1>3, <1>4
<1>6. ASSUME u.state = "Granted"
      PROVE  /\ ~u.blocked /\ u.since < AuthorityTimeout
             /\ k <= u.since + Advanced(p) + TickGap + slip
  <2>1. t.state = "Granted" /\ ~lost
    BY <1>4, <1>6
  <2>2. /\ ~t.blocked /\ t.since < AuthorityTimeout
        /\ k <= IF p = Never THEN l ELSE t.since + p + TickGap + slip
    BY <2>1 DEF Covered
  <2>3. since < AuthorityTimeout
    <3>1. CASE e > 0
      BY SMT, <1>1, <1>3, <2>1, <3>1
    <3>2. CASE ~(e > 0)
      BY SMT, <1>1, <1>2, <1>3, <2>2, <3>2
    <3> QED  BY <3>1, <3>2
  <2>4. u.since = since
    BY SMT, <1>1, <1>3, <1>4, <2>1, <2>3
  <2>5. k <= since + Advanced(p) + TickGap + slip
    BY SMT, <1>1, <1>2, <1>3, <2>2
  <2> QED  BY <1>4, <2>2, <2>3, <2>4, <2>5
<1> QED  BY <1>2, <1>4, <1>5, <1>6 DEF Covered, u, e

\* Time passes.
LEMMA CoverAges ==
  ASSUME NEW t, NEW p, NEW k \in Int, NEW l \in Nat, NEW slip \in Nat, slip < -Never,
         NEW back \in Nat, NEW x \in Int,
         Covered(t, p, k, l, slip), Age(p, slip), p <= l, l < TickGap
  PROVE  /\ Covered(t, Older(p, TickGap + back), Older(k, x), l + 1, slip)
         /\ Age(Older(p, TickGap + back), slip) /\ Older(p, TickGap + back) <= l + 1
<1>1. TickGap \in Nat /\ p \in Int
  BY SessionAssumption DEF Age
<1>2. Older(k, x) \in Int /\ Older(k, x) <= k + 1
  BY SMT DEF Older
<1>3. Older(p, TickGap + back) = IF p = Never THEN p ELSE p + 1
  BY SMT, <1>1 DEF Older
<1>4. /\ Older(p, TickGap + back) = Never <=> p = Never
      /\ Age(Older(p, TickGap + back), slip) /\ Older(p, TickGap + back) <= l + 1
  BY SMT, <1>1, <1>3 DEF Age, Never
<1>5. ASSUME t.state = "Granted"
      PROVE  Older(k, x) <= IF Older(p, TickGap + back) = Never THEN l + 1
                            ELSE t.since + Older(p, TickGap + back) + TickGap + slip
  <2>1. t.since \in Nat /\ k <= IF p = Never THEN l ELSE t.since + p + TickGap + slip
    BY <1>5 DEF Covered
  <2> QED  BY SMT, <1>1, <1>2, <1>3, <1>4, <2>1
<1> QED  BY <1>4, <1>5 DEF Covered

\* The clock is set back.
LEMMA CoverSlips ==
  ASSUME NEW t, NEW p, NEW k \in Int, NEW l \in Nat, NEW slip \in Nat,
         slip + MaxBack < -Never, NEW d \in 1 .. MaxBack,
         Covered(t, p, k, l, slip), Age(p, slip), p <= l
  PROVE  /\ Covered(t, Rewound(p, d), k, l, slip + MaxBack)
         /\ Age(Rewound(p, d), slip + MaxBack) /\ Rewound(p, d) <= l
<1>1. TickGap \in Nat /\ p \in Int /\ MaxBack \in Nat /\ d \in Nat /\ d <= MaxBack
  BY SMT, SessionAssumption, ClockAssumption DEF Age
<1>2. /\ Age(Rewound(p, d), slip + MaxBack)
      /\ Rewound(p, d) = Never <=> p = Never
      /\ Rewound(p, d) = IF p = Never THEN p ELSE p - d
  BY SMT, <1>1 DEF Age, Rewound, Never
<1>3. ASSUME t.state = "Granted"
      PROVE  k <= IF Rewound(p, d) = Never THEN l
                  ELSE t.since + Rewound(p, d) + TickGap + (slip + MaxBack)
  <2>1. t.since \in Nat /\ k <= IF p = Never THEN l ELSE t.since + p + TickGap + slip
    BY <1>3 DEF Covered
  <2> QED  BY SMT, <1>1, <1>2, <2>1
<1>4. Rewound(p, d) <= l
  BY SMT, <1>1, <1>2
<1> QED  BY <1>2, <1>3, <1>4 DEF Covered

-----------------------------------------------------------------------------
(* The session under supervision.                                          *)

\* The ages of the history are numbers.
Dated(h) ==
  /\ HistFields \subseteq DOMAIN h
  /\ h.info \in Int /\ h.command \in Int /\ h.keepalive \in Int

\* The supervision of a and t in a session whose last pump was l ago.
Guarding(a, t, p, h, l, slip, back) ==
  /\ Dated(h) /\ l \in 0 .. TickGap
  /\ Supervised(a, h.info, h.command, l, slip, back)
  /\ ~Has("AutoDrive") => ~a.linkAlive /\ ~a.commanded
  /\ Age(p, slip) /\ p <= l
  /\ Covered(t, p, h.keepalive, l, slip)

Watch == Budget /\ Guarding(ad, tim, polled, hist, lag, Slip, Back)

\* The numbers the invariant is about.
LEMMA GuardingBounds ==
  ASSUME Watch
  PROVE  /\ Budget /\ Guarding(ad, tim, polled, hist, lag, Slip, Back)
         /\ Slip \in Nat /\ Back \in Nat /\ Slip < -Never
         /\ TickGap \in Nat /\ lag \in Nat /\ lag \in 0 .. TickGap
BY SMT, SlipsAreBounded, SessionAssumption DEF Watch, Guarding

\* The dispatch of events leaves the supervision as the callbacks made it.
LEMMA DispatchGuards ==
  ASSUME NEW a, NEW t, NEW p, NEW h, NEW l, NEW slip, NEW back, NEW events,
         Guarding(a, t, p, h, l, slip, back), Dispatch(a, t, events)
  PROVE  Guarding(ad', tim', p, h, l, slip, back)
<1>1. Supervised(ad', h.info, h.command, l, slip, back)
      /\ (~Has("AutoDrive") => ~ad'.linkAlive /\ ~ad'.commanded)
  <2> DEFINE c == AutoDriveOnEvents(a, events)
  <2>1. Supervised(a, h.info, h.command, l, slip, back) /\ Shaped(a)
    BY DEF Guarding, Supervised
  <2>2. Quieter(a, c)
    BY <2>1, CallsAreQuieter
  <2> HIDE DEF c
  <2>3. Supervised(c, h.info, h.command, l, slip, back)
    BY <2>1, <2>2, QuieterIsSupervised
  <2>4. ad' = IF Has("AutoDrive") THEN c ELSE a
    BY DEF Dispatch, c
  <2> QED  BY <2>1, <2>3, <2>4 DEF Guarding
<1>2. Covered(tim', p, h.keepalive, l, slip)
  <2> DEFINE u == TimOnEvents(t, events).tim
             v == [t EXCEPT !.safe = TRUE, !.pending = << >>]
  <2>1. u \in {t, v}
    BY DEF TimOnEvents
  <2>2. Covered(t, p, h.keepalive, l, slip)
    BY DEF Guarding
  <2>3. /\ DOMAIN v = DOMAIN t /\ v.since = t.since /\ v.blocked = t.blocked
        /\ v.state = t.state
    BY <2>2 DEF Covered, TimFields
  <2> HIDE DEF v, u
  <2>4. Covered(v, p, h.keepalive, l, slip)
    BY <2>2, <2>3, SameCover DEF Covered
  <2>5. tim' = IF Has("Tim") THEN u ELSE t
    BY DEF Dispatch, u
  <2> QED  BY <2>1, <2>2, <2>4, <2>5
<1> QED  BY <1>1, <1>2 DEF Guarding

\* What feed makes of a frame is dispatched in the same call.
LEMMA FeedGuards ==
  ASSUME Watch, Budget', Slip' = Slip, Back' = Back,
         NEW a, NEW t, NEW events, NEW tx, NEW now,
         Guarding(a, t, polled, hist', lag, Slip, Back),
         Fed(a, t, events, tx, now), polled' = polled
  PROVE  Watch'
<1>1. PICK all : Dispatch(a, t, all)
  BY DEF Fed
<1>2. persona' = persona /\ lag' = lag
  BY DEF Fed
<1>3. Guarding(ad', tim', polled, hist', lag, Slip, Back)
  BY <1>1, DispatchGuards
<1>4. Has("AutoDrive")' = Has("AutoDrive")
  BY <1>2 DEF Has
<1> QED  BY <1>2, <1>3, <1>4 DEF Watch, Guarding

\* Histories that agree on what is supervised.
LEMMA SameGuard ==
  ASSUME NEW a, NEW t, NEW p, NEW h, NEW l, NEW slip, NEW back,
         Guarding(a, t, p, h, l, slip, back),
         NEW g, DOMAIN g = DOMAIN h, g.info = h.info, g.command = h.command,
         g.keepalive = h.keepalive
  PROVE  Guarding(a, t, p, g, l, slip, back)
BY DEF Guarding, Dated

\* A frame that is fed.
LEMMA FeedWatches ==
  ASSUME Watch, Feed PROVE Watch'
<1>0. Guarding(ad, tim, polled, hist, lag, Slip, Back) /\ Slip \in Nat /\ Back \in Nat
      /\ lag \in Nat /\ Budget
  BY GuardingBounds
<1>1. /\ Dated(hist) /\ lag \in 0 .. TickGap
      /\ Supervised(ad, hist.info, hist.command, lag, Slip, Back) /\ Shaped(ad)
      /\ ~Has("AutoDrive") => ~ad.linkAlive /\ ~ad.commanded
      /\ Age(polled, Slip) /\ polled <= lag
      /\ Covered(tim, polled, hist.keepalive, lag, Slip)
  BY <1>0 DEF Guarding, Supervised
<1>2. ASSUME UNCHANGED <<persona, used>> PROVE Budget' /\ Slip' = Slip /\ Back' = Back
  BY <1>0, <1>2, NothingSpent
<1>3. ASSUME NEW b, Quieter(ad, b), FeedAutoDrive(b), UNCHANGED hist PROVE Watch'
  <2>1. Supervised(b, hist.info, hist.command, lag, Slip, Back)
    BY <1>1, <1>3, QuieterIsSupervised
  <2>2. Guarding(b, tim, polled, hist', lag, Slip, Back)
    BY <1>1, <1>3, <2>1 DEF Guarding, FeedAutoDrive
  <2>3. /\ Fed(b, tim, << >>, << >>, claim) /\ polled' = polled
        /\ UNCHANGED <<persona, used>>
    BY <1>3 DEF FeedAutoDrive, Fed
  <2> QED  BY <1>2, <2>2, <2>3, FeedGuards
<1>4. CASE FeedShortcutButton
  BY <1>1, <1>3, <1>4, CallsAreQuieter DEF FeedShortcutButton
<1>5. CASE FeedFacilities
  BY <1>1, <1>3, <1>5, CallsAreQuieter DEF FeedFacilities
<1>6. CASE FeedMachineInfo
  <2>1. PICK info : FeedAutoDrive(OnMachineInfo(ad, info))
    BY <1>6 DEF FeedMachineInfo
  <2> DEFINE b == OnMachineInfo(ad, info)
  <2>2. /\ Dated(hist') /\ hist'.info = 0 /\ hist'.command = hist.command
        /\ hist'.keepalive = hist.keepalive
    BY SMT, <1>1, <1>6 DEF FeedMachineInfo, Dated, HistFields
  <2>3. Supervised(b, 0, hist.command, lag, Slip, Back)
    BY <1>0, <1>1, InfoIsHeard DEF Dated
  <2>4. /\ Fed(b, tim, << >>, << >>, claim) /\ polled' = polled
        /\ UNCHANGED <<persona, used>> /\ Has("AutoDrive")
    BY <2>1 DEF FeedAutoDrive, Fed
  <2> HIDE DEF b
  <2>5. Guarding(b, tim, polled, hist', lag, Slip, Back)
    BY <1>1, <2>2, <2>3, <2>4 DEF Guarding
  <2> QED  BY <1>2, <2>4, <2>5, FeedGuards
<1>7. ASSUME NEW events, Fed(ad, tim, events, << >>, claim), polled' = polled, used' = used,
             hist' = hist \/ hist' = [hist EXCEPT !.power = 0]
                          \/ hist' = [hist EXCEPT !.lost = 0]
      PROVE  Watch'
  <2>1. /\ DOMAIN hist' = DOMAIN hist /\ hist'.info = hist.info
        /\ hist'.command = hist.command /\ hist'.keepalive = hist.keepalive
    BY <1>1, <1>7 DEF Dated, HistFields
  <2>2. Guarding(ad, tim, polled, hist', lag, Slip, Back)
    BY <1>0, <2>1, SameGuard
  <2>3. persona' = persona
    BY <1>7 DEF Fed
  <2> QED  BY <1>2, <1>7, <2>2, <2>3, FeedGuards
<1>8. CASE FeedPosition
  BY <1>7, <1>8 DEF FeedPosition
<1>9. CASE FeedTim
  <2> DEFINE r == TimOnFrame(tim)
  <2>1. Fed(ad, r.tim, << >>, r.tx, claim) /\ polled' = polled /\ used' = used
    BY <1>9 DEF FeedTim
  <2>2. /\ Dated(hist') /\ hist'.info = hist.info /\ hist'.command = hist.command
        /\ hist'.keepalive = 0
    BY SMT, <1>1, <1>9 DEF FeedTim, Dated, HistFields
  <2>3. Covered(r.tim, polled, 0, lag, Slip)
    BY <1>0, <1>1, KeepaliveCovers
  <2>4. persona' = persona
    BY <2>1 DEF Fed
  <2> HIDE DEF r
  <2>5. Guarding(ad, r.tim, polled, hist', lag, Slip, Back)
    BY <1>1, <2>2, <2>3 DEF Guarding
  <2> QED  BY <1>2, <2>1, <2>4, <2>5, FeedGuards
<1>10. CASE FeedPowerRequest
  BY <1>7, <1>10 DEF FeedPowerRequest
<1>11. CASE FeedKeyOff
  BY <1>7, <1>11 DEF FeedKeyOff
<1>12. CASE FeedClaim
  <2>1. PICK now : Fed(ad, tim, << >>, << >>, now)
    BY <1>12 DEF FeedClaim
  <2>2. Spend({"losses"}) /\ polled' = polled /\ hist' = hist
    BY <1>12 DEF FeedClaim
  <2>3. persona' = persona
    BY <2>1 DEF Fed
  <2>4. {"losses"} \in SUBSET Bounded /\ "jumps" \notin {"losses"}
    BY DEF Bounded
  <2>5. Budget' /\ Slip' = Slip /\ Back' = Back
    BY <1>0, <2>2, <2>3, <2>4, SpendingSlips
  <2> QED  BY <1>0, <2>1, <2>2, <2>5, FeedGuards
<1>13. CASE FeedBeat
  BY <1>7, <1>13 DEF FeedBeat
<1> QED
  BY <1>4, <1>5, <1>6, <1>8, <1>9, <1>10, <1>11, <1>12, <1>13 DEF Feed

\* A pump of the driver.
LEMMA PumpWatches ==
  ASSUME Watch, Pump PROVE Watch'
<1>0. /\ Guarding(ad, tim, polled, hist, lag, Slip, Back)
      /\ Slip \in Nat /\ Back \in Nat /\ lag \in Nat /\ lag \in 0 .. TickGap /\ Budget
      /\ TickGap \in Nat
  BY GuardingBounds
<1>1. /\ Dated(hist)
      /\ Supervised(ad, hist.info, hist.command, lag, Slip, Back)
      /\ ~Has("AutoDrive") => ~ad.linkAlive /\ ~ad.commanded
      /\ Age(polled, Slip) /\ polled <= lag /\ polled \in Int
      /\ Covered(tim, polled, hist.keepalive, lag, Slip)
  BY <1>0 DEF Guarding, Age
<1>2. PICK health, now, k : Tick(health, now, k)
  BY DEF Pump
<1> DEFINE a == IF Has("AutoDrive") THEN AutoDriveOnTick(ad, now = "Claimed")
                ELSE [ad |-> ad, tx |-> << >>]
           t == TimOnTick(tim, advance_millis(polled))
           queue == Flushed(t.tim, TickEvents(health, now), a.tx \o t.tx, now)
           S == {b \in Bounded :
                   \/ b = "losses" /\ claim = "Claimed" /\ now # "Claimed"
                   \/ b = "sendErrors" /\ k < Len(queue)}
<1>3. /\ Dispatch(a.ad, t.tim, TickEvents(health, now))
      /\ polled' = Advanced(polled) /\ lag' = 0 /\ persona' = persona
      /\ hist' = Transmitted(hist, queue, k) /\ Spend(S)
  BY <1>2 DEF Tick
<1>4. S \in SUBSET Bounded /\ "jumps" \notin S
  OBVIOUS
<1>5. Budget' /\ Slip' = Slip /\ Back' = Back
  <2> HIDE DEF S
  <2> QED  BY <1>0, <1>3, <1>4, SpendingSlips
<1>6. Supervised(a.ad, hist.info, hist.command, 0, Slip, Back)
      /\ (~Has("AutoDrive") => ~a.ad.linkAlive /\ ~a.ad.commanded)
  <2>1. CASE Has("AutoDrive")
    <3>1. Supervised(AutoDriveOnTick(ad, now = "Claimed").ad,
                     hist.info, hist.command, 0, Slip, Back)
      BY <1>0, <1>1, TickSupervises DEF Dated
    <3> QED  BY <2>1, <3>1
  <2>2. CASE ~Has("AutoDrive")
    <3>1. a.ad = ad
      BY <2>2
    <3>2. ~ad.linkAlive /\ ~ad.commanded /\ ~IsActive(ad)
      BY <1>1, <2>2 DEF Supervised
    <3>3. Supervised(ad, hist.info, hist.command, 0, Slip, Back)
      BY <1>1, <3>2 DEF Supervised
    <3> QED  BY <3>1, <3>2, <3>3
  <2> QED  BY <2>1, <2>2
<1>7. Covered(t.tim, Advanced(polled), hist.keepalive, 0, Slip)
  BY <1>0, <1>1, TickCovers DEF Dated
<1>8. Age(Advanced(polled), Slip) /\ Advanced(polled) <= 0
  BY SMT, <1>0, <1>1 DEF Advanced, Age
<1> HIDE DEF a, t, queue
<1>9. Guarding(a.ad, t.tim, Advanced(polled), hist, 0, Slip, Back)
  <2>1. Dated(hist) /\ 0 \in 0 .. TickGap
    BY SMT, <1>0, <1>1
  <2> QED  BY ONLY <1>6, <1>7, <1>8, <2>1 DEF Guarding
<1>10. /\ DOMAIN hist' = DOMAIN hist /\ hist'.info = hist.info
       /\ hist'.command = hist.command /\ hist'.keepalive = hist.keepalive
  <2> DEFINE last == LastOf(Sent(queue, k), Intents)
             bus1 == IF last = "none" THEN hist.onBus ELSE last
             drop == (k < Len(queue) /\ queue[k + 1] \in Intents)
                       \/ (hist.dropped /\ last = "none")
  <2>1. hist' = [hist EXCEPT !.onBus = bus1, !.dropped = drop]
    BY <1>3 DEF Transmitted
  <2> HIDE DEF bus1, drop
  <2> QED  BY <1>1, <2>1 DEF Dated, HistFields
<1>11. Guarding(a.ad, t.tim, Advanced(polled), hist', 0, Slip, Back)
  BY <1>9, <1>10, SameGuard
<1>12. Guarding(ad', tim', Advanced(polled), hist', 0, Slip, Back)
  BY <1>3, <1>11, DispatchGuards
<1>13. Has("AutoDrive")' = Has("AutoDrive")
  BY <1>3 DEF Has
<1> QED  BY <1>3, <1>5, <1>12, <1>13 DEF Watch, Guarding

\* A step that leaves time and the plugins' clocks alone.
LEMMA TimelessWatches ==
  ASSUME Watch, Budget', Slip' = Slip, Back' = Back,
         UNCHANGED <<persona, lag, polled>>,
         Guarding(ad', tim', polled, hist', lag, Slip, Back)
  PROVE  Watch'
<1>1. Has("AutoDrive")' = Has("AutoDrive")
  BY DEF Has
<1> QED  BY <1>1 DEF Watch, Guarding

\* A call of the application.
LEMMA ApplicationWatches ==
  ASSUME Watch, Application PROVE Watch'
<1>0. Guarding(ad, tim, polled, hist, lag, Slip, Back) /\ Slip \in Nat /\ Back \in Nat
      /\ lag \in Nat /\ Budget
  BY GuardingBounds
<1>1. /\ Dated(hist) /\ lag \in 0 .. TickGap
      /\ Supervised(ad, hist.info, hist.command, lag, Slip, Back) /\ Shaped(ad)
      /\ ~Has("AutoDrive") => ~ad.linkAlive /\ ~ad.commanded
      /\ Age(polled, Slip) /\ polled <= lag
      /\ Covered(tim, polled, hist.keepalive, lag, Slip)
  BY <1>0 DEF Guarding, Supervised
<1>2. ASSUME UNCHANGED <<persona, used>> PROVE Budget' /\ Slip' = Slip /\ Back' = Back
  BY <1>0, <1>2, NothingSpent
<1>3. ASSUME NEW b, Quieter(ad, b), Operate(b), UNCHANGED hist PROVE Watch'
  <2>1. Supervised(b, hist.info, hist.command, lag, Slip, Back)
    BY <1>1, <1>3, QuieterIsSupervised
  <2>2. ad' = b /\ Has("AutoDrive") /\ UNCHANGED <<persona, lag, polled, used, tim>>
    BY <1>3 DEF Operate
  <2>3. Guarding(ad', tim', polled, hist', lag, Slip, Back)
    BY <1>1, <1>3, <2>1, <2>2 DEF Guarding
  <2> QED  BY <1>2, <2>2, <2>3, TimelessWatches
<1>4. CASE Arm
  BY <1>1, <1>3, <1>4, CallsAreQuieter DEF Arm
<1>5. CASE Disengage
  BY <1>1, <1>3, <1>5, StopIsQuieter DEF Disengage, disengage
<1>6. CASE ClearStop
  BY <1>1, <1>3, <1>6, CallsAreQuieter DEF ClearStop
<1>7. ASSUME NEW b, Supervised(b, hist.info, 0, lag, Slip, Back), Operate(b),
             hist' = [hist EXCEPT !.command = 0]
      PROVE  Watch'
  <2>1. ad' = b /\ Has("AutoDrive") /\ UNCHANGED <<persona, lag, polled, used, tim>>
    BY <1>7 DEF Operate
  <2>2. /\ Dated(hist') /\ hist'.info = hist.info /\ hist'.command = 0
        /\ hist'.keepalive = hist.keepalive
    BY SMT, <1>1, <1>7 DEF Dated, HistFields
  <2>3. Guarding(ad', tim', polled, hist', lag, Slip, Back)
    BY <1>1, <1>7, <2>1, <2>2 DEF Guarding
  <2> QED  BY <1>2, <2>1, <2>3, TimelessWatches
<1>8. /\ check_preconditions(ad) => Supervised(engage(ad), hist.info, 0, lag, Slip, Back)
      /\ \A c : Supervised(command(ad, c), hist.info, 0, lag, Slip, Back)
  BY <1>0, <1>1, CommandsAreHeard DEF Dated
<1>9. CASE Engage
  BY <1>7, <1>8, <1>9 DEF Engage
<1>10. CASE Command
  BY <1>7, <1>8, <1>10 DEF Command
<1>11. ASSUME NEW u, DOMAIN u = DOMAIN tim, u.since = tim.since, u.blocked \in BOOLEAN,
              u.state = "Granted" => tim.state = "Granted" /\ ~u.blocked,
              OperateTim(u), UNCHANGED hist
       PROVE  Watch'
  <2>1. Covered(u, polled, hist.keepalive, lag, Slip)
    BY <1>1, <1>11, SameCover
  <2>2. tim' = u /\ UNCHANGED <<persona, lag, polled, used, ad>>
    BY <1>11 DEF OperateTim
  <2>3. Guarding(ad', tim', polled, hist', lag, Slip, Back)
    BY <1>1, <1>11, <2>1, <2>2 DEF Guarding
  <2> QED  BY <1>2, <2>2, <2>3, TimelessWatches
<1>12. /\ TimFields \subseteq DOMAIN tim /\ tim.blocked \in BOOLEAN
       /\ tim.state = "Granted" => ~tim.blocked
  BY <1>1 DEF Covered
<1>13. CASE RequestAuthority
  <2>1. PICK options : OperateTim(request(tim, options)) /\ UNCHANGED hist
    BY <1>13 DEF RequestAuthority
  <2> DEFINE u == request(tim, options)
  <2>2. DOMAIN u = DOMAIN tim /\ u.since = tim.since /\ u.blocked = tim.blocked
        /\ u.state = "Requested"
    BY <1>12 DEF request, TimFields
  <2> HIDE DEF u
  <2> QED  BY <1>11, <1>12, <2>1, <2>2 DEF u
<1>14. CASE GrantAuthority
  <2>1. MayGrant(tim) /\ tim' = grant(tim) /\ UNCHANGED <<persona, lag, polled, used, ad>>
    BY <1>14 DEF GrantAuthority, OperateTim
  <2>2. /\ Dated(hist') /\ hist'.info = hist.info /\ hist'.command = hist.command
        /\ hist'.keepalive = 0
    BY SMT, <1>1, <1>14 DEF GrantAuthority, Dated, HistFields
  <2>3. Covered(tim', polled, 0, lag, Slip)
    BY <1>0, <1>1, <2>1, KeepaliveCovers
  <2>4. Guarding(ad', tim', polled, hist', lag, Slip, Back)
    BY <1>1, <2>1, <2>2, <2>3 DEF Guarding
  <2> QED  BY <1>2, <2>1, <2>4, TimelessWatches
<1>15. CASE EndAuthority
  <2>1. PICK state \in {"Denied", "Revoked"} :
          OperateTim([tim EXCEPT !.state = state]) /\ UNCHANGED hist
    BY <1>15 DEF EndAuthority
  <2> DEFINE u == [tim EXCEPT !.state = state]
  <2>2. DOMAIN u = DOMAIN tim /\ u.since = tim.since /\ u.blocked = tim.blocked
        /\ u.state # "Granted"
    BY <1>12 DEF TimFields
  <2> HIDE DEF u
  <2> QED  BY <1>11, <1>12, <2>1, <2>2 DEF u
<1>16. CASE SetInterlocks
  <2>1. PICK blocked \in BOOLEAN : OperateTim(set_interlocks(tim, blocked)) /\ UNCHANGED hist
    BY <1>16 DEF SetInterlocks
  <2> DEFINE u == set_interlocks(tim, blocked)
  <2>2. DOMAIN u = DOMAIN tim /\ u.since = tim.since /\ u.blocked = blocked
        /\ (u.state = "Granted" => tim.state = "Granted" /\ ~blocked)
    BY <1>12 DEF TimFields, set_interlocks
  <2> HIDE DEF u
  <2> QED  BY <1>11, <2>1, <2>2 DEF u
<1>17. CASE SetSafeMode
  <2>1. PICK safe : OperateTim([tim EXCEPT !.safe = safe]) /\ UNCHANGED hist
    BY <1>17 DEF SetSafeMode
  <2> DEFINE u == [tim EXCEPT !.safe = safe]
  <2>2. DOMAIN u = DOMAIN tim /\ u.since = tim.since /\ u.blocked = tim.blocked
        /\ u.state = tim.state
    BY <1>12 DEF TimFields
  <2> HIDE DEF u
  <2> QED  BY <1>11, <1>12, <2>1, <2>2 DEF u
<1>18. CASE GuardedCommand
  <2>1. PICK c : OperateTim([tim EXCEPT !.pending = Append(@, c)]) /\ UNCHANGED hist
    BY <1>18 DEF GuardedCommand
  <2> DEFINE u == [tim EXCEPT !.pending = Append(@, c)]
  <2>2. DOMAIN u = DOMAIN tim /\ u.since = tim.since /\ u.blocked = tim.blocked
        /\ u.state = tim.state
    BY <1>12 DEF TimFields
  <2> HIDE DEF u
  <2> QED  BY <1>11, <1>12, <2>1, <2>2 DEF u
<1>19. CASE TurnKey
  <2>1. UNCHANGED <<persona, lag, polled, used, ad, tim, hist>>
    BY <1>19 DEF TurnKey
  <2> QED  BY <1>0, <1>2, <2>1, TimelessWatches
<1> QED
  BY <1>4, <1>5, <1>6, <1>9, <1>10, <1>13, <1>14, <1>15, <1>16, <1>17, <1>18, <1>19
  DEF Application

\* Real time passes, the clock is set back, or the peer goes on.
LEMMA WorldWatches ==
  ASSUME Watch, World PROVE Watch'
<1>0. /\ Guarding(ad, tim, polled, hist, lag, Slip, Back)
      /\ Slip \in Nat /\ Back \in Nat /\ Slip < -Never
      /\ lag \in Nat /\ Budget /\ TickGap \in Nat
  BY GuardingBounds
<1>1. /\ Dated(hist) /\ lag \in 0 .. TickGap
      /\ Supervised(ad, hist.info, hist.command, lag, Slip, Back) /\ Shaped(ad)
      /\ ~Has("AutoDrive") => ~ad.linkAlive /\ ~ad.commanded
      /\ Age(polled, Slip) /\ polled <= lag
      /\ Covered(tim, polled, hist.keepalive, lag, Slip)
  BY <1>0 DEF Guarding, Supervised
<1>2. ASSUME NEW b \in Bounded \ {"jumps"}, Spend({b}),
             UNCHANGED <<persona, lag, polled, ad, tim>>,
             DOMAIN hist' = DOMAIN hist, hist'.info = hist.info,
             hist'.command = hist.command, hist'.keepalive = hist.keepalive
      PROVE  Watch'
  <2>1. Budget' /\ Slip' = Slip /\ Back' = Back
    BY SMT, <1>0, <1>2, SpendingSlips
  <2>2. Guarding(ad', tim', polled, hist', lag, Slip, Back)
    BY <1>0, <1>2, SameGuard
  <2> QED  BY <1>2, <2>1, <2>2, TimelessWatches
<1>3. {"lostBeats", "signals"} \subseteq Bounded \ {"jumps"}
  BY DEF Bounded
<1>4. HistFields \subseteq DOMAIN hist
  BY <1>1 DEF Dated
<1>5. CASE LoseBeat
  <2>1. UNCHANGED <<persona, lag, polled, ad, tim>> /\ Spend({"lostBeats"})
    BY <1>5 DEF LoseBeat
  <2>2. PICK lost, clean : hist' = [hist EXCEPT !.lost = lost, !.clean = clean]
    BY <1>5 DEF LoseBeat
  <2>3. /\ DOMAIN hist' = DOMAIN hist /\ hist'.info = hist.info
        /\ hist'.command = hist.command /\ hist'.keepalive = hist.keepalive
    BY <1>4, <2>2 DEF HistFields
  <2> QED  BY <1>2, <1>3, <2>1, <2>3
<1>6. CASE PeerSignals
  <2>1. UNCHANGED <<persona, lag, polled, ad, tim>> /\ Spend({"signals"})
    BY <1>6 DEF PeerSignals
  <2>2. /\ DOMAIN hist' = DOMAIN hist /\ hist'.info = hist.info
        /\ hist'.command = hist.command /\ hist'.keepalive = hist.keepalive
    BY <1>4, <1>6 DEF HistFields, PeerSignals
  <2> QED  BY <1>2, <1>3, <2>1, <2>2
<1>7. CASE PeerRestarts
  BY <1>2, <1>3, <1>7 DEF PeerRestarts
<1>8. CASE Elapse
  <2> DEFINE lost == MaxBack * persona.limit["jumps"]
             c == CommandStale + 2 * TickGap + lost
             i == LinkTimeout + TickGap + lost
             k == AuthorityTimeout + 2 * TickGap + lost
  <2>1. /\ lag < TickGap /\ lag' = lag + 1
        /\ ad' = AutoDriveOlder(ad, Back) /\ polled' = Older(polled, TickGap + Back)
        /\ hist' = [hist EXCEPT !.command = Older(@, c), !.info = Older(@, i),
                                !.keepalive = Older(@, k), !.power = Older(@, MaintainTime)]
        /\ UNCHANGED <<persona, tim, used>>
    BY <1>8 DEF Elapse, Back
  <2>2. c \in Int /\ i \in Int /\ k \in Int
    <3>1. lost \in Nat
      BY SMT, <1>0, SlipsAreBounded
    <3> HIDE DEF lost
    <3> QED  BY SMT, <1>0, <3>1, AutoDriveAssumption, TimAssumption
  <2> HIDE DEF c, i, k
  <2>3. /\ DOMAIN hist' = DOMAIN hist /\ hist'.info = Older(hist.info, i)
        /\ hist'.command = Older(hist.command, c)
        /\ hist'.keepalive = Older(hist.keepalive, k)
    BY <1>4, <2>1 DEF HistFields
  <2>4. Dated(hist')
    <3>1. ASSUME NEW x \in Int, NEW y \in Int PROVE Older(x, y) \in Int
      BY SMT DEF Older
    <3> QED  BY <1>1, <2>2, <2>3, <3>1 DEF Dated
  <2>5. Supervised(ad', hist'.info, hist'.command, lag + 1, Slip, Back)
    BY SMT, <1>0, <1>1, <2>1, <2>2, <2>3, SupervisionAges DEF Dated
  <2>6. /\ Covered(tim, polled', hist'.keepalive, lag + 1, Slip)
        /\ Age(polled', Slip) /\ polled' <= lag + 1
    BY SMT, <1>0, <1>1, <2>1, <2>2, <2>3, CoverAges DEF Dated
  <2>7. ad'.linkAlive = ad.linkAlive /\ ad'.commanded = ad.commanded
    BY <1>1, <2>1 DEF AutoDriveOlder, Shaped, AdFields
  <2>8. lag + 1 \in 0 .. TickGap
    BY SMT, <1>0, <2>1
  <2>9. Guarding(ad', tim, polled', hist', lag + 1, Slip, Back)
    BY <1>1, <2>4, <2>5, <2>6, <2>7, <2>8 DEF Guarding
  <2>10. Budget' /\ Slip' = Slip /\ Back' = Back
    BY <1>0, <2>1, NothingSpent
  <2>11. Has("AutoDrive")' = Has("AutoDrive")
    BY <2>1 DEF Has
  <2> QED  BY <2>1, <2>9, <2>10, <2>11 DEF Watch, Guarding
<1>9. CASE ClockJumps
  <2>1. PICK d \in 1 .. MaxBack :
          ad' = AutoDriveRewound(ad, d) /\ polled' = Rewound(polled, d)
    BY <1>9 DEF ClockJumps
  <2>2. Spend({"jumps"}) /\ UNCHANGED <<persona, lag, tim, hist>>
    BY <1>9 DEF ClockJumps
  <2>3. {"jumps"} \in SUBSET Bounded
    BY DEF Bounded
  <2>4. Budget' /\ Slip' = Slip + MaxBack /\ Back' = Back - MaxBack
    BY <1>0, <2>2, <2>3, SpendingSlips
  <2>5. Back >= MaxBack
    <3>1. /\ used["jumps"] \in Nat /\ persona.limit["jumps"] \in Nat /\ MaxBack \in Nat
          /\ used["jumps"] < persona.limit["jumps"]
      BY SMT, <1>0, <2>2, <2>3, SessionAssumption, ClockAssumption DEF Budget, Spend, Bounded
    <3>2. \A b, l, u \in Nat : u < l => b * (l - u) >= b
      BY SMT
    <3> QED  BY <3>1, <3>2 DEF Back
  <2>6. Slip + MaxBack < -Never
    <3>1. Slip + Back < -Never
      BY <1>0, SlipsAreBounded, SessionAssumption DEF Budget
    <3> QED  BY SMT, <1>0, <2>5, <3>1, ClockAssumption DEF Never
  <2>7. Supervised(ad', hist.info, hist.command, lag, Slip + MaxBack, Back - MaxBack)
    BY <1>0, <1>1, <2>1, <2>6, SupervisionSlips DEF Dated
  <2>8. /\ Covered(tim, polled', hist.keepalive, lag, Slip + MaxBack)
        /\ Age(polled', Slip + MaxBack) /\ polled' <= lag
    BY <1>0, <1>1, <2>1, <2>6, CoverSlips DEF Dated
  <2>9. ad'.linkAlive = ad.linkAlive /\ ad'.commanded = ad.commanded
    BY <1>1, <2>1 DEF AutoDriveRewound, Shaped, AdFields
  <2>10. Guarding(ad', tim, polled', hist, lag, Slip + MaxBack, Back - MaxBack)
    BY <1>1, <2>7, <2>8, <2>9 DEF Guarding
  <2>11. Has("AutoDrive")' = Has("AutoDrive")
    BY <2>2 DEF Has
  <2> QED  BY <2>2, <2>4, <2>10, <2>11 DEF Watch, Guarding
<1> QED  BY <1>5, <1>6, <1>7, <1>8, <1>9 DEF World

\* A new session.
LEMMA InitWatches == Init => Watch
<1> SUFFICES ASSUME Init PROVE Watch
  OBVIOUS
<1>1. Budget
  <2>1. persona \in Personas /\ used = [b \in Bounded |-> 0]
    BY DEF Init
  <2>2. "jumps" \in Bounded
    BY DEF Bounded
  <2>3. persona.limit["jumps"] \in Nat
    BY <2>1, <2>2, SessionAssumption
  <2>4. used \in [Bounded -> Nat] /\ used["jumps"] = 0
    BY <2>1, <2>2
  <2>5. used["jumps"] <= persona.limit["jumps"]
    BY SMT, <2>3, <2>4
  <2> QED  BY ONLY <2>1, <2>3, <2>4, <2>5 DEF Budget
<1>2. Slip \in Nat /\ TickGap \in Nat
  BY <1>1, SlipsAreBounded, SessionAssumption
<1>3. /\ Dated(hist) /\ lag = 0 /\ polled = Never
  BY SMT DEF Init, NewHistory, Dated, HistFields, Never
<1>4. Age(polled, Slip) /\ polled <= lag /\ lag \in 0 .. TickGap
  BY SMT, <1>2, <1>3 DEF Age, Never
<1>5. Supervised(ad, hist.info, hist.command, lag, Slip, Back)
      /\ ~ad.linkAlive /\ ~ad.commanded
  <2>1. /\ Shaped(ad) /\ ad.lastInfo = Never /\ ad.seqChanged = Never
        /\ ~ad.linkAlive /\ ~ad.commanded /\ ~IsActive(ad)
    BY DEF Init, NewAutoDrive, Shaped, AdFields, IsActive, Active
  <2>2. Age(Never, Slip)
    BY SMT DEF Age, Never
  <2> QED  BY <2>1, <2>2 DEF Supervised
<1>6. Covered(tim, polled, hist.keepalive, lag, Slip)
  BY DEF Init, NewTim, Covered, TimFields
<1> QED  BY <1>1, <1>3, <1>4, <1>5, <1>6 DEF Watch, Guarding

\* The supervision is kept for ever.
LEMMA Watching == Spec => []Watch
<1>1. Watch /\ [Next]_vars => Watch'
  <2> SUFFICES ASSUME Watch, [Next]_vars PROVE Watch'
    OBVIOUS
  <2>1. CASE UNCHANGED vars
    <3>1. UNCHANGED <<persona, used, lag, polled, ad, tim, hist>>
      BY <2>1 DEF vars
    <3>2. Budget' /\ Slip' = Slip /\ Back' = Back
      BY <3>1, NothingSpent DEF Watch
    <3> QED  BY <3>1, <3>2, TimelessWatches DEF Watch
  <2> QED
    BY <2>1, FeedWatches, PumpWatches, ApplicationWatches, WorldWatches DEF Next
<1> QED  BY <1>1, InitWatches, PTL DEF Spec

\* AutoDrive is active only while the machine and the application are heard
\* from: for all timeouts and pump intervals, every number of clock jumps.
THEOREM SessionIsSupervised == Spec => []SteeringIsSupervised
<1>1. Watch => SteeringIsSupervised
  <2> SUFFICES ASSUME Watch, IsActive(ad)
               PROVE  /\ hist.info < LinkTimeout + TickGap + Slip
                      /\ hist.command < CommandStale + 2 * TickGap + Slip
    BY DEF SteeringIsSupervised, Slip
  <2>1. Slip \in Nat /\ TickGap \in Nat /\ lag \in Nat /\ lag <= TickGap
    BY SMT, GuardingBounds
  <2>2. /\ Supervised(ad, hist.info, hist.command, lag, Slip, Back)
        /\ hist.info \in Int /\ hist.command \in Int
    BY DEF Watch, Guarding, Dated
  <2>3. ad.linkAlive /\ hist.info < LinkTimeout + lag + Slip
    BY <2>2 DEF Supervised
  <2>4. hist.command <= lag \/ hist.command < CommandStale + TickGap + lag + Slip
    BY <2>2 DEF Supervised, Shaped
  <2> QED  BY SMT, <2>1, <2>2, <2>3, <2>4, AutoDriveAssumption
<1> QED  BY <1>1, Watching, PTL

\* A TIM grant stands only while its interlocks are clear and its peer is heard.
THEOREM GrantsAreCovered == Spec => []GrantIsCovered
<1>1. Watch => GrantIsCovered
  <2> SUFFICES ASSUME Watch, tim.state = "Granted"
               PROVE  /\ ~tim.blocked
                      /\ hist.keepalive < AuthorityTimeout + 2 * TickGap + Slip
    BY DEF GrantIsCovered, Slip
  <2>1. Slip \in Nat /\ TickGap \in Nat /\ lag \in Nat /\ lag <= TickGap
    BY SMT, GuardingBounds
  <2>2. /\ tim.since \in Nat /\ ~tim.blocked /\ tim.since < AuthorityTimeout
        /\ hist.keepalive <= IF polled = Never THEN lag
                             ELSE tim.since + polled + TickGap + Slip
        /\ hist.keepalive \in Int /\ polled \in Int /\ polled <= lag
    BY DEF Watch, Guarding, Covered, Dated, Age
  <2> QED  BY SMT, <2>1, <2>2, TimAssumption
<1> QED  BY <1>1, Watching, PTL

-----------------------------------------------------------------------------
(* The heartbeat of a peer that behaves.                                   *)

\* The peer's last byte is the one the receiver heard last, or `lost` ahead.
Behind(last, seq, lost) ==
  \/ lost = 0 /\ seq = last
  \/ lost > 0 /\ seq <= MaxNormal /\ seq # last /\ compute_jump(last, seq) = lost

Peering(r, s, lost) ==
  /\ HbFields \subseteq DOMAIN r /\ PeerFields \subseteq DOMAIN s
  /\ r.state \in {"Normal", "CommError"} /\ r.first \in BOOLEAN
  /\ s.special = FALSE /\ s.initSent \in BOOLEAN /\ s.sequence \in 0 .. INIT
  /\ lost \in 0 .. MaxJump - 1
  /\ r.first => r.last \in 0 .. INIT
  /\ r.first /\ s.initSent => Behind(r.last, s.sequence, lost)

\* The next byte of a counting peer is one further, through the rollover and
\* from the initial byte.
LEMMA NextBeat ==
  ASSUME NEW last \in 0 .. INIT, NEW seq \in 0 .. INIT, NEW lost \in 0 .. MaxJump - 1,
         Behind(last, seq, lost),
         NEW byte, byte = IF seq >= MaxNormal THEN 0 ELSE seq + 1
  PROVE  /\ byte \in 0 .. MaxNormal /\ byte # last
         /\ compute_jump(last, byte) = lost + 1
BY SMT, HeartbeatAssumption DEF Behind, compute_jump, INIT

\* A beat that arrives is the one that is expected.
LEMMA BeatIsTrusted ==
  ASSUME NEW r, NEW s, NEW lost, Peering(r, s, lost)
  PROVE  Peering(process(r, next_sequence(s).sequence), next_sequence(s), 0)
<1> DEFINE n == next_sequence(s)
           byte == n.sequence
           p == process(r, byte)
           x == [[r EXCEPT !.since = 0] EXCEPT !.wasShutdown = FALSE]
<1>0. /\ MaxNormal \in Nat /\ MaxJump \in Nat \ {0} /\ MaxJump < MaxNormal
      /\ INIT = MaxNormal + 1 /\ SENDER_ERROR = MaxNormal + 2 /\ SHUTDOWN = MaxNormal + 3
  BY HeartbeatAssumption DEF INIT, SENDER_ERROR, SHUTDOWN
<1>1. /\ PeerFields \subseteq DOMAIN n /\ n.special = FALSE /\ n.initSent = TRUE
      /\ ~s.initSent => byte = INIT
      /\ s.initSent => byte = IF s.sequence >= MaxNormal THEN 0 ELSE s.sequence + 1
  BY DEF Peering, next_sequence, PeerFields
<1>2. byte \in 0 .. INIT
  BY SMT, <1>0, <1>1 DEF Peering
<1>3. /\ HbFields \subseteq DOMAIN x /\ x.state = r.state /\ x.first = r.first
      /\ x.last = r.last
  BY DEF Peering, HbFields
<1> HIDE DEF n, x
<1>4. ASSUME NEW y, HbFields \subseteq DOMAIN y, y.state = "Normal", y.first \in BOOLEAN,
             y.last = byte
      PROVE  Peering(y, n, 0)
  <2>1. 0 \in 0 .. MaxJump - 1
    BY SMT, <1>0
  <2>2. Behind(y.last, n.sequence, 0)
    BY <1>4 DEF Behind
  <2> QED  BY <1>1, <1>2, <1>4, <2>1, <2>2 DEF Peering
<1>5. /\ byte <= INIT /\ byte # SENDER_ERROR /\ byte # SHUTDOWN
  BY SMT, <1>0, <1>2
<1>6. CASE r.state = "CommError"
  <2> DEFINE y == [x EXCEPT !.state = "Normal", !.recovered = 0, !.last = byte]
  <2>1. p = y
    BY <1>5, <1>6 DEF process, x, Peering, HbFields
  <2>2. HbFields \subseteq DOMAIN y /\ y.state = "Normal" /\ y.first = r.first /\ y.last = byte
    BY <1>3 DEF HbFields
  <2> HIDE DEF y, p
  <2>3. Peering(y, n, 0)
    BY <1>4, <2>2 DEF Peering
  <2> QED  BY <2>1, <2>3 DEF n, p
<1>7. CASE r.state = "Normal" /\ ~r.first
  <2> DEFINE y == [x EXCEPT !.first = TRUE, !.last = byte]
  <2>1. p = y
    BY <1>5, <1>7 DEF process, x, Peering, HbFields
  <2>2. HbFields \subseteq DOMAIN y /\ y.state = "Normal" /\ y.first = TRUE /\ y.last = byte
    BY <1>3, <1>7 DEF HbFields
  <2> HIDE DEF y, p
  <2>3. Peering(y, n, 0)
    BY <1>4, <2>2
  <2> QED  BY <2>1, <2>3 DEF n, p
<1>8. CASE r.state = "Normal" /\ r.first /\ byte = INIT
  <2> DEFINE y == [x EXCEPT !.last = INIT]
  <2>1. p = y
    BY <1>5, <1>8 DEF process, x, Peering, HbFields
  <2>2. HbFields \subseteq DOMAIN y /\ y.state = "Normal" /\ y.first = r.first /\ y.last = byte
    BY <1>3, <1>8 DEF HbFields
  <2> HIDE DEF y, p
  <2>3. Peering(y, n, 0)
    BY <1>4, <2>2 DEF Peering
  <2> QED  BY <2>1, <2>3 DEF n, p
<1>9. CASE r.state = "Normal" /\ r.first /\ byte # INIT
  <2> DEFINE y == [x EXCEPT !.last = byte]
  <2>1. s.initSent /\ byte = IF s.sequence >= MaxNormal THEN 0 ELSE s.sequence + 1
    BY <1>1, <1>9 DEF Peering
  <2>2. Behind(r.last, s.sequence, lost) /\ r.last \in 0 .. INIT
        /\ s.sequence \in 0 .. INIT /\ lost \in 0 .. MaxJump - 1
    BY <1>9, <2>1 DEF Peering
  <2>3. byte # r.last /\ compute_jump(r.last, byte) = lost + 1
    <3> HIDE DEF byte
    <3> QED  BY SMT, <2>1, <2>2, NextBeat
  <2>4. ~(compute_jump(r.last, byte) > MaxJump)
    BY SMT, <1>0, <2>2, <2>3
  <2>5. Follow(x, byte) = y
    BY <1>3, <1>9, <2>3, <2>4 DEF Follow
  <2>6. p = Follow(x, byte)
    BY <1>5, <1>9 DEF process, x, Peering, HbFields
  <2>7. HbFields \subseteq DOMAIN y /\ y.state = "Normal" /\ y.first = r.first /\ y.last = byte
    BY <1>3, <1>9 DEF HbFields
  <2> HIDE DEF y, p
  <2>8. Peering(y, n, 0)
    BY <1>4, <2>7 DEF Peering
  <2> QED  BY <2>5, <2>6, <2>8 DEF n, p
<1> QED  BY <1>6, <1>7, <1>8, <1>9 DEF Peering

\* A beat that is lost, but not one too many.
LEMMA LossIsTrusted ==
  ASSUME NEW r, NEW s, NEW lost, Peering(r, s, lost), lost + 1 < MaxJump,
         next_sequence(s).sequence # INIT
  PROVE  Peering(r, next_sequence(s), lost + 1)
<1> DEFINE n == next_sequence(s)
           byte == n.sequence
<1>0. MaxNormal \in Nat /\ MaxJump \in Nat /\ INIT = MaxNormal + 1
  BY HeartbeatAssumption DEF INIT
<1>1. /\ PeerFields \subseteq DOMAIN n /\ n.special = FALSE /\ n.initSent = TRUE
      /\ s.initSent
      /\ byte = IF s.sequence >= MaxNormal THEN 0 ELSE s.sequence + 1
  BY DEF Peering, next_sequence, PeerFields
<1>2. byte \in 0 .. MaxNormal /\ byte \in 0 .. INIT
  BY SMT, <1>0, <1>1 DEF Peering
<1>3. lost + 1 \in 0 .. MaxJump - 1 /\ lost + 1 > 0
  BY SMT, <1>0 DEF Peering
<1> HIDE DEF n
<1>4. ASSUME r.first PROVE Behind(r.last, byte, lost + 1)
  <2>1. Behind(r.last, s.sequence, lost) /\ r.last \in 0 .. INIT
        /\ s.sequence \in 0 .. INIT /\ lost \in 0 .. MaxJump - 1
    BY <1>1, <1>4 DEF Peering
  <2> HIDE DEF byte
  <2>2. byte # r.last /\ compute_jump(r.last, byte) = lost + 1
    BY SMT, <1>1, <2>1, NextBeat
  <2> QED  BY SMT, <1>2, <1>3, <2>2 DEF Behind
<1> QED  BY <1>1, <1>2, <1>3, <1>4 DEF Peering, n

\* Silence is not held against the order of the beats.
LEMMA SilenceIsTrusted ==
  ASSUME NEW r, NEW s, NEW lost, Peering(r, s, lost), NEW elapsed
  PROVE  Peering(HeartbeatOnTick(r, elapsed).hb, s, lost)
<1> DEFINE p == HeartbeatOnTick(r, elapsed).hb
<1>1. /\ HbFields \subseteq DOMAIN p /\ p.state \in {"Normal", "CommError"}
      /\ p.first = r.first /\ p.last = r.last
  BY DEF HeartbeatOnTick, Peering, HbFields
<1> HIDE DEF p
<1> QED  BY <1>1 DEF Peering, p

Trusted == hist.clean => Peering(hb, peer, hist.lost)

\* A step that touches neither end of the heartbeat.
LEMMA SameTrust ==
  ASSUME Trusted, hb' = hb, peer' = peer, hist'.lost = hist.lost,
         hist'.clean = hist.clean
  PROVE  Trusted'
BY DEF Trusted

\* Every step.
LEMMA StepTrusts ==
  ASSUME Watch, Trusted, [Next]_vars PROVE Trusted'
<1>0. HistFields \subseteq DOMAIN hist
  BY DEF Watch, Guarding, Dated
<1>1. CASE FeedBeat
  <2>1. peer' = next_sequence(peer) /\ hb' = process(hb, next_sequence(peer).sequence)
    BY <1>1 DEF FeedBeat, HeartbeatOnFrame
  <2>2. hist'.lost = 0 /\ hist'.clean = hist.clean
    BY <1>0, <1>1 DEF FeedBeat, HistFields
  <2> QED  BY <2>1, <2>2, BeatIsTrusted DEF Trusted
<1>2. CASE Pump
  <2>1. PICK health, now, k : Tick(health, now, k)
    BY <1>2 DEF Pump
  <2>2. peer' = peer /\ hb' = HeartbeatOnTick(hb, advance_millis(polled)).hb
    BY <2>1 DEF Tick
  <2>3. PICK onBus, dropped : hist' = [hist EXCEPT !.onBus = onBus, !.dropped = dropped]
    BY <2>1 DEF Tick, Transmitted
  <2>4. hist'.lost = hist.lost /\ hist'.clean = hist.clean
    BY <1>0, <2>3 DEF HistFields
  <2> QED  BY <2>2, <2>4, SilenceIsTrusted DEF Trusted
<1>3. CASE LoseBeat
  <2>1. peer' = next_sequence(peer) /\ hb' = hb
    BY <1>3 DEF LoseBeat
  <2>2. /\ hist'.lost = IF hist.lost < MaxJump THEN hist.lost + 1 ELSE hist.lost
        /\ hist'.clean = /\ hist.clean /\ hist.lost + 1 < MaxJump
                         /\ peer'.sequence # INIT
    BY <1>0, <1>3 DEF LoseBeat, HistFields
  <2> SUFFICES ASSUME hist'.clean PROVE Peering(hb', peer', hist'.lost)
    BY DEF Trusted
  <2>3. /\ Peering(hb, peer, hist.lost) /\ hist.lost + 1 < MaxJump
        /\ next_sequence(peer).sequence # INIT
    BY <2>1, <2>2 DEF Trusted
  <2>4. hist'.lost = hist.lost + 1
    <3>1. hist.lost \in 0 .. MaxJump - 1 /\ MaxJump \in Nat
      BY <2>3, HeartbeatAssumption DEF Peering
    <3>2. hist.lost < MaxJump
      BY ONLY SMT, <3>1
    <3> QED  BY ONLY <2>2, <3>2
  <2> QED  BY <2>1, <2>3, <2>4, LossIsTrusted
<1>4. CASE PeerSignals
  <2>1. hist'.clean = FALSE
    BY <1>0, <1>4 DEF PeerSignals, HistFields
  <2> QED  BY <2>1 DEF Trusted
<1>5. CASE PeerRestarts
  <2>1. peer' = NewSender /\ hb' = hb /\ hist' = hist
    BY <1>5 DEF PeerRestarts
  <2>2. /\ PeerFields \subseteq DOMAIN peer' /\ peer'.special = FALSE
        /\ peer'.initSent = FALSE /\ peer'.sequence = INIT
    BY <2>1 DEF NewSender, PeerFields
  <2>3. INIT \in 0 .. INIT
    BY SMT, HeartbeatAssumption DEF INIT
  <2> QED  BY <2>1, <2>2, <2>3 DEF Trusted, Peering
<1>6. CASE Feed /\ ~FeedBeat
  <2>1. hb' = hb /\ peer' = peer
    BY <1>6 DEF Feed, FeedShortcutButton, FeedFacilities, FeedMachineInfo, FeedPosition,
                FeedTim, FeedPowerRequest, FeedKeyOff, FeedClaim, FeedAutoDrive
  <2>2. hist' \in {hist, [hist EXCEPT !.info = 0], [hist EXCEPT !.keepalive = 0],
                   [hist EXCEPT !.power = 0]}
    BY <1>6 DEF Feed, FeedShortcutButton, FeedFacilities, FeedMachineInfo, FeedPosition,
                FeedTim, FeedPowerRequest, FeedKeyOff, FeedClaim
  <2>3. hist'.lost = hist.lost /\ hist'.clean = hist.clean
    BY <1>0, <2>2 DEF HistFields
  <2> QED  BY <2>1, <2>3, SameTrust
<1>7. CASE Application
  <2>1. hb' = hb /\ peer' = peer
    BY <1>7 DEF Application, Arm, Engage, Disengage, Command, ClearStop, Operate,
                RequestAuthority, GrantAuthority, EndAuthority, SetInterlocks, SetSafeMode,
                GuardedCommand, OperateTim, TurnKey
  <2>2. hist' \in {hist, [hist EXCEPT !.command = 0], [hist EXCEPT !.keepalive = 0]}
    BY <1>7 DEF Application, Arm, Engage, Disengage, Command, ClearStop,
                RequestAuthority, GrantAuthority, EndAuthority, SetInterlocks, SetSafeMode,
                GuardedCommand, TurnKey
  <2>3. hist'.lost = hist.lost /\ hist'.clean = hist.clean
    BY <1>0, <2>2 DEF HistFields
  <2> QED  BY <2>1, <2>3, SameTrust
<1>8. CASE Elapse
  <2>1. hb' = hb /\ peer' = peer
    BY <1>8 DEF Elapse
  <2>2. PICK c, i, k, p : hist' = [hist EXCEPT !.command = c, !.info = i,
                                               !.keepalive = k, !.power = p]
    BY <1>8 DEF Elapse
  <2>3. hist'.lost = hist.lost /\ hist'.clean = hist.clean
    BY <1>0, <2>2 DEF HistFields
  <2> QED  BY <2>1, <2>3, SameTrust
<1>9. CASE ClockJumps
  BY <1>9, SameTrust DEF ClockJumps
<1>10. CASE UNCHANGED vars
  BY <1>10, SameTrust DEF vars
<1> QED
  BY <1>1, <1>2, <1>3, <1>4, <1>5, <1>6, <1>7, <1>8, <1>9, <1>10 DEF Next, World

\* A peer that behaves is never found out of sequence, for all bands and
\* tolerances of the sequence byte.
THEOREM CleanPeersAreTrusted == Spec => []CleanPeerIsTrusted
<1>1. Init => Trusted
  <2> SUFFICES ASSUME Init PROVE Peering(hb, peer, hist.lost)
    BY DEF Trusted
  <2>1. /\ HbFields \subseteq DOMAIN hb /\ hb.state = "Normal" /\ hb.first = FALSE
        /\ PeerFields \subseteq DOMAIN peer /\ peer.special = FALSE
        /\ peer.initSent = FALSE /\ peer.sequence = INIT /\ hist.lost = 0
    BY DEF Init, NewReceiver, NewSender, NewHistory, HbFields, PeerFields
  <2>2. INIT \in 0 .. INIT /\ 0 \in 0 .. MaxJump - 1
    BY SMT, HeartbeatAssumption DEF INIT
  <2> QED  BY <2>1, <2>2 DEF Peering
<1>2. Watch /\ Trusted /\ [Next]_vars => Trusted'
  BY StepTrusts
<1>3. Trusted => CleanPeerIsTrusted
  BY DEF Trusted, Peering, CleanPeerIsTrusted
<1> QED  BY <1>1, <1>2, <1>3, Watching, PTL DEF Spec
==============================================================================
